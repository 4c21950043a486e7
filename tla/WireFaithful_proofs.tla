------------------------ MODULE WireFaithful_proofs ------------------------
(***************************************************************************)
(* What is encoded decodes to itself, for every chain, any sizes of rings  *)
(* and polynomials and every proof a sender may hold.                      *)
(*                                                                         *)
(* First what such a proof is like (Ordered): its items are laid out as    *)
(* their fields are, those an honest prover sends and those altered.  Then *)
(* what an item is written as, and that the decoder admits it exactly      *)
(* where it is what its field asks for, at the cost of its length; a proof *)
(* of longer fields declares no less.  FaithfulInv, inductive with the     *)
(* invariants of Wire_proofs, says that what has been decoded of a stream  *)
(* that does not depart from the encoder's is what its source holds, and   *)
(* that the source is at fault where such a stream is refused.             *)
(***************************************************************************)
EXTENDS Wire_proofs

-----------------------------------------------------------------------------
(***************************************************************************)
(* What the encoder writes decodes to the proof it was given.              *)
(***************************************************************************)
\* An item as it is decoded: a polynomial is held at its degree.
AsDecoded(f, item) ==
    IF f = "polys"
    THEN [item EXCEPT !.data = [i \in DOMAIN @ |-> [@[i] EXCEPT !.terms = item.data[i].degree]]]
    ELSE item

\* The fields that are matrices in a round of the kind.
Matrices(kind) == Verticals \cup Horizontals(kind)

\* A field's shape is of its type: an absent item holds nothing, the length of a
\* vector is not written apart from it, and only matrices have a width.
Ordered(kind, f, item) ==
    /\ Len(item.shape) = 0 => item = AbsentItem
    /\ Len(item.shape) = 1 => item.shape[1] = Len(item.data) /\ f \notin Matrices(kind)
    /\ Len(item.shape) > 1 => Len(item.shape) < 4 /\ f \in Matrices(kind) \cup {"next"}
    /\ f = "polys" => \A i \in DOMAIN item.data : item.data[i].degree \in 0..4

\* The two roots of a fine projection.
Both == {"constantTerm", "batched"}

\* A round holds fields of its kind only, all of those that are not optional, and
\* both roots of a fine projection or neither.
RoundOrdered(round) ==
    /\ round.kind \in ProofKinds
    /\ \A f \in Fields :
         /\ Ordered(round.kind, f, round.items[f])
         /\ f \notin FieldSet(round.kind) => round.items[f] = AbsentItem
         /\ (f \in FieldSet(round.kind) /\ ~Optional(round.kind, f)
              /\ ~(round.kind = "Sumcheck" /\ f \in Both)) => round.items[f].shape # NoShape
    /\ round.kind = "Sumcheck" =>
         (round.items["constantTerm"].shape = NoShape <=> round.items["batched"].shape = NoShape)

\* The types of the encoder's arguments.
ProofOrdered(proof) == Encodable(proof) /\ \A r \in 1..Len(proof) : RoundOrdered(proof[r])

\* An alteration leaves an item of its field's type.
LEMMA OrderedVector ==
    ASSUME NEW kind, NEW f, f \notin Matrices(kind), NEW data,
           f = "polys" => \A i \in DOMAIN data : data[i].degree \in 0..4
    PROVE  Ordered(kind, f, Vector(data)) /\ Vector(data).shape # NoShape
<1>1. /\ Vector(data).shape = <<Len(data)>> /\ Vector(data).data = data
      /\ Len(<<Len(data)>>) = 1 /\ <<Len(data)>>[1] = Len(data) /\ <<Len(data)>> # <<>>
  BY DEF Vector
<1>. QED
  BY <1>1 DEF Ordered, NoShape

\* An altered sequence of polynomials is laid out as one.
LEMMA OrderedPolys ==
    ASSUME NEW kind, NEW item \in SenderItems("polys"), Ordered(kind, "polys", item),
           item.shape # NoShape, NEW x \in AlteredPolys(item)
    PROVE  Ordered(kind, "polys", x) /\ x.shape # NoShape
<1>1. /\ item.shape \in Seq(Int) /\ item.data \in Seq(Polynomials) /\ item = [shape |-> item.shape, data |-> item.data]
  BY DEF SenderItems, WireItems
<1>2. /\ Len(item.data) \in Nat /\ DOMAIN item.data = 1..Len(item.data)
      /\ \A i \in 1..Len(item.data) : item.data[i] \in Polynomials
  BY <1>1, LenProperties, ElementOfSeq
<1>3. "polys" \notin Matrices(kind) \cup {"next"}
  BY DEF Matrices, Verticals, Horizontals
<1>4. \A i \in DOMAIN item.data : item.data[i].degree \in 0..4
  BY DEF Ordered
<1>5. ASSUME NEW d, x = Vector(d), \A i \in DOMAIN d : d[i].degree \in 0..4
      PROVE  Ordered(kind, "polys", x) /\ x.shape # NoShape
  BY <1>3, <1>5, OrderedVector
<1>6. ASSUME NEW p \in Polynomials, p.degree \in 0..4, x = [item EXCEPT !.data[1] = p]
      PROVE  Ordered(kind, "polys", x) /\ x.shape # NoShape
  <2>. DEFINE data == [item.data EXCEPT ![1] = p]
  <2>1. x = [shape |-> item.shape, data |-> data]
    BY <1>1, <1>6
  <2>2. data \in Seq(Polynomials) /\ Len(data) = Len(item.data) /\ DOMAIN data = DOMAIN item.data
    <3>1. item.data \in [1..Len(item.data) -> Polynomials]
      BY <1>1, LenProperties
    <3>2. data \in [1..Len(item.data) -> Polynomials]
      BY <1>6, <3>1
    <3>. HIDE DEF data
    <3>. QED
      BY <1>2, <3>2
  <2>3. \A i \in DOMAIN data : data[i].degree \in 0..4
    BY <1>2, <1>4, <1>6
  <2>. HIDE DEF data
  <2>4. Len(item.shape) # 0
    BY <1>1, EmptySeq DEF NoShape
  <2>. QED
    BY <1>3, <2>1, <2>2, <2>3, <2>4 DEF Ordered
<1>7. \A d \in Shorter(item.data) : \A i \in DOMAIN d : d[i].degree \in 0..4
  <2>. TAKE d \in Shorter(item.data)
  <2>1. \A i \in DOMAIN d : i \in DOMAIN item.data /\ d[i] = item.data[i]
    BY <1>1, ShorterType
  <2>. QED
    BY <1>4, <2>1
<1>8. ASSUME NEW d, d = Append(item.data, Polynomial(Foreign, 2, 0))
      PROVE  \A i \in DOMAIN d : d[i].degree \in 0..4
  <2>1. Polynomial(Foreign, 2, 0) \in Polynomials /\ Polynomial(Foreign, 2, 0).degree = 0
    BY HeldTypes, PolynomialType DEF Polynomial
  <2>2. /\ d \in Seq(Polynomials) /\ Len(d) = Len(item.data) + 1
        /\ \A i \in 1..Len(item.data) : d[i] = item.data[i]
        /\ d[Len(item.data) + 1] = Polynomial(Foreign, 2, 0)
    BY <1>1, <1>8, <2>1, AppendProperties
  <2>3. DOMAIN d = 1..(Len(item.data) + 1)
    BY <2>2, LenProperties
  <2>4. \A i \in 1..(Len(item.data) + 1) : i \in 1..Len(item.data) \/ i = Len(item.data) + 1
    BY <1>2
  <2>. QED
    BY <1>2, <1>4, <2>1, <2>2, <2>3, <2>4
<1>9. CASE item.data # <<>>
  <2>1. item.data[1] \in Polynomials /\ item.data[1].degree \in 0..4
    BY <1>1, <1>2, <1>4, <1>9, EmptySeq
  <2>2. /\ [item.data[1] EXCEPT !.terms = 4] \in Polynomials
        /\ [item.data[1] EXCEPT !.terms = 4].degree \in 0..4
    BY <2>1 DEF Polynomials
  <2>3. Polynomial(Foreign, 0, 0) \in Polynomials /\ Polynomial(Foreign, 0, 0).degree \in 0..4
    BY HeldTypes, PolynomialType DEF Polynomial
  <2>. QED
    BY <1>5, <1>6, <1>7, <1>8, <1>9, <2>2, <2>3 DEF AlteredPolys
<1>. QED
  BY <1>5, <1>7, <1>8, <1>9 DEF AlteredPolys

\* An altered matrix, too, but for the sizes that no longer describe it.
LEMMA OrderedMatrix ==
    ASSUME NEW kind, NEW f, f # "polys", NEW item \in SenderItems(f), Ordered(kind, f, item),
           Len(item.shape) > 1, NEW x \in AlteredMatrix(f, item)
    PROVE  Ordered(kind, f, x)
<1>1. /\ item.shape \in Seq(Int) /\ item = [shape |-> item.shape, data |-> item.data]
      /\ Len(item.shape) \in Nat
  BY LenProperties DEF SenderItems, WireItems
<1>2. Len(item.shape) < 4 /\ f \in Matrices(kind) \cup {"next"}
  BY DEF Ordered
<1>3. ASSUME NEW s, Len(s) = Len(item.shape), x.shape = s
      PROVE  Ordered(kind, f, x)
  <2>1. Len(x.shape) = Len(item.shape)
    BY <1>3
  <2>2. Len(x.shape) # 0 /\ Len(x.shape) # 1 /\ Len(x.shape) < 4
    <3>1. \A n \in Nat : n > 1 => n # 0 /\ n # 1
      OBVIOUS
    <3>2. Len(item.shape) # 0 /\ Len(item.shape) # 1
      BY <1>1, <3>1
    <3>. QED
      BY <1>2, <2>1, <3>2
  <2>3. ~(f = "polys")
    OBVIOUS
  <2>. QED
    BY <1>2, <2>2, <2>3 DEF Ordered
<1>4. \A s : DOMAIN s = DOMAIN item.shape /\ (\E g : s = [i \in DOMAIN item.shape |-> g[i]])
               => Len(s) = Len(item.shape)
  <2>1. DOMAIN item.shape = 1..Len(item.shape)
    BY <1>1, LenProperties
  <2>. QED
    BY <1>1, <2>1
<1>5. \A s \in AlteredShapes(item.shape) : Len(s) = Len(item.shape)
  <2>1. /\ item.shape \in [1..Len(item.shape) -> Int] /\ item.shape[1] \in Int /\ item.shape[2] \in Int
    BY <1>1, LenProperties
  <2>2. /\ item.shape[2] + 1 \in Int /\ item.shape[2] - 1 \in Int /\ 0 \in Int
    BY <2>1
  <2>3. \A s \in AlteredShapes(item.shape) : s \in [1..Len(item.shape) -> Int]
    BY <2>1, <2>2 DEF AlteredShapes
  <2>. QED
    BY <1>1, <2>3
<1>6. Len([item.shape EXCEPT ![1] = @ + 1]) = Len(item.shape)
  <2>1. item.shape \in [1..Len(item.shape) -> Int] /\ item.shape[1] \in Int
    BY <1>1, LenProperties
  <2>2. [item.shape EXCEPT ![1] = @ + 1] \in [1..Len(item.shape) -> Int]
    BY <2>1
  <2>. QED
    BY <1>1, <2>2
<1>7. ASSUME NEW s \in AlteredShapes(item.shape), x = [item EXCEPT !.shape = s]
      PROVE  Ordered(kind, f, x)
  <2>1. x.shape = s
    BY <1>1, <1>7
  <2>. QED
    BY <1>3, <1>5, <2>1
<1>8. ASSUME NEW d, x = [item EXCEPT !.data = d]
      PROVE  Ordered(kind, f, x)
  <2>1. x.shape = item.shape
    BY <1>1, <1>8
  <2>. QED
    BY <1>3, <2>1
<1>. QED
  BY <1>3, <1>6, <1>7, <1>8 DEF AlteredMatrix

\* So is every alteration of an item, and only an optional one takes it away.
LEMMA OrderedAltered ==
    ASSUME NEW kind, NEW f, NEW item, Sendable(kind, f, item), Ordered(kind, f, item),
           item.shape # NoShape, NEW x \in AlteredItems(kind, f, item)
    PROVE  Ordered(kind, f, x) /\ (x.shape # NoShape \/ Optional(kind, f))
<1>0. x.shape # NoShape \/ Optional(kind, f)
  BY AlteredItemsType DEF Sendable
<1>1. CASE f = "polys"
  <2>1. ~Optional(kind, f) /\ f # "next"
    BY <1>1 DEF Optional
  <2>2. AlteredItems(kind, f, item) = AlteredPolys(item) \cup {} \cup {}
    BY <1>1, <2>1, Zenon DEF AlteredItems
  <2>3. x \in AlteredPolys(item)
    BY <2>2
  <2>4. item \in SenderItems("polys") /\ Ordered(kind, "polys", item)
    BY <1>1 DEF Sendable
  <2>. QED
    BY <1>0, <1>1, <2>3, <2>4, OrderedPolys
<1>2. CASE f # "polys"
  <2>1. /\ item.shape \in Seq(Int) /\ item.data \in Seq(Elements)
        /\ item = [shape |-> item.shape, data |-> item.data] /\ LabelledAs(f, item.data)
    BY <1>2 DEF Sendable, SenderItems, WireItems
  <2>2. CASE x \in AlteredMatrix(f, item) /\ Len(item.shape) > 1
    <3>1. item \in SenderItems(f)
      BY DEF Sendable
    <3>. QED
      BY <1>0, <1>2, <2>2, <3>1, OrderedMatrix
  <2>3. CASE x \in {Vector(d) : d \in AlteredData(f, item.data)} /\ ~(Len(item.shape) > 1)
    <3>1. PICK d \in AlteredData(f, item.data) : x = Vector(d)
      BY <2>3
    <3>2. Len(item.shape) = 1
      <4>1. Len(item.shape) \in Nat /\ Len(item.shape) # 0
        BY <2>1, EmptySeq, LenProperties DEF NoShape
      <4>2. \A n \in Nat : n # 0 /\ ~(n > 1) => n = 1
        OBVIOUS
      <4>. QED
        BY <2>3, <4>1, <4>2
    <3>3. f \notin Matrices(kind)
      BY <3>2 DEF Ordered
    <3>. QED
      BY <1>0, <1>2, <3>1, <3>3, OrderedVector
  <2>4. CASE x = AbsentItem /\ Optional(kind, f)
    <3>1. Len(AbsentItem.shape) = 0
      BY AbsentIsEmpty DEF NoShape
    <3>. QED
      BY <1>0, <1>2, <2>4, <3>1 DEF Ordered
  <2>5. CASE f = "next" /\ x = [item EXCEPT !.shape = IF Len(@) = 1 THEN <<Len(item.data), 1>>
                                                      ELSE <<Len(item.data)>>]
    <3>1. f \notin Matrices(kind)
      BY <2>5 DEF Matrices, Verticals, Horizontals
    <3>2. CASE x = [shape |-> <<Len(item.data), 1>>, data |-> item.data]
      <4>1. Len(x.shape) = 2
        BY <3>2
      <4>. QED
        BY <1>0, <1>2, <2>5, <4>1 DEF Ordered
    <3>3. CASE x = [shape |-> <<Len(item.data)>>, data |-> item.data]
      <4>1. Len(x.shape) = 1 /\ x.shape[1] = Len(item.data) /\ x.data = item.data
        BY <3>3
      <4>. QED
        BY <1>0, <1>2, <3>1, <4>1 DEF Ordered
    <3>. QED
      BY <2>1, <2>5, <3>2, <3>3
  <2>. QED
    BY <1>2, <2>2, <2>3, <2>4, <2>5 DEF AlteredItems
<1>. QED
  BY <1>1, <1>2

\* The fields of each kind of round.
LEMMA FieldSetIs ==
    ASSUME NEW f \in Fields
    PROVE  /\ f \in FieldSet("Sumcheck") <=> f \notin {"image", "folded"}
           /\ f \in FieldSet("Intermediate") <=>
                f \in {"opening", "polys", "z0", "z1", "norm", "next", "image", "batched"}
           /\ f \in FieldSet("Simple") <=> f \in {"folded", "image", "batched", "opening"}
           /\ f \in FieldSet("Claims") <=> f \in {"polys", "z0", "z1"}
<1>1. FieldSet("Sumcheck")
        = {"polys", "z0", "z1", "norm", "mostInnerNorm", "projectionNorm", "opening", "coarse",
           "fine", "constantTermClaims", "next", "descend", "constantTerm", "batched"}
  <2>1. EncoderFields("Sumcheck")
          = <<"polys", "z0", "z1", "norm", "mostInnerNorm", "projectionNorm", "opening",
              "coarse", "fine", "constantTermClaims", "next", "descend">>
    BY DEF EncoderFields
  <2>. DEFINE F == <<"polys", "z0", "z1", "norm", "mostInnerNorm", "projectionNorm", "opening",
                     "coarse", "fine", "constantTermClaims", "next", "descend">>
  <2>2. 1..12 = {1, 2, 3, 4, 5, 6, 7, 8, 9, 10, 11, 12} /\ Len(F) = 12
    OBVIOUS
  <2>3. {F[i] : i \in {1, 2, 3, 4, 5, 6, 7, 8, 9, 10, 11, 12}}
          = {"polys", "z0", "z1", "norm", "mostInnerNorm", "projectionNorm", "opening", "coarse",
             "fine", "constantTermClaims", "next", "descend"}
    OBVIOUS
  <2>4. FieldSet("Sumcheck") = {F[i] : i \in 1..Len(F)} \cup {"constantTerm", "batched"}
    BY <2>1 DEF FieldSet
  <2>. HIDE DEF F
  <2>. QED
    BY <2>2, <2>3, <2>4
<1>2. FieldSet("Intermediate")
        = {"opening", "polys", "z0", "z1", "norm", "next", "image", "batched", "descend"}
  <2>1. EncoderFields("Intermediate")
          = <<"opening", "polys", "z0", "z1", "norm", "next", "image", "batched", "descend">>
    BY DEF EncoderFields
  <2>. DEFINE F == <<"opening", "polys", "z0", "z1", "norm", "next", "image", "batched", "descend">>
  <2>2. 1..9 = {1, 2, 3, 4, 5, 6, 7, 8, 9} /\ Len(F) = 9
    OBVIOUS
  <2>3. {F[i] : i \in {1, 2, 3, 4, 5, 6, 7, 8, 9}}
          = {"opening", "polys", "z0", "z1", "norm", "next", "image", "batched", "descend"}
    OBVIOUS
  <2>4. FieldSet("Intermediate") = {F[i] : i \in 1..Len(F)} \cup {}
    BY <2>1 DEF FieldSet
  <2>. HIDE DEF F
  <2>. QED
    BY <2>2, <2>3, <2>4
<1>3. FieldSet("Simple") = {"folded", "image", "batched", "opening"}
  <2>1. EncoderFields("Simple") = <<"folded", "image", "batched", "opening">>
    BY DEF EncoderFields
  <2>. DEFINE F == <<"folded", "image", "batched", "opening">>
  <2>2. 1..4 = {1, 2, 3, 4} /\ Len(F) = 4
    OBVIOUS
  <2>3. {F[i] : i \in {1, 2, 3, 4}} = {"folded", "image", "batched", "opening"}
    OBVIOUS
  <2>4. FieldSet("Simple") = {F[i] : i \in 1..Len(F)} \cup {}
    BY <2>1 DEF FieldSet
  <2>. HIDE DEF F
  <2>. QED
    BY <2>2, <2>3, <2>4
<1>4. FieldSet("Claims") = {"polys", "z0", "z1"}
  <2>1. EncoderFields("Claims") = <<"polys", "z0", "z1">>
    BY DEF EncoderFields
  <2>. DEFINE F == <<"polys", "z0", "z1">>
  <2>2. 1..3 = {1, 2, 3} /\ Len(F) = 3
    OBVIOUS
  <2>3. {F[i] : i \in {1, 2, 3}} = {"polys", "z0", "z1"}
    OBVIOUS
  <2>4. FieldSet("Claims") = {F[i] : i \in 1..Len(F)} \cup {}
    BY <2>1 DEF FieldSet
  <2>. HIDE DEF F
  <2>. QED
    BY <2>2, <2>3, <2>4
<1>5. f \in FieldSet("Sumcheck") <=> f \notin {"image", "folded"}
  BY <1>1 DEF Fields
<1>6. f \in FieldSet("Intermediate") <=>
        f \in {"opening", "polys", "z0", "z1", "norm", "next", "image", "batched"}
  BY <1>2 DEF Fields
<1>. QED
  BY <1>3, <1>4, <1>5, <1>6

\* What is made of a sound item: its shape tells its length, and its elements are
\* held as its field asks.
Made(f, x, s) ==
    /\ x \in SenderItems(f) /\ x.shape = s
    /\ Len(x.data) = Entries(s) /\ Len(x.data) \in Nat
    /\ f # "polys" => \A i \in DOMAIN x.data : x.data[i].held = HeldAs(f)
    /\ f = "polys" => \A i \in DOMAIN x.data : x.data[i].degree \in 0..4

\* What is sent for a sound item has its shape, and entries as many as that asks for.
LEMMA WireMade ==
    ASSUME NEW f, NEW item \in SoundItems
    PROVE  Made(f, WireItem(f, item), item.shape)
<1>. DEFINE data == [i \in DOMAIN item.data |->
                       IF f = "polys" THEN Polynomial(item.data[i], 1 + (i % 4), 1 + (i % 4))
                       ELSE Element(f, item.data[i])]
            n == Len(item.data)
<1>0. item \in Items /\ Len(item.data) = Entries(item.shape)
  BY DEF SoundItems
<1>1. n \in Nat /\ DOMAIN item.data = 1..n
  BY <1>0, LenProperties DEF Items
<1>2. WireItem(f, item) = [shape |-> item.shape, data |-> data]
  BY DEF WireItem
<1>3. Len(data) = n /\ DOMAIN data = 1..n
  BY <1>1
<1>4. f # "polys" => \A i \in 1..n : data[i].held = HeldAs(f)
  BY <1>1 DEF Element
<1>5. f = "polys" => \A i \in 1..n : data[i].degree \in 0..4
  <2>1. \A i \in 1..n : 1 + (i % 4) \in 0..4
    BY <1>1
  <2>2. f = "polys" => \A i \in 1..n : data[i].degree = 1 + (i % 4)
    BY <1>1 DEF Polynomial
  <2>. QED
    BY <2>1, <2>2
<1>6. WireItem(f, item) \in SenderItems(f)
  BY <1>0, WireItemType
<1>. HIDE DEF data
<1>. QED
  BY <1>0, <1>1, <1>2, <1>3, <1>4, <1>5, <1>6 DEF Made

\* An item of no shape is the absent one.
LEMMA MadeAbsent ==
    ASSUME NEW f, NEW x, Made(f, x, NoShape)
    PROVE  x = AbsentItem
<1>1. /\ x = [shape |-> x.shape, data |-> x.data]
      /\ x.data \in Seq(IF f = "polys" THEN Polynomials ELSE Elements)
  BY DEF Made, SenderItems, WireItems
<1>2. Len(x.data) = 0 /\ x.shape = <<>>
  BY EntriesOf DEF Made, NoShape
<1>3. x.data = <<>>
  BY <1>1, <1>2, EmptySeq
<1>4. AbsentItem.data = <<>> /\ AbsentItem.shape = <<>> /\ AbsentItem = [shape |-> AbsentItem.shape, data |-> AbsentItem.data]
  BY AbsentIsEmpty DEF NoShape, AbsentItem, WireItem
<1>. QED
  BY <1>1, <1>2, <1>3, <1>4

\* The shapes of a field's type.
OneSize(s) == \E n : s = <<n>>
TwoSizes(s) == \E h, w : s = <<h, w>>
FullColumns(s) == \E h : \E w \in Nat : s = <<h, w, w>>
Shaped(kind, f, s) ==
    \/ s = NoShape
    \/ OneSize(s) /\ f \notin Matrices(kind)
    \/ TwoSizes(s) /\ f \in Matrices(kind) \cup {"next"}
    \/ FullColumns(s) /\ f \in Matrices(kind)

\* The shapes that are sent.
LEMMA ShapesOf ==
    /\ \A n : OneSize(<<n>>) /\ <<n>> # NoShape
    /\ \A h, w : TwoSizes(<<h, w>>) /\ <<h, w>> # NoShape
    /\ \A h : \A w \in Nat : FullColumns(<<h, w, w>>) /\ <<h, w, w>> # NoShape
    /\ \A s : OptionalShape(TRUE, s) = s /\ OptionalShape(FALSE, s) = NoShape
    /\ \A b \in BOOLEAN : \A s : OptionalShape(b, s) = s \/ OptionalShape(b, s) = NoShape
<1>1. \A n : OneSize(<<n>>) /\ <<n>> # NoShape
  BY DEF OneSize, NoShape
<1>2. \A h, w : TwoSizes(<<h, w>>) /\ <<h, w>> # NoShape
  BY DEF TwoSizes, NoShape
<1>3. \A h : \A w \in Nat : FullColumns(<<h, w, w>>) /\ <<h, w, w>> # NoShape
  BY DEF FullColumns, NoShape
<1>. QED
  BY <1>1, <1>2, <1>3 DEF OptionalShape

\* An item of a shape its field is sent with is what its field asks for.
LEMMA MadeOrdered ==
    ASSUME NEW kind, NEW f, NEW x, NEW s, Made(f, x, s), Shaped(kind, f, s),
           f \in SingleRings /\ s # NoShape => s = << 1 >>
    PROVE  Ordered(kind, f, x) /\ WellHeld(kind, f, x)
<1>1. /\ x.shape = s /\ Len(x.data) = Entries(s) /\ Len(x.data) \in Nat
      /\ f # "polys" => \A i \in DOMAIN x.data : x.data[i].held = HeldAs(f)
      /\ f = "polys" => \A i \in DOMAIN x.data : x.data[i].degree \in 0..4
  BY DEF Made
<1>2. f \in SingleRings /\ s # NoShape => Len(x.data) = 1
  BY <1>1, EntriesOf
<1>3. CASE s = NoShape
  <2>1. x = AbsentItem
    BY <1>3, MadeAbsent
  <2>2. Len(s) = 0
    BY <1>3 DEF NoShape
  <2>. QED
    BY <1>1, <1>2, <2>1, <2>2 DEF Ordered, WellHeld
<1>4. ASSUME NEW n, s = <<n>>, f \notin Matrices(kind)
      PROVE  Ordered(kind, f, x) /\ WellHeld(kind, f, x)
  <2>1. Len(s) = 1 /\ s[1] = n /\ Entries(s) = n
    BY <1>4, EntriesOf
  <2>. QED
    BY <1>1, <1>2, <1>4, <2>1 DEF Ordered, WellHeld
<1>5. ASSUME NEW h, NEW w, s = <<h, w>>, f \in Matrices(kind) \cup {"next"}
      PROVE  Ordered(kind, f, x) /\ WellHeld(kind, f, x)
  <2>1. Len(s) = 2
    BY <1>5
  <2>. QED
    BY <1>1, <1>2, <1>5, <2>1 DEF Ordered, WellHeld
<1>6. ASSUME NEW h, NEW w \in Nat, s = <<h, w, w>>, f \in Matrices(kind)
      PROVE  Ordered(kind, f, x) /\ WellHeld(kind, f, x)
  <2>1. Len(s) = 3 /\ s[3] = w /\ s[2] = w /\ w <= w
    BY <1>6
  <2>. QED
    BY <1>1, <1>2, <1>6, <2>1 DEF Ordered, WellHeld
<1>. QED
  BY <1>3, <1>4, <1>5, <1>6 DEF Shaped, OneSize, TwoSizes, FullColumns

\* The shapes of what an honest prover sends.
LEMMA NextShape ==
    ASSUME NEW c \in Chains, NEW r \in 1..Len(c)
    PROVE  SentCommitment(c, r).shape =
             IF ~HasNext(c, r) THEN NoShape
             ELSE IF c[r + 1].kind = "Sumcheck" THEN <<c[r + 1].rank["commitment"]>>
             ELSE <<NextPowerOfTwo(c[r + 1].rank["commitment"]), Width(c[r + 1])>>
BY DEF SentCommitment, Absent, HonestItem, BasicCommitmentShape

SentShape(c, r, f) == Sent(c, r)[f].shape

\* The shape of the commitment to the next round is one its field is sent with.
LEMMA NextShaped ==
    ASSUME NEW c \in Chains, NEW r \in 1..Len(c)
    PROVE  \/ SentCommitment(c, r).shape = NoShape
           \/ OneSize(SentCommitment(c, r).shape)
           \/ TwoSizes(SentCommitment(c, r).shape)
<1>1. CASE ~HasNext(c, r)
  BY <1>1, NextShape
<1>2. CASE HasNext(c, r) /\ c[r + 1].kind = "Sumcheck"
  BY <1>2, NextShape, ShapesOf
<1>3. CASE HasNext(c, r) /\ c[r + 1].kind # "Sumcheck"
  BY <1>3, NextShape, ShapesOf, ZenonT(60)
<1>. QED
  BY <1>1, <1>2, <1>3

\* The shapes of a round of a sumcheck.
LEMMA SumcheckShapes ==
    ASSUME NEW c \in Chains, NEW r \in 1..Len(c), c[r].kind = "Sumcheck"
    PROVE  /\ \A f \in {"z0", "z1", "norm", "mostInnerNorm"} : SentShape(c, r, f) = <<1>>
           /\ SentShape(c, r, "polys") = <<c[r].vars>>
           /\ SentShape(c, r, "projectionNorm") = OptionalShape(HasProjectionNorm(c[r]), <<1>>)
           /\ SentShape(c, r, "opening") = <<c[r].rank["opening"]>>
           /\ SentShape(c, r, "coarse") = OptionalShape(c[r].projection = "Coarse", <<c[r].rank["coarse"]>>)
           /\ \A f \in Both : SentShape(c, r, f) = OptionalShape(c[r].projection = "Fine", <<c[r].rank[f]>>)
           /\ SentShape(c, r, "constantTermClaims") = OptionalShape(c[r].projection = "Fine", <<NofBatches>>)
           /\ SentShape(c, r, "next") = SentCommitment(c, r).shape
           /\ SentShape(c, r, "image") = NoShape /\ SentShape(c, r, "folded") = NoShape
<1>1. \A f : \A n : HonestItem(r, f, <<n>>, {}).shape = <<n>>
  BY DEF HonestItem
<1>2. Absent.shape = NoShape
  BY DEF Absent
<1>3. \A f \in Fields : SentShape(c, r, f) = SumcheckSent(c, r)[f].shape
  BY DEF SentShape, Sent
<1>4. \A f \in Fields : f \in {"polys", "z0", "z1", "norm", "mostInnerNorm", "projectionNorm",
        "opening", "coarse", "constantTermClaims", "next", "constantTerm", "batched", "image", "folded"}
  BY DEF Fields
<1>5. /\ \A f \in {"z0", "z1", "norm", "mostInnerNorm"} :
            f \in Fields /\ SumcheckSent(c, r)[f] = HonestItem(r, f, <<1>>, {})
      /\ "polys" \in Fields /\ SumcheckSent(c, r)["polys"] = HonestItem(r, "polys", <<c[r].vars>>, {})
      /\ "next" \in Fields /\ SumcheckSent(c, r)["next"] = SentCommitment(c, r)
      /\ "opening" \in Fields
      /\ SumcheckSent(c, r)["opening"] = HonestItem(r, "opening", <<c[r].rank["opening"]>>, {})
      /\ \A f \in {"image", "folded"} : f \in Fields /\ SumcheckSent(c, r)[f] = Absent
  BY DEF SumcheckSent, Fields
<1>6. /\ "projectionNorm" \in Fields
      /\ SumcheckSent(c, r)["projectionNorm"]
           = IF HasProjectionNorm(c[r]) THEN HonestItem(r, "projectionNorm", <<1>>, {}) ELSE Absent
  BY DEF SumcheckSent, Fields
<1>7. /\ "coarse" \in Fields
      /\ SumcheckSent(c, r)["coarse"]
           = IF c[r].projection = "Coarse" THEN HonestItem(r, "coarse", <<c[r].rank["coarse"]>>, {})
             ELSE Absent
  BY DEF SumcheckSent, Fields
<1>8. \A f \in Both :
         /\ f \in Fields
         /\ SumcheckSent(c, r)[f]
           = IF c[r].projection = "Fine" THEN HonestItem(r, f, <<c[r].rank[f]>>, {}) ELSE Absent
  BY DEF SumcheckSent, Fields, Both
<1>9. /\ "constantTermClaims" \in Fields
      /\ SumcheckSent(c, r)["constantTermClaims"]
           = IF c[r].projection = "Fine" THEN HonestItem(r, "constantTermClaims", <<NofBatches>>, {})
             ELSE Absent
  BY DEF SumcheckSent, Fields
<1>10. SentShape(c, r, "projectionNorm") = OptionalShape(HasProjectionNorm(c[r]), <<1>>)
  BY <1>1, <1>2, <1>3, <1>6 DEF OptionalShape
<1>11. SentShape(c, r, "coarse") = OptionalShape(c[r].projection = "Coarse", <<c[r].rank["coarse"]>>)
  BY <1>1, <1>2, <1>3, <1>7 DEF OptionalShape
<1>12. \A f \in Both : SentShape(c, r, f) = OptionalShape(c[r].projection = "Fine", <<c[r].rank[f]>>)
  <2>. TAKE f \in Both
  <2>1. CASE c[r].projection = "Fine"
    <3>1. SumcheckSent(c, r)[f] = HonestItem(r, f, <<c[r].rank[f]>>, {}) /\ f \in Fields
      BY <1>8, <2>1
    <3>2. HonestItem(r, f, <<c[r].rank[f]>>, {}).shape = <<c[r].rank[f]>>
      BY <1>1
    <3>. QED
      BY <1>3, <2>1, <3>1, <3>2 DEF OptionalShape
  <2>2. CASE c[r].projection # "Fine"
    BY <1>2, <1>3, <1>8, <2>2 DEF OptionalShape
  <2>. QED
    BY <2>1, <2>2
<1>13. SentShape(c, r, "constantTermClaims") = OptionalShape(c[r].projection = "Fine", <<NofBatches>>)
  BY <1>1, <1>2, <1>3, <1>9 DEF OptionalShape
<1>14. \A f \in {"z0", "z1", "norm", "mostInnerNorm"} : SentShape(c, r, f) = <<1>>
  BY <1>1, <1>3, <1>5
<1>15. /\ SentShape(c, r, "polys") = <<c[r].vars>>
       /\ SentShape(c, r, "opening") = <<c[r].rank["opening"]>>
       /\ SentShape(c, r, "next") = SentCommitment(c, r).shape
       /\ SentShape(c, r, "image") = NoShape /\ SentShape(c, r, "folded") = NoShape
  BY <1>1, <1>2, <1>3, <1>5
<1>. QED
  BY <1>10, <1>11, <1>12, <1>13, <1>14, <1>15

\* The shapes of a simple and of an intermediate round.
LEMMA BasicShapes ==
    ASSUME NEW c \in Chains, NEW r \in 1..Len(c), c[r].kind # "Sumcheck"
    PROVE  /\ SentShape(c, r, "opening") = <<c[r].openings, Width(c[r])>>
           /\ SentShape(c, r, "image") = <<c[r].image, Width(c[r]), Width(c[r])>>
           /\ SentShape(c, r, "batched") = <<NofBatches, Width(c[r])>>
           /\ SentShape(c, r, "folded") = OptionalShape(c[r].kind # "Intermediate", <<Height(c[r]), 1, 1>>)
           /\ \A f \in {"z0", "z1", "norm"} : SentShape(c, r, f) = OptionalShape(c[r].kind = "Intermediate", <<1>>)
           /\ SentShape(c, r, "polys") = OptionalShape(c[r].kind = "Intermediate", <<c[r].vars>>)
           /\ SentShape(c, r, "next") = SentCommitment(c, r).shape
           /\ \A f \in {"mostInnerNorm", "projectionNorm", "coarse", "constantTerm",
                        "constantTermClaims"} : SentShape(c, r, f) = NoShape
<1>1. \A f : \A s : \A p : HonestItem(r, f, s, p).shape = s
  BY DEF HonestItem
<1>2. Absent.shape = NoShape
  BY DEF Absent
<1>3. \A f \in Fields : SentShape(c, r, f) = BasicSent(c, r)[f].shape
  BY DEF SentShape, Sent
<1>. DEFINE w == Width(c[r])
            sumcheck == c[r].kind = "Intermediate"
<1>4. /\ BasicSent(c, r)["opening"] = HonestItem(r, "opening", <<c[r].openings, w>>, LastColumn(c[r].openings, w))
      /\ BasicSent(c, r)["image"] = HonestItem(r, "image", <<c[r].image, w, w>>, {})
      /\ BasicSent(c, r)["batched"] = HonestItem(r, "batched", <<NofBatches, w>>, {})
      /\ BasicSent(c, r)["next"] = SentCommitment(c, r)
      /\ \A f \in {"mostInnerNorm", "projectionNorm", "coarse", "constantTerm",
                   "constantTermClaims"} : f \in Fields /\ BasicSent(c, r)[f] = Absent
      /\ \A f \in {"opening", "image", "batched", "next", "folded", "z0", "z1", "norm", "polys"} : f \in Fields
  BY DEF BasicSent, Fields
<1>5. BasicSent(c, r)["folded"] = IF ~sumcheck THEN HonestItem(r, "folded", <<Height(c[r]), 1, 1>>, {}) ELSE Absent
  BY DEF BasicSent, Fields
<1>6. BasicSent(c, r)["polys"] = IF sumcheck THEN HonestItem(r, "polys", <<c[r].vars>>, {}) ELSE Absent
  BY DEF BasicSent, Fields
<1>7. \A f \in {"z0", "z1", "norm"} :
        BasicSent(c, r)[f] = IF sumcheck THEN HonestItem(r, f, <<1>>, {}) ELSE Absent
  BY DEF BasicSent, Fields
<1>8. SentShape(c, r, "folded") = OptionalShape(~sumcheck, <<Height(c[r]), 1, 1>>)
  BY <1>1, <1>2, <1>3, <1>4, <1>5 DEF OptionalShape
<1>9. SentShape(c, r, "polys") = OptionalShape(sumcheck, <<c[r].vars>>)
  BY <1>1, <1>2, <1>3, <1>4, <1>6 DEF OptionalShape
<1>10. \A f \in {"z0", "z1", "norm"} : SentShape(c, r, f) = OptionalShape(sumcheck, <<1>>)
  BY <1>1, <1>2, <1>3, <1>4, <1>7 DEF OptionalShape
<1>11. /\ SentShape(c, r, "opening") = <<c[r].openings, Width(c[r])>>
       /\ SentShape(c, r, "image") = <<c[r].image, Width(c[r]), Width(c[r])>>
       /\ SentShape(c, r, "batched") = <<NofBatches, Width(c[r])>>
       /\ SentShape(c, r, "next") = SentCommitment(c, r).shape
  BY <1>1, <1>3, <1>4
<1>12. \A f \in {"mostInnerNorm", "projectionNorm", "coarse", "constantTerm",
                 "constantTermClaims"} : SentShape(c, r, f) = NoShape
  BY <1>2, <1>3, <1>4
<1>. QED
  BY <1>8, <1>9, <1>10, <1>11, <1>12

\* The shapes of an honest round are those of its fields' types.
LEMMA HonestShaped ==
    ASSUME NEW c \in Chains, NEW r \in 1..Len(c)
    PROVE  \A f \in Fields :
             /\ Shaped(c[r].kind, f, SentShape(c, r, f))
             /\ f \in SingleRings /\ SentShape(c, r, f) # NoShape => SentShape(c, r, f) = <<1>>
             /\ f \notin FieldSet(c[r].kind) => SentShape(c, r, f) = NoShape
             /\ (f \in FieldSet(c[r].kind) /\ ~Optional(c[r].kind, f)
                   /\ ~(c[r].kind = "Sumcheck" /\ f \in Both)) => SentShape(c, r, f) # NoShape
             /\ c[r].kind = "Sumcheck" => (SentShape(c, r, "constantTerm") = NoShape <=> SentShape(c, r, "batched") = NoShape)
<1>1. /\ c[r].kind \in {"Sumcheck", "Intermediate", "Simple"}
      /\ Width(c[r]) \in Nat
  BY ConfigType DEF Kinds
<1>. DEFINE V(s) == s = NoShape \/ OneSize(s)
<1>2. \A n : V(<<n>>)
  BY ShapesOf
<1>3. V(NoShape)
  OBVIOUS
<1>4. \A b \in BOOLEAN : \A n : V(OptionalShape(b, <<n>>))
  BY ShapesOf
<1>5. /\ Horizontals("Sumcheck") = {} /\ Verticals = {"folded", "image"}
      /\ \A k \in {"Intermediate", "Simple"} : Horizontals(k) = {"opening", "batched"}
  BY DEF Horizontals, Verticals
<1>6. CASE c[r].kind = "Sumcheck"
  <2>1. /\ \A f \in {"z0", "z1", "norm", "mostInnerNorm"} : SentShape(c, r, f) = <<1>>
        /\ SentShape(c, r, "polys") = <<c[r].vars>>
        /\ SentShape(c, r, "projectionNorm") = OptionalShape(HasProjectionNorm(c[r]), <<1>>)
        /\ SentShape(c, r, "opening") = <<c[r].rank["opening"]>>
        /\ SentShape(c, r, "coarse") = OptionalShape(c[r].projection = "Coarse", <<c[r].rank["coarse"]>>)
        /\ \A f \in Both : SentShape(c, r, f) = OptionalShape(c[r].projection = "Fine", <<c[r].rank[f]>>)
        /\ SentShape(c, r, "constantTermClaims") = OptionalShape(c[r].projection = "Fine", <<NofBatches>>)
        /\ SentShape(c, r, "next") = SentCommitment(c, r).shape
        /\ SentShape(c, r, "image") = NoShape /\ SentShape(c, r, "folded") = NoShape
    BY <1>6, SumcheckShapes
  <2>2. /\ HasProjectionNorm(c[r]) \in BOOLEAN
        /\ (c[r].projection = "Coarse") \in BOOLEAN /\ (c[r].projection = "Fine") \in BOOLEAN
    BY DEF HasProjectionNorm
  <2>3. \A f \in Fields \ {"next"} : V(SentShape(c, r, f))
    <3>1. \A f \in Both : V(SentShape(c, r, f))
      BY <1>4, <2>1, <2>2
    <3>2. \A f \in {"projectionNorm", "coarse", "constantTermClaims"} : V(SentShape(c, r, f))
      <4>1. V(SentShape(c, r, "projectionNorm"))
        BY <1>4, <2>1, <2>2
      <4>2. V(SentShape(c, r, "coarse"))
        BY <1>4, <2>1, <2>2
      <4>3. V(SentShape(c, r, "constantTermClaims"))
        BY <1>4, <2>1, <2>2
      <4>. HIDE DEF V
      <4>. QED
        BY <4>1, <4>2, <4>3
    <3>3. \A f \in {"z0", "z1", "norm", "mostInnerNorm", "polys", "opening", "image", "folded"} : V(SentShape(c, r, f))
      BY <1>2, <1>3, <2>1
    <3>. HIDE DEF V
    <3>. QED
      BY <3>1, <3>2, <3>3 DEF Fields, Both
  <2>4. \A f \in Fields : Shaped(c[r].kind, f, SentShape(c, r, f))
    <3>1. \A f \in Fields \ {"next"} : f \in Matrices("Sumcheck") => SentShape(c, r, f) = NoShape
      BY <1>5, <2>1 DEF Matrices
    <3>2. \A f \in Fields \ {"next"} : Shaped(c[r].kind, f, SentShape(c, r, f))
      BY <1>6, <2>3, <3>1 DEF Shaped
    <3>3. Shaped(c[r].kind, "next", SentShape(c, r, "next"))
      <4>1. "next" \notin Matrices(c[r].kind)
        BY <1>5, <1>6 DEF Matrices
      <4>2. SentShape(c, r, "next") = NoShape \/ OneSize(SentShape(c, r, "next")) \/ TwoSizes(SentShape(c, r, "next"))
        BY <2>1, NextShaped
      <4>. QED
        BY <4>1, <4>2 DEF Shaped
    <3>. QED
      BY <3>2, <3>3
  <2>5. \A f \in Fields : f \in SingleRings /\ SentShape(c, r, f) # NoShape => SentShape(c, r, f) = <<1>>
    <3>1. SentShape(c, r, "projectionNorm") # NoShape => SentShape(c, r, "projectionNorm") = <<1>>
      BY <2>1 DEF OptionalShape
    <3>. QED
      BY <2>1, <3>1 DEF SingleRings
  <2>6. \A f \in Fields : f \notin FieldSet(c[r].kind) => SentShape(c, r, f) = NoShape
    BY <1>6, <2>1, FieldSetIs
  <2>7. \A f \in Fields : ~Optional(c[r].kind, f) /\ f \in FieldSet(c[r].kind) /\ f \notin Both => SentShape(c, r, f) # NoShape
    <3>1. \A f \in Fields : ~Optional(c[r].kind, f) /\ f \in FieldSet(c[r].kind) /\ f \notin Both
            => f \in {"z0", "z1", "norm", "mostInnerNorm", "polys", "opening"}
      BY <1>6, FieldSetIs DEF Fields, Optional, Both
    <3>. QED
      <4>1. SentShape(c, r, "polys") # NoShape /\ SentShape(c, r, "opening") # NoShape
        BY <2>1, ShapesOf
      <4>2. <<1>> # NoShape
        BY ShapesOf
      <4>3. \A f \in {"z0", "z1", "norm", "mostInnerNorm", "polys", "opening"} : SentShape(c, r, f) # NoShape
        BY <2>1, <4>1, <4>2
      <4>. QED
        BY <3>1, <4>3
  <2>8. SentShape(c, r, "constantTerm") = NoShape <=> SentShape(c, r, "batched") = NoShape
    BY <2>1, ShapesOf DEF Both, OptionalShape
  <2>. QED
    BY <1>6, <2>4, <2>5, <2>6, <2>7, <2>8
<1>7. CASE c[r].kind # "Sumcheck"
  <2>1. /\ SentShape(c, r, "opening") = <<c[r].openings, Width(c[r])>>
        /\ SentShape(c, r, "image") = <<c[r].image, Width(c[r]), Width(c[r])>>
        /\ SentShape(c, r, "batched") = <<NofBatches, Width(c[r])>>
        /\ SentShape(c, r, "folded") = OptionalShape(c[r].kind # "Intermediate", <<Height(c[r]), 1, 1>>)
        /\ \A f \in {"z0", "z1", "norm"} : SentShape(c, r, f) = OptionalShape(c[r].kind = "Intermediate", <<1>>)
        /\ SentShape(c, r, "polys") = OptionalShape(c[r].kind = "Intermediate", <<c[r].vars>>)
        /\ SentShape(c, r, "next") = SentCommitment(c, r).shape
        /\ \A f \in {"mostInnerNorm", "projectionNorm", "coarse", "constantTerm",
                     "constantTermClaims"} : SentShape(c, r, f) = NoShape
    BY <1>7, BasicShapes
  <2>2. Matrices(c[r].kind) = {"folded", "image", "opening", "batched"}
    BY <1>1, <1>5, <1>7 DEF Matrices
  <2>3. \A f \in Fields : Shaped(c[r].kind, f, SentShape(c, r, f))
    <3>1. \A f \in {"opening", "batched", "image"} : Shaped(c[r].kind, f, SentShape(c, r, f))
      <4>1. TwoSizes(SentShape(c, r, "opening")) /\ TwoSizes(SentShape(c, r, "batched")) /\ FullColumns(SentShape(c, r, "image"))
        BY <1>1, <2>1, ShapesOf
      <4>. QED
        BY <2>2, <4>1 DEF Shaped
    <3>2. Shaped(c[r].kind, "folded", SentShape(c, r, "folded"))
      <4>1. SentShape(c, r, "folded") = NoShape \/ FullColumns(SentShape(c, r, "folded"))
        <5>1. FullColumns(<<Height(c[r]), 1, 1>>)
          BY ShapesOf
        <5>2. (c[r].kind # "Intermediate") \in BOOLEAN
          OBVIOUS
        <5>. QED
          BY <2>1, <5>1, <5>2, ShapesOf
      <4>. QED
        BY <2>2, <4>1 DEF Shaped
    <3>3. \A f \in {"z0", "z1", "norm", "polys"} : Shaped(c[r].kind, f, SentShape(c, r, f))
      <4>1. \A f \in {"z0", "z1", "norm", "polys"} : V(SentShape(c, r, f))
        <5>. HIDE DEF V
        <5>0. (c[r].kind = "Intermediate") \in BOOLEAN
          OBVIOUS
        <5>1. \A f \in {"z0", "z1", "norm"} : V(SentShape(c, r, f))
          BY <1>4, <2>1, <5>0
        <5>2. V(SentShape(c, r, "polys"))
          BY <1>4, <2>1, <5>0
        <5>. HIDE DEF V
        <5>. QED
          BY <5>1, <5>2
      <4>. QED
        BY <2>2, <4>1 DEF Shaped
    <3>4. Shaped(c[r].kind, "next", SentShape(c, r, "next"))
      <4>1. SentShape(c, r, "next") = NoShape \/ OneSize(SentShape(c, r, "next")) \/ TwoSizes(SentShape(c, r, "next"))
        BY <2>1, NextShaped
      <4>. QED
        BY <2>2, <4>1 DEF Shaped
    <3>5. \A f \in {"mostInnerNorm", "projectionNorm", "coarse", "constantTerm",
                     "constantTermClaims"} : Shaped(c[r].kind, f, SentShape(c, r, f))
      BY <2>1 DEF Shaped
    <3>. QED
      BY <3>1, <3>2, <3>3, <3>4, <3>5 DEF Fields
  <2>4. \A f \in Fields : f \in SingleRings /\ SentShape(c, r, f) # NoShape => SentShape(c, r, f) = <<1>>
    <3>1. \A f \in {"z0", "z1", "norm"} : SentShape(c, r, f) # NoShape => SentShape(c, r, f) = <<1>>
      BY <2>1 DEF OptionalShape
    <3>. QED
      BY <2>1, <3>1 DEF SingleRings
  <2>5. CASE c[r].kind = "Intermediate"
    <3>1. \A f \in {"z0", "z1", "norm"} : SentShape(c, r, f) = <<1>>
      BY <2>1, <2>5, ShapesOf
    <3>2. SentShape(c, r, "polys") = <<c[r].vars>> /\ SentShape(c, r, "folded") = NoShape
      BY <2>1, <2>5 DEF OptionalShape
    <3>3. \A f \in Fields : f \notin FieldSet(c[r].kind) => SentShape(c, r, f) = NoShape
      <4>1. \A f \in Fields : f \notin FieldSet(c[r].kind) =>
              f \in {"mostInnerNorm", "projectionNorm", "coarse", "constantTerm",
                     "constantTermClaims", "folded"}
        BY <2>5, FieldSetIs DEF Fields
      <4>. QED
        BY <2>1, <3>2, <4>1
    <3>4. \A f \in Fields : f \in FieldSet(c[r].kind) /\ ~Optional(c[r].kind, f) => SentShape(c, r, f) # NoShape
      <4>1. \A f \in Fields : f \in FieldSet(c[r].kind) /\ ~Optional(c[r].kind, f) =>
              f \in {"opening", "polys", "z0", "z1", "norm", "image", "batched"}
        BY <2>5, FieldSetIs DEF Optional
      <4>. QED
        <5>1. SentShape(c, r, "opening") # NoShape /\ SentShape(c, r, "batched") # NoShape /\ SentShape(c, r, "polys") # NoShape
          <6>1. /\ <<c[r].openings, Width(c[r])>> # NoShape /\ <<NofBatches, Width(c[r])>> # NoShape
                /\ <<c[r].vars>> # NoShape
            BY DEF NoShape
          <6>. QED
            BY <2>1, <3>2, <6>1
        <5>2. SentShape(c, r, "image") # NoShape
          BY <1>1, <2>1, ShapesOf
        <5>3. <<1>> # NoShape
          BY ShapesOf
        <5>4. \A f \in {"opening", "polys", "z0", "z1", "norm", "image", "batched"} : SentShape(c, r, f) # NoShape
          BY <3>1, <5>1, <5>2, <5>3
        <5>. QED
          BY <4>1, <5>4
    <3>. QED
      BY <1>7, <2>3, <2>4, <3>3, <3>4
  <2>6. CASE c[r].kind = "Simple"
    <3>1. \A f \in {"z0", "z1", "norm"} : SentShape(c, r, f) = NoShape
      BY <2>1, <2>6 DEF OptionalShape
    <3>2. SentShape(c, r, "polys") = NoShape /\ SentShape(c, r, "folded") = <<Height(c[r]), 1, 1>>
      BY <2>1, <2>6 DEF OptionalShape
    <3>3. SentShape(c, r, "next") = NoShape
      <4>1. ~(r < Len(c))
        BY <2>6, ChainOrder
      <4>. QED
        BY <2>1, <4>1, NextShape DEF HasNext, Last
    <3>4. \A f \in Fields : f \notin FieldSet(c[r].kind) => SentShape(c, r, f) = NoShape
      <4>1. \A f \in Fields : f \notin FieldSet(c[r].kind) =>
              f \in {"mostInnerNorm", "projectionNorm", "coarse", "constantTerm",
                     "constantTermClaims", "z0", "z1", "norm", "polys", "next"}
        BY <2>6, FieldSetIs DEF Fields
      <4>. QED
        BY <2>1, <3>1, <3>2, <3>3, <4>1
    <3>5. \A f \in Fields : f \in FieldSet(c[r].kind) => SentShape(c, r, f) # NoShape
      <4>1. \A f \in Fields : f \in FieldSet(c[r].kind) =>
              f \in {"opening", "folded", "image", "batched"}
        BY <2>6, FieldSetIs
      <4>. QED
        <5>1. SentShape(c, r, "opening") # NoShape /\ SentShape(c, r, "batched") # NoShape
          <6>1. <<c[r].openings, Width(c[r])>> # NoShape /\ <<NofBatches, Width(c[r])>> # NoShape
            BY DEF NoShape
          <6>. QED
            BY <2>1, <6>1
        <5>2. SentShape(c, r, "image") # NoShape
          BY <1>1, <2>1, ShapesOf
        <5>3. SentShape(c, r, "folded") # NoShape
          <6>1. 1 \in Nat
            OBVIOUS
          <6>. QED
            BY <3>2, <6>1, ShapesOf
        <5>4. \A f \in {"opening", "folded", "image", "batched"} : SentShape(c, r, f) # NoShape
          BY <5>1, <5>2, <5>3
        <5>. QED
          BY <4>1, <5>4
    <3>. QED
      BY <1>7, <2>3, <2>4, <3>4, <3>5
  <2>. QED
    BY <1>1, <1>7, <2>5, <2>6
<1>. QED
  BY <1>6, <1>7

\* An absent item is laid out as every field asks.
LEMMA AbsentOrdered ==
    ASSUME NEW kind, NEW f
    PROVE  Ordered(kind, f, AbsentItem)
<1>1. AbsentItem.data = <<>> /\ Len(AbsentItem.shape) = 0
  BY AbsentIsEmpty DEF NoShape
<1>2. DOMAIN AbsentItem.data = {}
  BY <1>1
<1>. QED
  BY <1>1, <1>2 DEF Ordered

\* A round an honest prover sends is of its type, its parts are what their fields
\* ask for, and their lengths are those of the configuration.
LEMMA HonestRound ==
    ASSUME NEW c \in Chains, NEW r \in 1..Len(c), NEW round, round = HonestProof(c)[r]
    PROVE  /\ RoundOrdered(round)
           /\ \A f \in Fields : WellHeld(round.kind, f, round.items[f])
           /\ round.kind = c[r].kind
           /\ \A f \in Fields : Made(f, round.items[f], SentShape(c, r, f))
<1>1. r \in DOMAIN c
  BY ChainType, LenProperties
<1>2. round.kind = c[r].kind /\ \A f \in Fields : round.items[f] = WireItem(f, Sent(c, r)[f])
  BY <1>1 DEF HonestProof
<1>3. \A f \in Fields : Made(f, round.items[f], SentShape(c, r, f))
  <2>. TAKE f \in Fields
  <2>1. Sent(c, r)[f] \in SoundItems
    BY SentType
  <2>. QED
    BY <1>2, <2>1, WireMade DEF SentShape
<1>4. \A f \in Fields :
        /\ Shaped(round.kind, f, SentShape(c, r, f))
        /\ f \in SingleRings /\ SentShape(c, r, f) # NoShape => SentShape(c, r, f) = <<1>>
        /\ f \notin FieldSet(round.kind) => SentShape(c, r, f) = NoShape
        /\ (f \in FieldSet(round.kind) /\ ~Optional(round.kind, f)
              /\ ~(round.kind = "Sumcheck" /\ f \in Both)) => SentShape(c, r, f) # NoShape
        /\ round.kind = "Sumcheck" => (SentShape(c, r, "constantTerm") = NoShape <=> SentShape(c, r, "batched") = NoShape)
  BY <1>2, HonestShaped
<1>5. round.kind \in ProofKinds
  BY <1>2, ConfigType DEF ProofKinds
<1>6. \A f \in Fields : Ordered(round.kind, f, round.items[f]) /\ WellHeld(round.kind, f, round.items[f])
  BY <1>3, <1>4, MadeOrdered
<1>7. \A f \in Fields : round.items[f].shape = SentShape(c, r, f)
  BY <1>3 DEF Made
<1>8. \A f \in Fields : f \notin FieldSet(round.kind) => round.items[f] = AbsentItem
  <2>. TAKE f \in Fields
  <2>. HAVE f \notin FieldSet(round.kind)
  <2>1. Made(f, round.items[f], NoShape)
    BY <1>3, <1>4
  <2>. QED
    BY <2>1, MadeAbsent
<1>9. "constantTerm" \in Fields /\ "batched" \in Fields
  BY DEF Fields
<1>10. RoundOrdered(round)
  BY <1>4, <1>5, <1>6, <1>7, <1>8, <1>9 DEF RoundOrdered
<1>. QED
  BY <1>2, <1>3, <1>6, <1>10

\* The entries of a shape that is sent under a condition.
LEMMA EntriesWhen ==
    /\ \A n : Entries(<<n>>) = n
    /\ Entries(NoShape) = 0
    /\ \A h, w : Entries(<<h, w>>) = h * w
    /\ \A h, w, u : Entries(<<h, w, u>>) = h * w
    /\ \A b \in BOOLEAN : \A n : Entries(OptionalShape(b, <<n>>)) = IF b THEN n ELSE 0
<1>1. \A n : Entries(<<n>>) = n
  BY EntriesOf
<1>2. Entries(NoShape) = 0
  BY EntriesOf
<1>3. \A h, w : Entries(<<h, w>>) = h * w
  BY EntriesOfMatrix
<1>4. \A h, w, u : Entries(<<h, w, u>>) = h * w
  BY EntriesOfMatrix
<1>5. \A b \in BOOLEAN : \A n : Entries(OptionalShape(b, <<n>>)) = IF b THEN n ELSE 0
  BY EntriesOfOptional
<1>. QED
  BY <1>1, <1>2, <1>3, <1>4, <1>5

\* The lengths an honest prover sends are those its configuration declares.
LEMMA HonestFits ==
    ASSUME NEW c \in Chains, NEW r \in 1..Len(c)
    PROVE  Fits(c, r, HonestProof(c)[r]) /\ Measured(HonestProof(c)[r])
<1>. DEFINE round == HonestProof(c)[r]
            length(f) == Len(round.items[f].data)
<1>1. \A f \in Fields : length(f) = Entries(SentShape(c, r, f)) /\ length(f) \in Nat
  BY HonestRound DEF Made
<1>2. length("next") = IF r = Len(c) THEN 0
                       ELSE IF c[r + 1].kind = "Sumcheck" THEN c[r + 1].rank["commitment"]
                       ELSE NextPowerOfTwo(c[r + 1].rank["commitment"]) * Width(c[r + 1])
  <2>1. length("next") = Entries(SentCommitment(c, r).shape)
    <3>1. SentShape(c, r, "next") = SentCommitment(c, r).shape
      BY SumcheckShapes, BasicShapes
    <3>2. "next" \in Fields
      BY DEF Fields
    <3>. HIDE DEF length
    <3>. QED
      BY <1>1, <3>1, <3>2
  <2>2. r < Len(c) <=> r # Len(c)
    BY ChainType
  <2>. HIDE DEF length
  <2>3. CASE r = Len(c)
    BY <2>1, <2>2, <2>3, NextShape, EntriesWhen DEF HasNext, Last
  <2>4. CASE r # Len(c) /\ c[r + 1].kind = "Sumcheck"
    BY <2>1, <2>2, <2>4, NextShape, EntriesWhen DEF HasNext, Last
  <2>5. CASE r # Len(c) /\ c[r + 1].kind # "Sumcheck"
    <3>1. SentCommitment(c, r).shape = <<NextPowerOfTwo(c[r + 1].rank["commitment"]), Width(c[r + 1])>>
      BY <2>2, <2>5, NextShape DEF HasNext, Last
    <3>. QED
      BY <2>1, <2>5, <3>1, EntriesWhen
  <2>. QED
    BY <2>3, <2>4, <2>5
<1>3. Measured(round)
  BY <1>1 DEF Measured
<1>4. /\ "polys" \in Fields /\ "z0" \in Fields /\ "z1" \in Fields /\ "norm" \in Fields
      /\ "mostInnerNorm" \in Fields /\ "projectionNorm" \in Fields /\ "opening" \in Fields /\ "coarse" \in Fields
      /\ "constantTermClaims" \in Fields /\ "next" \in Fields /\ "constantTerm" \in Fields /\ "batched" \in Fields
      /\ "image" \in Fields /\ "folded" \in Fields
  BY DEF Fields
<1>. HIDE DEF length
<1>10. \A f \in Fields : \A n : SentShape(c, r, f) = <<n>> => length(f) = n
  BY <1>1, EntriesWhen
<1>11. \A f \in Fields : SentShape(c, r, f) = NoShape => length(f) = 0
  BY <1>1, EntriesWhen
<1>12. \A f \in Fields : \A b \in BOOLEAN : \A n :
         SentShape(c, r, f) = OptionalShape(b, <<n>>) => length(f) = IF b THEN n ELSE 0
  BY <1>1, EntriesWhen
<1>5. ASSUME c[r].kind = "Sumcheck"
      PROVE  /\ length("polys") = c[r].vars
             /\ length("z0") = 1 /\ length("z1") = 1 /\ length("norm") = 1
             /\ length("mostInnerNorm") = 1
             /\ length("projectionNorm") = IF HasProjectionNorm(c[r]) THEN 1 ELSE 0
             /\ length("opening") = c[r].rank["opening"]
             /\ length("coarse") = IF c[r].projection = "Coarse" THEN c[r].rank["coarse"] ELSE 0
             /\ length("constantTerm") = IF c[r].projection = "Fine" THEN c[r].rank["constantTerm"] ELSE 0
             /\ length("batched") = IF c[r].projection = "Fine" THEN c[r].rank["batched"] ELSE 0
             /\ length("constantTermClaims") = IF c[r].projection = "Fine" THEN NofBatches ELSE 0
             /\ length("image") = 0 /\ length("folded") = 0
  <2>1. /\ \A f \in {"z0", "z1", "norm", "mostInnerNorm"} : SentShape(c, r, f) = <<1>>
        /\ SentShape(c, r, "polys") = <<c[r].vars>>
        /\ SentShape(c, r, "projectionNorm") = OptionalShape(HasProjectionNorm(c[r]), <<1>>)
        /\ SentShape(c, r, "opening") = <<c[r].rank["opening"]>>
        /\ SentShape(c, r, "coarse") = OptionalShape(c[r].projection = "Coarse", <<c[r].rank["coarse"]>>)
        /\ \A f \in Both : SentShape(c, r, f) = OptionalShape(c[r].projection = "Fine", <<c[r].rank[f]>>)
        /\ SentShape(c, r, "constantTermClaims") = OptionalShape(c[r].projection = "Fine", <<NofBatches>>)
        /\ SentShape(c, r, "image") = NoShape /\ SentShape(c, r, "folded") = NoShape
    BY <1>5, SumcheckShapes
  <2>2. /\ HasProjectionNorm(c[r]) \in BOOLEAN
        /\ (c[r].projection = "Coarse") \in BOOLEAN /\ (c[r].projection = "Fine") \in BOOLEAN
    BY DEF HasProjectionNorm
  <2>3. length("polys") = c[r].vars /\ length("opening") = c[r].rank["opening"]
    BY <1>4, <1>10, <1>11, <2>1
  <2>4. \A f \in {"z0", "z1", "norm", "mostInnerNorm"} : length(f) = 1
    BY <1>4, <1>10, <1>11, <2>1
  <2>5. length("image") = 0 /\ length("folded") = 0
    BY <1>4, <1>10, <1>11, <2>1
  <2>6. length("projectionNorm") = IF HasProjectionNorm(c[r]) THEN 1 ELSE 0
    BY <1>4, <1>12, <2>1, <2>2
  <2>7. length("coarse") = IF c[r].projection = "Coarse" THEN c[r].rank["coarse"] ELSE 0
    BY <1>4, <1>12, <2>1, <2>2, ZenonT(60)
  <2>8. length("constantTermClaims") = IF c[r].projection = "Fine" THEN NofBatches ELSE 0
    BY <1>4, <1>12, <2>1, <2>2
  <2>9. \A f \in Both : length(f) = IF c[r].projection = "Fine" THEN c[r].rank[f] ELSE 0
    <3>1. \A f \in Both : f \in Fields
      BY <1>4 DEF Both
    <3>. QED
      BY <1>12, <2>1, <2>2, <3>1
  <2>10. /\ length("constantTerm") = IF c[r].projection = "Fine" THEN c[r].rank["constantTerm"] ELSE 0
         /\ length("batched") = IF c[r].projection = "Fine" THEN c[r].rank["batched"] ELSE 0
    BY <2>9 DEF Both
  <2>. QED
    BY <2>3, <2>4, <2>5, <2>6, <2>7, <2>8, <2>10
<1>6. ASSUME c[r].kind # "Sumcheck"
      PROVE  /\ length("opening") = 2 * Width(c[r])
             /\ length("image") = c[r].image * Width(c[r])
             /\ length("batched") = NofBatches * Width(c[r])
             /\ length("mostInnerNorm") = 0 /\ length("projectionNorm") = 0
             /\ length("coarse") = 0 /\ length("constantTerm") = 0
             /\ length("constantTermClaims") = 0
             /\ length("folded") = IF c[r].kind # "Intermediate" THEN Height(c[r]) ELSE 0
             /\ \A f \in {"z0", "z1", "norm"} : length(f) = IF c[r].kind = "Intermediate" THEN 1 ELSE 0
             /\ length("polys") = IF c[r].kind = "Intermediate" THEN c[r].vars ELSE 0
  <2>1. /\ SentShape(c, r, "opening") = <<c[r].openings, Width(c[r])>>
        /\ SentShape(c, r, "image") = <<c[r].image, Width(c[r]), Width(c[r])>>
        /\ SentShape(c, r, "batched") = <<NofBatches, Width(c[r])>>
        /\ SentShape(c, r, "folded") = OptionalShape(c[r].kind # "Intermediate", <<Height(c[r]), 1, 1>>)
        /\ \A f \in {"z0", "z1", "norm"} : SentShape(c, r, f) = OptionalShape(c[r].kind = "Intermediate", <<1>>)
        /\ SentShape(c, r, "polys") = OptionalShape(c[r].kind = "Intermediate", <<c[r].vars>>)
        /\ \A f \in {"mostInnerNorm", "projectionNorm", "coarse", "constantTerm",
                     "constantTermClaims"} : SentShape(c, r, f) = NoShape
    BY <1>6, BasicShapes
  <2>2. c[r].openings = 2
    <3>1. r # 1 /\ r - 1 \in 1..Len(c) /\ r - 1 < Len(c) /\ (r - 1) + 1 = r
      BY <1>6, ChainType
    <3>2. Follows(c[r - 1], c[r])
      BY <3>1, ChainsAssumption DEF WellFormed, HasNext, Last
    <3>. QED
      BY <3>2 DEF Follows
  <2>3. (c[r].kind = "Intermediate") \in BOOLEAN /\ Height(c[r]) * 1 = Height(c[r])
    BY ConfigType
  <2>4. /\ length("opening") = 2 * Width(c[r])
        /\ length("image") = c[r].image * Width(c[r])
        /\ length("batched") = NofBatches * Width(c[r])
    <3>1. /\ Entries(<<c[r].openings, Width(c[r])>>) = 2 * Width(c[r])
          /\ Entries(<<NofBatches, Width(c[r])>>) = NofBatches * Width(c[r])
          /\ Entries(<<c[r].image, Width(c[r]), Width(c[r])>>) = c[r].image * Width(c[r])
      BY <2>2, EntriesWhen
    <3>. QED
      BY <1>1, <1>4, <2>1, <3>1
  <2>5. \A f \in {"mostInnerNorm", "projectionNorm", "coarse", "constantTerm",
                  "constantTermClaims"} : length(f) = 0
    BY <1>4, <1>10, <1>11, <2>1
  <2>6. length("folded") = IF c[r].kind # "Intermediate" THEN Height(c[r]) ELSE 0
    <3>1. CASE c[r].kind # "Intermediate"
      <4>1. SentShape(c, r, "folded") = <<Height(c[r]), 1, 1>>
        BY <2>1, <3>1 DEF OptionalShape
      <4>2. Entries(<<Height(c[r]), 1, 1>>) = Height(c[r])
        BY <2>3, EntriesWhen
      <4>. QED
        BY <1>1, <1>4, <3>1, <4>1, <4>2
    <3>2. CASE c[r].kind = "Intermediate"
      <4>1. SentShape(c, r, "folded") = NoShape
        BY <2>1, <3>2 DEF OptionalShape
      <4>. QED
        BY <1>1, <1>4, <3>2, <4>1, EntriesWhen
    <3>. QED
      BY <3>1, <3>2
  <2>7. length("polys") = IF c[r].kind = "Intermediate" THEN c[r].vars ELSE 0
    <3>1. SentShape(c, r, "polys") = IF c[r].kind = "Intermediate" THEN <<c[r].vars>> ELSE NoShape
      BY <2>1 DEF OptionalShape
    <3>. QED
      BY <1>4, <1>10, <1>11, <3>1
  <2>8. \A f \in {"z0", "z1", "norm"} : length(f) = IF c[r].kind = "Intermediate" THEN 1 ELSE 0
    <3>1. \A f \in {"z0", "z1", "norm"} : SentShape(c, r, f) = IF c[r].kind = "Intermediate" THEN <<1>> ELSE NoShape
      BY <2>1 DEF OptionalShape
    <3>. QED
      BY <1>4, <1>10, <1>11, <3>1
  <2>. QED
    BY <2>4, <2>5, <2>6, <2>7, <2>8
<1>. HIDE DEF round
<1>7. c[r].kind = "Intermediate" =>
        /\ length("polys") = c[r].vars
        /\ length("z0") = 1 /\ length("z1") = 1 /\ length("norm") = 1
        /\ length("folded") = 0
  BY <1>6
<1>8. c[r].kind = "Simple" =>
        /\ length("polys") = 0 /\ length("z0") = 0 /\ length("z1") = 0 /\ length("norm") = 0
        /\ length("folded") = Height(c[r])
  BY <1>6
<1>9. Fits(c, r, round)
  BY <1>2, <1>5, <1>6, <1>7, <1>8 DEF Fits, length
<1>. QED
  BY <1>3, <1>9 DEF round

\* The proof an honest prover holds: as many rounds as the chain, and all it asks.
LEMMA HonestRounds ==
    ASSUME NEW c \in Chains
    PROVE  /\ HonestProof(c) \in Seq(DecodedRounds) /\ Len(HonestProof(c)) = Len(c)
           /\ DOMAIN HonestProof(c) = 1..Len(c)
           /\ \A r \in 1..Len(c) : RoundOrdered(HonestProof(c)[r])
           /\ \A r \in 1..Len(c) : \A f \in Fields :
                WellHeld(HonestProof(c)[r].kind, f, HonestProof(c)[r].items[f])
           /\ Declared(HonestProof(c)) = AllowanceOf(c).cells
<1>1. Len(c) \in Nat \ {0} /\ DOMAIN c = 1..Len(c)
  BY ChainType, LenProperties
<1>. DEFINE R(r) == [kind |-> c[r].kind, items |-> [f \in Fields |-> WireItem(f, Sent(c, r)[f])]]
<1>2. HonestProof(c) = [r \in 1..Len(c) |-> R(r)]
  BY <1>1 DEF HonestProof
<1>3. \A r \in 1..Len(c) : R(r) \in DecodedRounds
  <2>. TAKE r \in 1..Len(c)
  <2>1. c[r].kind \in ProofKinds
    BY ConfigType DEF ProofKinds
  <2>2. \A f \in Fields : WireItem(f, Sent(c, r)[f]) \in WireItems(f)
    <3>. TAKE f \in Fields
    <3>1. Sent(c, r)[f] \in Items
      BY SentType DEF SoundItems
    <3>. QED
      BY <3>1, WireItemType DEF SenderItems
  <2>. DEFINE items == [f \in Fields |-> WireItem(f, Sent(c, r)[f])]
  <2>3. \A f \in Fields : items[f] \in WireItems(f)
    BY <2>2
  <2>4. items \in [Fields -> [shape : Seq(Int), data : Seq(Polynomials) \cup Seq(Elements)]]
    <3>1. \A f \in Fields : WireItem(f, Sent(c, r)[f]) \in [shape : Seq(Int), data : Seq(Polynomials) \cup Seq(Elements)]
      BY <2>2 DEF WireItems
    <3>. QED
      BY <3>1
  <2>. HIDE DEF items
  <2>5. /\ [kind |-> c[r].kind, items |-> items] \in
             [kind : ProofKinds,
              items : [Fields -> [shape : Seq(Int), data : Seq(Polynomials) \cup Seq(Elements)]]]
        /\ [kind |-> c[r].kind, items |-> items].kind \in ProofKinds
        /\ [kind |-> c[r].kind, items |-> items].items = items
    BY <2>1, <2>4
  <2>6. [kind |-> c[r].kind, items |-> items] \in DecodedRounds
    BY <2>3, <2>5 DEF DecodedRounds, DecodedRound
  <2>. QED
    BY <2>6 DEF items
<1>. HIDE DEF R
<1>4. /\ HonestProof(c) \in Seq(DecodedRounds) /\ Len(HonestProof(c)) = Len(c)
      /\ DOMAIN HonestProof(c) = 1..Len(c)
  BY <1>1, <1>2, <1>3
<1>5. \A r \in 1..Len(c) : Fits(c, r, HonestProof(c)[r])
  BY HonestFits
<1>6. Declared(HonestProof(c)) = AllowanceOf(c).cells
  BY <1>4, <1>5, FittingDeclares
<1>7. \A r \in 1..Len(c) :
        /\ RoundOrdered(HonestProof(c)[r])
        /\ \A f \in Fields : WellHeld(HonestProof(c)[r].kind, f, HonestProof(c)[r].items[f])
  BY HonestRound
<1>. QED
  BY <1>4, <1>6, <1>7

\* The proof of the claims.
LEMMA ClaimsOrdered ==
    ASSUME NEW b \in BOOLEAN
    PROVE  Len(ClaimsProof(b)) = 1 /\ RoundOrdered(ClaimsProof(b)[1])
<1>. DEFINE sent(f, n) == WireItem(f, HonestItem(1, f, <<n>>, {}))
            items == [NoItems EXCEPT !["polys"] = sent("polys", ClaimsVariables),
                                     !["z0"] = sent("z0", 1),
                                     !["z1"] = IF b THEN sent("z1", 1) ELSE @]
            round == [kind |-> "Claims", items |-> items]
<1>1. ClaimsProof(b) = <<round>>
  BY DEF ClaimsProof
<1>2. ClaimsVariables \in Nat /\ 1 \in Nat
  BY WireFormatAssumption
<1>3. \A f \in Fields : \A n \in Nat : Made(f, sent(f, n), <<n>>)
  <2>. TAKE f \in Fields
  <2>. TAKE n \in Nat
  <2>1. HonestItem(1, f, <<n>>, {}) \in SoundItems
    BY VectorType
  <2>2. HonestItem(1, f, <<n>>, {}).shape = <<n>>
    BY DEF HonestItem
  <2>. QED
    BY <2>1, <2>2, WireMade
<1>4. \A f \in Fields : NoItems[f] = AbsentItem
  BY NothingInIt
<1>5. NoItems \in [Fields -> {AbsentItem}]
  BY DEF NoItems
<1>6. "polys" \in Fields /\ "z0" \in Fields /\ "z1" \in Fields
  BY DEF Fields
<1>. HIDE DEF sent
<1>7. /\ items["polys"] = sent("polys", ClaimsVariables) /\ items["z0"] = sent("z0", 1)
      /\ items["z1"] = IF b THEN sent("z1", 1) ELSE AbsentItem
      /\ \A f \in Fields : f \notin {"polys", "z0", "z1"} => items[f] = AbsentItem
  BY <1>4, <1>5, <1>6
<1>. HIDE DEF items
<1>8. /\ Made("polys", items["polys"], <<ClaimsVariables>>)
      /\ Made("z0", items["z0"], <<1>>)
      /\ b => Made("z1", items["z1"], <<1>>)
  BY <1>2, <1>3, <1>6, <1>7
<1>9. Matrices("Claims") = {"folded", "image", "opening", "batched"}
  BY DEF Matrices, Verticals, Horizontals
<1>10. \A f \in {"polys", "z0", "z1"} : \A n : Shaped("Claims", f, <<n>>)
  BY <1>9, ShapesOf DEF Shaped
<1>11. /\ Ordered("Claims", "polys", items["polys"]) /\ Ordered("Claims", "z0", items["z0"])
       /\ b => Ordered("Claims", "z1", items["z1"])
  <2>1. "polys" \notin SingleRings
    BY DEF SingleRings
  <2>. QED
    BY <1>8, <1>10, <2>1, MadeOrdered
<1>12. \A f \in Fields : Ordered("Claims", f, items[f])
  <2>1. Ordered("Claims", "z1", items["z1"])
    BY <1>7, <1>11, AbsentOrdered
  <2>. QED
    BY <1>7, <1>11, <2>1, AbsentOrdered
<1>13. \A f \in Fields : f \notin FieldSet("Claims") => items[f] = AbsentItem
  BY <1>7, FieldSetIs
<1>14. \A f \in Fields : f \in FieldSet("Claims") /\ ~Optional("Claims", f) => items[f].shape # NoShape
  <2>1. \A f \in Fields : f \in FieldSet("Claims") /\ ~Optional("Claims", f) => f \in {"polys", "z0"}
    BY FieldSetIs DEF Optional
  <2>2. items["polys"].shape # NoShape /\ items["z0"].shape # NoShape
    BY <1>8 DEF Made, NoShape
  <2>. QED
    BY <2>1, <2>2
<1>15. round.kind = "Claims" /\ round.items = items
  OBVIOUS
<1>. HIDE DEF round
<1>16. RoundOrdered(round)
  BY <1>12, <1>13, <1>14, <1>15 DEF RoundOrdered, ProofKinds
<1>. QED
  BY <1>1, <1>16

\* An alteration of a proof alters one item, or repeats a round.
LEMMA AlteredOrdered ==
    ASSUME NEW proof, SenderProof(proof), NEW S, proof \in Seq(S),
           \A r \in 1..Len(proof) : RoundOrdered(proof[r]),
           NEW got \in AlteredProofs(proof)
    PROVE  \A r \in 1..Len(got) : RoundOrdered(got[r])
<1>1. /\ Len(proof) \in Nat \ {0} /\ DOMAIN proof = 1..Len(proof)
      /\ \A r \in 1..Len(proof) :
           /\ DOMAIN proof[r] = {"kind", "items"}
           /\ DOMAIN proof[r].items = Fields
           /\ \A f \in Fields : proof[r].items[f] \in SenderItems(f)
  BY DEF SenderProof
<1>2. ASSUME NEW r \in 1..Len(proof), got = Append(proof, proof[r])
      PROVE  \A i \in 1..Len(got) : RoundOrdered(got[i])
  <2>1. proof[r] \in S
    BY ElementOfSeq
  <2>2. /\ Len(got) = Len(proof) + 1
        /\ \A i \in 1..Len(proof) : got[i] = proof[i]
        /\ got[Len(proof) + 1] = proof[r]
    BY <1>2, <2>1, AppendProperties
  <2>3. \A i \in 1..(Len(proof) + 1) : i \in 1..Len(proof) \/ i = Len(proof) + 1
    BY <1>1
  <2>. QED
    BY <2>2, <2>3
<1>3. ASSUME NEW r \in 1..Len(proof), NEW f \in Fields, proof[r].items[f].shape # NoShape,
             NEW x \in AlteredItems(proof[r].kind, f, proof[r].items[f]),
             got = [proof EXCEPT ![r].items[f] = x]
      PROVE  \A i \in 1..Len(got) : RoundOrdered(got[i])
  <2>1. Sendable(proof[r].kind, f, proof[r].items[f])
    BY <1>1, <1>3 DEF Sendable
  <2>2. RoundOrdered(proof[r])
    OBVIOUS
  <2>3. Ordered(proof[r].kind, f, x) /\ (x.shape # NoShape \/ Optional(proof[r].kind, f))
    <3>1. Ordered(proof[r].kind, f, proof[r].items[f])
      BY <2>2 DEF RoundOrdered
    <3>. QED
      BY <1>3, <2>1, <3>1, OrderedAltered
  <2>. DEFINE items == [proof[r].items EXCEPT ![f] = x]
              round == [proof[r] EXCEPT !.items = items]
  <2>4. got = [proof EXCEPT ![r] = round]
    BY <1>3
  <2>5. \A g \in Fields : items[g] = IF g = f THEN x ELSE proof[r].items[g]
    BY <1>1
  <2>. HIDE DEF items
  <2>6. round.items = items /\ round.kind = proof[r].kind
    BY <1>1
  <2>. HIDE DEF round
  <2>7. Len(got) = Len(proof) /\ \A i \in 1..Len(proof) : got[i] = IF i = r THEN round ELSE proof[i]
    <3>1. proof \in Seq(S \cup {round})
      BY SeqMonotonic
    <3>. QED
      BY <1>1, <2>4, <3>1, ExceptSeq
  <2>8. RoundOrdered(round)
    <3>. DEFINE k == proof[r].kind
    <3>1. f \in FieldSet(k)
      <4>1. proof[r].items[f] # AbsentItem
        BY <1>3, AbsentIsEmpty
      <4>. QED
        BY <2>2, <4>1 DEF RoundOrdered
    <3>2. \A g \in Fields : Ordered(k, g, items[g])
      <4>1. \A g \in Fields : Ordered(k, g, proof[r].items[g])
        BY <2>2 DEF RoundOrdered
      <4>. QED
        BY <2>3, <2>5, <4>1
    <3>3. \A g \in Fields : g \notin FieldSet(k) => items[g] = AbsentItem
      <4>1. \A g \in Fields : g \notin FieldSet(k) => proof[r].items[g] = AbsentItem
        BY <2>2 DEF RoundOrdered
      <4>. QED
        BY <2>5, <3>1, <4>1
    <3>4. \A g \in Fields : (g \in FieldSet(k) /\ ~Optional(k, g)
              /\ ~(k = "Sumcheck" /\ g \in Both)) => items[g].shape # NoShape
      <4>1. \A g \in Fields : (g \in FieldSet(k) /\ ~Optional(k, g)
              /\ ~(k = "Sumcheck" /\ g \in Both)) => proof[r].items[g].shape # NoShape
        BY <2>2 DEF RoundOrdered
      <4>. QED
        BY <2>3, <2>5, <4>1
    <3>5. k = "Sumcheck" => (items["constantTerm"].shape = NoShape <=> items["batched"].shape = NoShape)
      <4>1. k = "Sumcheck" => (proof[r].items["constantTerm"].shape = NoShape
                                 <=> proof[r].items["batched"].shape = NoShape)
        BY <2>2 DEF RoundOrdered
      <4>2. \A g \in Both : k = "Sumcheck" => ~Optional(k, g)
        BY DEF Both, Optional
      <4>3. "constantTerm" \in Fields /\ "batched" \in Fields /\ "constantTerm" \in Both /\ "batched" \in Both
        BY DEF Fields, Both
      <4>4. k = "Sumcheck" => /\ items["constantTerm"].shape = NoShape <=> proof[r].items["constantTerm"].shape = NoShape
                              /\ items["batched"].shape = NoShape <=> proof[r].items["batched"].shape = NoShape
        BY <1>3, <2>3, <2>5, <4>2, <4>3
      <4>. QED
        BY <4>1, <4>4
    <3>6. k \in ProofKinds
      BY <2>2 DEF RoundOrdered
    <3>. QED
      BY <2>6, <3>2, <3>3, <3>4, <3>5, <3>6 DEF RoundOrdered
  <2>. QED
    BY <2>7, <2>8
<1>4. CASE got = proof
  BY <1>4
<1>5. CASE got \in {Append(proof, proof[r]) : r \in DOMAIN proof}
  BY <1>1, <1>2, <1>5
<1>. DEFINE Altered(r, f) == {[proof EXCEPT ![r].items[f] = x] :
                                x \in AlteredItems(proof[r].kind, f, proof[r].items[f])}
            There(r) == {g \in Fields : proof[r].items[g].shape # NoShape}
            Goal == \A r \in 1..Len(got) : RoundOrdered(got[r])
<1>6. \A r \in DOMAIN proof : \A f \in There(r) : got \in Altered(r, f) => Goal
  <2>. TAKE r \in DOMAIN proof
  <2>. TAKE f \in There(r)
  <2>. HAVE got \in Altered(r, f)
  <2>1. PICK x \in AlteredItems(proof[r].kind, f, proof[r].items[f]) :
          got = [proof EXCEPT ![r].items[f] = x]
    OBVIOUS
  <2>2. r \in 1..Len(proof) /\ f \in Fields /\ proof[r].items[f].shape # NoShape
    BY <1>1
  <2>. QED
    BY <1>3, <2>1, <2>2
<1>7. AlteredProofs(proof) =
        {proof} \cup {Append(proof, proof[r]) : r \in DOMAIN proof}
        \cup UNION {UNION {Altered(r, f) : f \in There(r)} : r \in DOMAIN proof}
  BY DEF AlteredProofs
<1>. HIDE DEF Altered, There
<1>8. \A x \in UNION {UNION {Altered(r, f) : f \in There(r)} : r \in DOMAIN proof} :
        \E r \in DOMAIN proof : \E f \in There(r) : x \in Altered(r, f)
  OBVIOUS
<1>. QED
  BY <1>4, <1>5, <1>6, <1>7, <1>8

\* Whatever proof the sender holds is one the encoder can be given.
LEMMA SourcesOrdered ==
    ASSUME NEW c \in Chains, NEW proof \in Sources(c)
    PROVE  ProofOrdered(proof)
<1>1. PICK h \in HonestProofs(c) : proof \in AlteredProofs(h)
  BY DEF Sources
<1>2. SenderProof(h)
  BY HonestProofsType
<1>3. \E S : h \in Seq(S)
  <2>1. CASE h = HonestProof(c)
    BY <2>1, HonestRounds
  <2>2. ASSUME NEW b \in BOOLEAN, h = ClaimsProof(b)
        PROVE  \E S : h \in Seq(S)
    <3>1. \E x : h = <<x>>
      BY <2>2 DEF ClaimsProof
    <3>2. \A x : <<x>> \in Seq({x})
      OBVIOUS
    <3>. QED
      BY <3>1, <3>2
  <2>. QED
    BY <2>1, <2>2 DEF HonestProofs
<1>4. \A r \in 1..Len(h) : RoundOrdered(h[r])
  <2>1. CASE h = HonestProof(c)
    BY <2>1, HonestRounds
  <2>2. ASSUME NEW b \in BOOLEAN, h = ClaimsProof(b)
        PROVE  \A r \in 1..Len(h) : RoundOrdered(h[r])
    <3>1. Len(h) = 1 /\ RoundOrdered(h[1])
      BY <2>2, ClaimsOrdered
    <3>. QED
      BY <3>1
  <2>. QED
    BY <2>1, <2>2 DEF HonestProofs
<1>5. \A r \in 1..Len(proof) : RoundOrdered(proof[r])
  BY <1>1, <1>2, <1>3, <1>4, AlteredOrdered
<1>6. Encodable(proof)
  BY DEF Sources
<1>. QED
  BY <1>5, <1>6 DEF ProofOrdered

\* What the encoder writes for an item decodes to it.
LEMMA AsDecodedIs ==
    ASSUME NEW f, NEW item \in WireItems(f)
    PROVE  /\ AsDecoded(f, item).shape = item.shape
           /\ Len(AsDecoded(f, item).data) = Len(item.data)
           /\ f = "polys" => AsDecoded(f, item) =
                [shape |-> item.shape,
                 data |-> [i \in DOMAIN item.data |->
                             Polynomial(item.data[i].of, item.data[i].degree, item.data[i].degree)]]
<1>1. CASE f # "polys"
  BY <1>1 DEF AsDecoded
<1>2. CASE f = "polys"
  <2>1. /\ item.data \in Seq(Polynomials) /\ item = [shape |-> item.shape, data |-> item.data]
        /\ Len(item.data) \in Nat /\ DOMAIN item.data = 1..Len(item.data)
        /\ \A i \in 1..Len(item.data) : item.data[i] \in Polynomials
    BY <1>2, LenProperties, ElementOfSeq DEF WireItems
  <2>. DEFINE held == [i \in DOMAIN item.data |-> [item.data[i] EXCEPT !.terms = item.data[i].degree]]
              made == [i \in DOMAIN item.data |->
                         Polynomial(item.data[i].of, item.data[i].degree, item.data[i].degree)]
  <2>2. AsDecoded(f, item) = [item EXCEPT !.data = held]
    BY <1>2 DEF AsDecoded
  <2>3. \A p \in Polynomials : [p EXCEPT !.terms = p.degree] = Polynomial(p.of, p.degree, p.degree)
    BY DEF Polynomials, Polynomial
  <2>4. held = made
    <3>1. \A i \in DOMAIN item.data : [item.data[i] EXCEPT !.terms = item.data[i].degree]
                 = Polynomial(item.data[i].of, item.data[i].degree, item.data[i].degree)
      BY <2>1, <2>3
    <3>. QED
      BY <3>1
  <2>5. Len(made) = Len(item.data)
    BY <2>1
  <2>. HIDE DEF held, made
  <2>6. [item EXCEPT !.data = made] = [shape |-> item.shape, data |-> made]
    BY <2>1
  <2>7. AsDecoded(f, item) = [shape |-> item.shape, data |-> made]
    BY <2>2, <2>4, <2>6
  <2>8. AsDecoded(f, item).shape = item.shape /\ Len(AsDecoded(f, item).data) = Len(item.data)
    BY <2>5, <2>7
  <2>. QED
    BY <2>7, <2>8 DEF made
<1>. QED
  BY <1>1, <1>2

\* The absent item is decoded as it is.
LEMMA AbsentDecoded ==
    ASSUME NEW f
    PROVE  AsDecoded(f, AbsentItem) = AbsentItem
<1>1. AbsentItem.data = <<>> /\ AbsentItem = [shape |-> AbsentItem.shape, data |-> AbsentItem.data]
  BY AbsentIsEmpty DEF AbsentItem, WireItem
<1>2. [i \in DOMAIN <<>> |-> [<<>>[i] EXCEPT !.terms = <<>>[i].degree]] = <<>>
  OBVIOUS
<1>3. [AbsentItem EXCEPT !.data = <<>>] = AbsentItem
  BY <1>1
<1>. QED
  BY <1>1, <1>2, <1>3 DEF AsDecoded

\* The dimensions, or the length, give back the shape of an item.
LEMMA ShapeComesBack ==
    ASSUME NEW kind, NEW f, NEW item \in WireItems(f), Ordered(kind, f, item)
    PROVE  DecodedShape(Written(f, item)) = item.shape
<1>. DEFINE w == Written(f, item)
            s == item.shape
<1>1. /\ s \in Seq(Int) /\ Len(s) \in Nat /\ (s = <<>> <=> Len(s) = 0) /\ DOMAIN s = 1..Len(s)
      /\ Len(item.data) \in Nat
  <2>1. s \in Seq(Int) /\ (item.data \in Seq(Polynomials) \/ item.data \in Seq(Elements))
    BY DEF WireItems
  <2>. QED
    BY <2>1, EmptySeq, LenProperties
<1>2. /\ w.present = (s # NoShape) /\ w.dims = Dimensions(s)
      /\ Len(w.slice.data) + Len(w.polys) = Len(item.data)
  <2>1. w.present = (s # NoShape) /\ w.dims = Dimensions(s)
    BY DEF Written
  <2>2. CASE f = "polys"
    <3>1. w.slice.data = <<>> /\ w.polys = [i \in DOMAIN item.data |-> WrittenPolynomial(item.data[i])]
      BY <2>2 DEF Written, WrittenSlice
    <3>2. Len(w.polys) = Len(item.data)
      <4>1. DOMAIN item.data = 1..Len(item.data)
        BY <2>2, LenProperties DEF WireItems
      <4>. QED
        BY <1>1, <3>1, <4>1
    <3>3. Len(w.slice.data) = 0
      BY <3>1
    <3>. HIDE DEF w
    <3>. QED
      BY <1>1, <2>1, <3>2, <3>3
  <2>3. CASE f # "polys"
    <3>1. w.slice.data = item.data /\ w.polys = <<>>
      BY <2>3 DEF Written, WrittenSlice
    <3>2. Len(w.polys) = 0
      BY <3>1
    <3>. HIDE DEF w
    <3>. QED
      BY <1>1, <2>1, <3>1, <3>2
  <2>. QED
    BY <2>2, <2>3
<1>. HIDE DEF w
<1>3. CASE Len(s) = 0
  <2>1. s = <<>> /\ w.dims = <<>>
    BY <1>1, <1>2, <1>3 DEF Dimensions
  <2>2. Len(w.dims) # 2 /\ Len(w.dims) # 3
    BY <2>1
  <2>3. w.present = FALSE
    BY <1>2, <2>1 DEF NoShape
  <2>4. DecodedShape(w) = NoShape
    BY <2>2, <2>3, Zenon DEF DecodedShape
  <2>. QED
    BY <2>1, <2>4 DEF w, NoShape
<1>4. CASE Len(s) = 1
  <2>0. w.dims = <<>> /\ s # <<>>
    <3>1. Len(s) # 2 /\ Len(s) # 3
      BY <1>4
    <3>. QED
      BY <1>1, <1>2, <1>4, <3>1 DEF Dimensions
  <2>1. Len(w.dims) # 2 /\ Len(w.dims) # 3 /\ w.present
    <3>1. Len(w.dims) # 2 /\ Len(w.dims) # 3
      BY <2>0
    <3>2. s # NoShape
      BY <2>0 DEF NoShape
    <3>3. w.present
      BY <1>2, <3>2, Zenon
    <3>. QED
      BY <3>1, <3>3
  <2>2. s[1] = Len(item.data)
    BY <1>4 DEF Ordered
  <2>3. s = <<s[1]>>
    BY <1>1, <1>4
  <2>4. DecodedShape(w) = <<Len(w.slice.data) + Len(w.polys)>>
    BY <2>1, Zenon DEF DecodedShape
  <2>. QED
    BY <1>2, <2>2, <2>3, <2>4 DEF w
<1>5. CASE Len(s) = 2
  <2>1. w.dims = <<s[2], s[1]>> /\ s = <<s[1], s[2]>>
    BY <1>1, <1>2, <1>5 DEF Dimensions
  <2>. QED
    BY <2>1 DEF DecodedShape, w
<1>6. CASE Len(s) = 3
  <2>1. w.dims = <<s[2], s[1], s[3]>> /\ s = <<s[1], s[2], s[3]>>
    BY <1>1, <1>2, <1>6 DEF Dimensions
  <2>. QED
    BY <2>1 DEF DecodedShape, w
<1>7. Len(s) \in {0, 1, 2, 3}
  <2>1. Len(s) > 1 => Len(s) < 4
    BY DEF Ordered
  <2>2. \A n \in Nat : (n > 1 => n < 4) => n \in {0, 1, 2, 3}
    OBVIOUS
  <2>. QED
    BY <1>1, <2>1, <2>2
<1>. QED
  BY <1>3, <1>4, <1>5, <1>6, <1>7 DEF w

\* So an item the encoder writes decodes to itself, polynomials at their degree.
LEMMA DecodesItself ==
    ASSUME NEW kind, NEW f, NEW item \in WireItems(f), Ordered(kind, f, item)
    PROVE  Decoded(f, Written(f, item)) = AsDecoded(f, item)
<1>1. DecodedShape(Written(f, item)) = item.shape
  BY ShapeComesBack
<1>2. CASE f # "polys"
  <2>1. item = [shape |-> item.shape, data |-> item.data]
    BY <1>2 DEF WireItems
  <2>2. Written(f, item).slice.data = item.data
    BY <1>2 DEF Written, WrittenSlice
  <2>. QED
    BY <1>1, <1>2, <2>1, <2>2 DEF Decoded, AsDecoded
<1>3. CASE f = "polys"
  <2>1. Written(f, item).polys = [i \in DOMAIN item.data |-> WrittenPolynomial(item.data[i])]
    BY <1>3 DEF Written
  <2>2. \A i \in DOMAIN item.data :
          Written(f, item).polys[i] = [of |-> item.data[i].of, count |-> item.data[i].degree, zeroTop |-> FALSE]
    BY <2>1 DEF WrittenPolynomial
  <2>3. DOMAIN Written(f, item).polys = DOMAIN item.data
    BY <2>1
  <2>. DEFINE w == Written(f, item)
  <2>4. Decoded(f, w) =
          [shape |-> DecodedShape(w),
           data |-> [i \in DOMAIN w.polys |->
                      Polynomial(w.polys[i].of, w.polys[i].count,
                                 IF w.polys[i].zeroTop THEN w.polys[i].count - 1
                                 ELSE w.polys[i].count)]]
    BY <1>3 DEF Decoded
  <2>5. [i \in DOMAIN w.polys |->
                      Polynomial(w.polys[i].of, w.polys[i].count,
                                 IF w.polys[i].zeroTop THEN w.polys[i].count - 1
                                 ELSE w.polys[i].count)]
        = [i \in DOMAIN item.data |->
                      Polynomial(item.data[i].of, item.data[i].degree, item.data[i].degree)]
    <3>. HIDE DEF w
    <3>1. \A i \in DOMAIN item.data :
             Polynomial(w.polys[i].of, w.polys[i].count,
                                 IF w.polys[i].zeroTop THEN w.polys[i].count - 1
                                 ELSE w.polys[i].count)
             = Polynomial(item.data[i].of, item.data[i].degree, item.data[i].degree)
      <4>. TAKE i \in DOMAIN item.data
      <4>1. w.polys[i] = [of |-> item.data[i].of, count |-> item.data[i].degree, zeroTop |-> FALSE]
        BY <2>2 DEF w
      <4>2. w.polys[i].of = item.data[i].of /\ w.polys[i].count = item.data[i].degree /\ ~w.polys[i].zeroTop
        BY <4>1
      <4>. QED
        BY <4>2
    <3>2. DOMAIN w.polys = DOMAIN item.data
      BY <2>3 DEF w
    <3>. QED
      BY <3>1, <3>2
  <2>6. AsDecoded(f, item) =
          [shape |-> item.shape,
           data |-> [i \in DOMAIN item.data |->
                      Polynomial(item.data[i].of, item.data[i].degree, item.data[i].degree)]]
    BY <1>3, AsDecodedIs
  <2>. QED
    BY <1>1, <2>4, <2>5, <2>6
<1>. QED
  BY <1>2, <1>3

\* What the decoder asks of a field of a round of the kind.
Admission(kind, f, w) ==
    /\ f = "polys" => \A i \in DOMAIN w.polys : PolynomialAdmitted(w.polys[i])
    /\ f # "polys" => SliceAdmitted(f, w.slice)
    /\ f \in SingleRings => (w.present => Len(w.slice.data) = 1)
    /\ f \in Matrices(kind) => MatrixAdmitted(w.dims, w.slice.data)
    /\ f = "next" => (w.dims # <<>> => MatrixAdmitted(w.dims, w.slice.data))

\* A slice the encoder writes is admitted where its elements are held as the role
\* of its field asks.
LEMMA SliceHeld ==
    ASSUME NEW f, NEW data \in Seq(Elements)
    PROVE  SliceAdmitted(f, WrittenSlice(f, data)) <=> \A i \in DOMAIN data : data[i].held = HeldAs(f)
<1>1. DOMAIN data = 1..Len(data) /\ Len(data) \in Nat
  BY LenProperties
<1>2. /\ WrittenSlice(f, data).uniform = Uniform(data)
      /\ WrittenSlice(f, data).flip = Flips(f, data)
      /\ WrittenSlice(f, data).data = data
  BY DEF WrittenSlice
<1>3. CASE data = <<>>
  <2>1. DOMAIN data = {}
    BY <1>3
  <2>. QED
    BY <1>2, <1>3, <2>1 DEF SliceAdmitted
<1>4. CASE data # <<>>
  <2>1. 1 \in DOMAIN data
    BY <1>1, <1>4, EmptySeq
  <2>2. SliceAdmitted(f, WrittenSlice(f, data)) <=> Uniform(data) /\ data[1].held = HeldAs(f)
    BY <1>2, <1>4 DEF SliceAdmitted
  <2>3. Uniform(data) /\ data[1].held = HeldAs(f) <=> \A i \in DOMAIN data : data[i].held = HeldAs(f)
    BY <2>1 DEF Uniform
  <2>. QED
    BY <2>2, <2>3
<1>. QED
  BY <1>3, <1>4

\* The dimensions of a matrix describe its data where its shape does.
LEMMA DimensionsHeld ==
    ASSUME NEW s \in Seq(Int), Len(s) \in {2, 3}, NEW data
    PROVE  /\ Dimensions(s) # <<>>
           /\ MatrixAdmitted(Dimensions(s), data) <=>
                Entries(s) = Len(data) /\ (Len(s) = 3 => s[3] <= s[2])
<1>1. s[1] \in Int /\ s[2] \in Int
  BY LenProperties
<1>2. Entries(s) = s[1] * s[2] /\ s[2] * s[1] = s[1] * s[2]
  <2>1. Len(s) # 0 /\ Len(s) # 1
    <3>1. \A n \in {2, 3} : n # 0 /\ n # 1
      OBVIOUS
    <3>. QED
      BY <3>1
  <2>2. Entries(s) = s[1] * s[2]
    BY <2>1, Zenon DEF Entries
  <2>. QED
    BY <1>1, <2>2
<1>3. CASE Len(s) = 2
  <2>1. Dimensions(s) = <<s[2], s[1]>>
    BY <1>3 DEF Dimensions
  <2>2. Len(Dimensions(s)) # 3 /\ Dimensions(s)[1] = s[2] /\ Dimensions(s)[2] = s[1] /\ Dimensions(s) # <<>>
    BY <2>1
  <2>. QED
    BY <1>2, <1>3, <2>2 DEF MatrixAdmitted
<1>4. CASE Len(s) = 3
  <2>1. Dimensions(s) = <<s[2], s[1], s[3]>>
    BY <1>4 DEF Dimensions
  <2>2. /\ Len(Dimensions(s)) = 3 /\ Dimensions(s)[1] = s[2] /\ Dimensions(s)[2] = s[1]
        /\ Dimensions(s)[3] = s[3] /\ Dimensions(s) # <<>>
    BY <2>1
  <2>. QED
    BY <1>2, <1>4, <2>2 DEF MatrixAdmitted
<1>. QED
  BY <1>3, <1>4

\* What the encoder writes for an item is admitted where the item is what its
\* field asks for.
LEMMA Admits ==
    ASSUME NEW kind, NEW f, NEW item \in WireItems(f), Ordered(kind, f, item),
           f \in Matrices(kind) => item.shape # NoShape
    PROVE  Admission(kind, f, Written(f, item)) <=> WellHeld(kind, f, item)
<1>. DEFINE w == Written(f, item)
            s == item.shape
            n == Len(item.data)
<1>1. /\ s \in Seq(Int) /\ Len(s) \in Nat /\ (s = NoShape <=> Len(s) = 0)
      /\ n \in Nat
  <2>1. s \in Seq(Int) /\ (item.data \in Seq(Polynomials) \/ item.data \in Seq(Elements))
    BY DEF WireItems
  <2>. QED
    BY <2>1, EmptySeq, LenProperties DEF NoShape
<1>2. Len(s) \in {0, 1, 2, 3}
  <2>1. Len(s) > 1 => Len(s) < 4
    BY DEF Ordered
  <2>2. \A k \in Nat : (k > 1 => k < 4) => k \in {0, 1, 2, 3}
    OBVIOUS
  <2>. QED
    BY <1>1, <2>1, <2>2
<1>3. /\ Len(s) = 0 => item = AbsentItem
      /\ Len(s) = 1 => s[1] = n /\ f \notin Matrices(kind)
      /\ Len(s) \in {2, 3} => f \in Matrices(kind) \cup {"next"}
  BY DEF Ordered
<1>4. Len(s) \in {0, 1} => Entries(s) = n
  <2>1. CASE Len(s) = 0
    <3>1. Entries(s) = 0
      BY <2>1 DEF Entries
    <3>2. n = 0
      BY <1>3, <2>1, AbsentIsEmpty
    <3>. QED
      BY <3>1, <3>2
  <2>2. CASE Len(s) = 1
    <3>1. Entries(s) = s[1]
      BY <2>2 DEF Entries
    <3>. QED
      BY <1>3, <2>2, <3>1
  <2>. QED
    BY <2>1, <2>2
<1>5. Len(s) \in {0, 1} => w.dims = <<>>
  <2>1. w.dims = Dimensions(s)
    BY DEF Written
  <2>2. Len(s) \in {0, 1} => Len(s) # 2 /\ Len(s) # 3
    OBVIOUS
  <2>. QED
    BY <2>1, <2>2, Zenon DEF Dimensions
<1>6. CASE f = "polys"
  <2>1. /\ f \notin SingleRings /\ f \notin Matrices(kind) /\ f # "next"
    BY <1>6 DEF SingleRings, Matrices, Verticals, Horizontals
  <2>2. Len(s) \in {0, 1}
    BY <1>2, <1>3, <2>1
  <2>3. WellHeld(kind, f, item)
    <3>1. Len(s) # 3
      BY <2>2
    <3>. QED
      BY <1>4, <1>6, <2>1, <2>2, <3>1 DEF WellHeld
  <2>4. \A i \in DOMAIN w.polys : PolynomialAdmitted(w.polys[i])
    <3>1. w.polys = [i \in DOMAIN item.data |-> WrittenPolynomial(item.data[i])]
      BY <1>6 DEF Written
    <3>. HIDE DEF w
    <3>2. \A i \in DOMAIN item.data : item.data[i].degree \in 0..4
      BY <1>6 DEF Ordered
    <3>3. \A i \in DOMAIN item.data : /\ w.polys[i].count = item.data[i].degree
                                      /\ w.polys[i].zeroTop = FALSE
      BY <3>1 DEF WrittenPolynomial
    <3>4. DOMAIN w.polys = DOMAIN item.data
      BY <3>1
    <3>. QED
      BY <3>2, <3>3, <3>4 DEF PolynomialAdmitted
  <2>5. Admission(kind, f, w)
    BY <1>6, <2>1, <2>4 DEF Admission
  <2>. QED
    BY <2>3, <2>5
<1>7. CASE f # "polys"
  <2>1. /\ w.present = (s # NoShape) /\ w.dims = Dimensions(s) /\ w.slice = WrittenSlice(f, item.data)
        /\ w.slice.data = item.data
    BY <1>7 DEF Written, WrittenSlice
  <2>2. item.data \in Seq(Elements)
    BY <1>7 DEF WireItems
  <2>3. SliceAdmitted(f, w.slice) <=> \A i \in DOMAIN item.data : item.data[i].held = HeldAs(f)
    BY <2>1, <2>2, SliceHeld
  <2>4. (w.present => Len(w.slice.data) = 1) <=> (s # NoShape => n = 1)
    BY <2>1
  <2>. HIDE DEF w
  <2>5. CASE Len(s) \in {0, 1}
    <3>1. f \notin Matrices(kind)
      BY <1>1, <1>3, <2>5
    <3>2. Len(s) # 3 /\ w.dims = <<>> /\ Entries(s) = n
      BY <1>4, <1>5, <2>5 DEF w
    <3>. QED
      BY <1>7, <2>3, <2>4, <3>1, <3>2 DEF Admission, WellHeld, w
  <2>6. CASE Len(s) \in {2, 3}
    <3>1. f \in Matrices(kind) \/ f = "next"
      BY <1>3, <2>6
    <3>2. f \notin SingleRings
      BY <3>1 DEF SingleRings, Matrices, Verticals, Horizontals
    <3>3. /\ w.dims # <<>>
          /\ MatrixAdmitted(w.dims, w.slice.data) <=> Entries(s) = n /\ (Len(s) = 3 => s[3] <= s[2])
      BY <1>1, <2>1, <2>6, DimensionsHeld
    <3>. QED
      BY <1>7, <2>3, <3>1, <3>2, <3>3 DEF Admission, WellHeld, w
  <2>. QED
    BY <1>2, <2>5, <2>6
<1>. QED
  BY <1>6, <1>7

\* What it costs to read an item as the encoder writes it.
LEMMA WrittenCosts ==
    ASSUME NEW f, NEW item \in WireItems(f)
    PROVE  Cost(Written(f, item)) = Costs(f, Len(item.data))
<1>1. CASE f = "polys"
  <2>1. Written(f, item).slice.data = <<>>
    BY <1>1 DEF Written, WrittenSlice
  <2>2. Written(f, item).polys = [i \in DOMAIN item.data |-> WrittenPolynomial(item.data[i])]
    BY <1>1 DEF Written
  <2>3. DOMAIN item.data = 1..Len(item.data) /\ Len(item.data) \in Nat
    BY <1>1, LenProperties DEF WireItems
  <2>4. Len(Written(f, item).polys) = Len(item.data) /\ Len(Written(f, item).slice.data) = 0
    BY <2>1, <2>2, <2>3
  <2>5. Rings(0) = 0 /\ Polys(Len(item.data)) \in Nat
    <3>1. Costs("norm", 0) = 0
      BY CostsType
    <3>. QED
      BY <2>3, <3>1, CostsType DEF Costs
  <2>. QED
    BY <1>1, <2>4, <2>5 DEF Cost, Costs
<1>2. CASE f # "polys"
  <2>1. Written(f, item).slice.data = item.data /\ Written(f, item).polys = <<>>
    BY <1>2 DEF Written, WrittenSlice
  <2>2. Len(Written(f, item).polys) = 0 /\ Len(item.data) \in Nat
    BY <1>2, <2>1, LenProperties DEF WireItems
  <2>3. Polys(0) = 0 /\ Rings(Len(item.data)) \in Nat
    <3>1. Costs("polys", 0) = 0
      BY CostsType
    <3>. QED
      BY <2>2, <3>1, CostsType DEF Costs
  <2>. QED
    BY <1>2, <2>1, <2>2, <2>3 DEF Cost, Costs
<1>. QED
  BY <1>1, <1>2

-----------------------------------------------------------------------------
\* Longer fields cost no less.
LEMMA CostsMonotone ==
    ASSUME NEW f, NEW m \in Nat, NEW n \in Nat, m <= n
    PROVE  Costs(f, m) <= Costs(f, n) /\ Costs(f, m) \in Nat /\ Costs(f, n) \in Nat
<1>1. PICK d \in Nat : n = m + d
  <2>1. n - m \in Nat /\ n = m + (n - m)
    OBVIOUS
  <2>. QED
    BY <2>1
<1>2. /\ Degree \in Nat /\ SlotDegree \in Nat
  BY WireFormatAssumption
<1>3. Rings(n) = Rings(m) + Rings(d)
  BY <1>1, RingsAdd
<1>4. Polys(n) = Polys(m) + Polys(d)
  <2>1. \A k \in Nat : (m + d) * k = m * k + d * k
    BY <1>1
  <2>2. 4 * SlotDegree \in Nat /\ \A k \in Nat : k * 4 * SlotDegree = k * (4 * SlotDegree)
    BY <1>2
  <2>. QED
    BY <1>1, <1>2, <2>1, <2>2 DEF Polys
<1>5. Rings(m) \in Nat /\ Rings(d) \in Nat /\ Polys(m) \in Nat /\ Polys(d) \in Nat
  BY <1>1, CostsType
<1>. HIDE DEF Costs
<1>6. Rings(m) <= Rings(n) /\ Polys(m) <= Polys(n) /\ Rings(n) \in Nat /\ Polys(n) \in Nat
  BY <1>3, <1>4, <1>5
<1>. QED
  BY <1>5, <1>6 DEF Costs

\* A round none of whose fields is longer declares no more.
LEMMA RoundMonotone ==
    ASSUME NEW p, Measured(p), NEW q, Measured(q),
           \A f \in Fields : Len(p.items[f].data) <= Len(q.items[f].data)
    PROVE  RoundDeclares(p) <= RoundDeclares(q)
<1>. DEFINE h == FieldCosts(p)
            k == FieldCosts(q)
<1>1. \A f \in Fields : h[f] <= k[f] /\ h[f] \in Nat /\ k[f] \in Nat
  BY CostsMonotone DEF FieldCosts, Measured
<1>2. RoundDeclares(p) = FieldsTotal(h) /\ RoundDeclares(q) = FieldsTotal(k)
  <2>1. /\ \A f \in Fields : h[f] \in Nat
        /\ \A f \in Fields : k[f] \in Nat
    BY <1>1
  <2>. HIDE DEF h, k
  <2>2. Total(h, Fields) = FieldsTotal(h) /\ Total(k, Fields) = FieldsTotal(k)
    BY <2>1, FieldsSum
  <2>. QED
    BY <2>2 DEF RoundDeclares, h, k
<1>. HIDE DEF h, k
<1>3. \A f, g \in Fields : /\ h[f] + h[g] <= k[f] + k[g]
                           /\ h[f] + h[g] \in Nat
                           /\ k[f] + k[g] \in Nat
  <2>1. \A a, b, c, d \in Nat : a <= c /\ b <= d => a + b <= c + d
    OBVIOUS
  <2>. QED
    BY <1>1, <2>1
<1>4. /\ h["polys"] + h["z0"] <= k["polys"] + k["z0"]
      /\ h["polys"] + h["z0"] \in Nat /\ k["polys"] + k["z0"] \in Nat
  <2>1. "polys" \in Fields /\ "z0" \in Fields
    BY DEF Fields
  <2>. QED
    BY <1>3, <2>1
<1>5. /\ h["z1"] + h["norm"] <= k["z1"] + k["norm"]
      /\ h["z1"] + h["norm"] \in Nat /\ k["z1"] + k["norm"] \in Nat
  <2>1. "z1" \in Fields /\ "norm" \in Fields
    BY DEF Fields
  <2>. QED
    BY <1>3, <2>1
<1>6. /\ h["mostInnerNorm"] + h["projectionNorm"] <= k["mostInnerNorm"] + k["projectionNorm"]
      /\ h["mostInnerNorm"] + h["projectionNorm"] \in Nat /\ k["mostInnerNorm"] + k["projectionNorm"] \in Nat
  <2>1. "mostInnerNorm" \in Fields /\ "projectionNorm" \in Fields
    BY DEF Fields
  <2>. QED
    BY <1>3, <2>1
<1>7. /\ h["opening"] + h["coarse"] <= k["opening"] + k["coarse"]
      /\ h["opening"] + h["coarse"] \in Nat /\ k["opening"] + k["coarse"] \in Nat
  <2>1. "opening" \in Fields /\ "coarse" \in Fields
    BY DEF Fields
  <2>. QED
    BY <1>3, <2>1
<1>8. /\ h["constantTerm"] + h["batched"] <= k["constantTerm"] + k["batched"]
      /\ h["constantTerm"] + h["batched"] \in Nat /\ k["constantTerm"] + k["batched"] \in Nat
  <2>1. "constantTerm" \in Fields /\ "batched" \in Fields
    BY DEF Fields
  <2>. QED
    BY <1>3, <2>1
<1>9. /\ h["constantTermClaims"] + h["next"] <= k["constantTermClaims"] + k["next"]
      /\ h["constantTermClaims"] + h["next"] \in Nat /\ k["constantTermClaims"] + k["next"] \in Nat
  <2>1. "constantTermClaims" \in Fields /\ "next" \in Fields
    BY DEF Fields
  <2>. QED
    BY <1>3, <2>1
<1>10. /\ h["image"] + h["folded"] <= k["image"] + k["folded"]
      /\ h["image"] + h["folded"] \in Nat /\ k["image"] + k["folded"] \in Nat
  <2>1. "image" \in Fields /\ "folded" \in Fields
    BY DEF Fields
  <2>. QED
    BY <1>3, <2>1
<1>11. \A a1, a2, a3, a4, a5, a6, a7, b1, b2, b3, b4, b5, b6, b7 \in Nat :
        a1 <= b1 /\ a2 <= b2 /\ a3 <= b3 /\ a4 <= b4 /\ a5 <= b5 /\ a6 <= b6 /\ a7 <= b7
          => ((((((a1 + a2) + a3) + a4) + a5) + a6) + a7) <= ((((((b1 + b2) + b3) + b4) + b5) + b6) + b7)
  OBVIOUS
<1>12. FieldsTotal(h) <= FieldsTotal(k)
  <2>. DEFINE a1 == h["polys"] + h["z0"]  b1 == k["polys"] + k["z0"]
              a2 == h["z1"] + h["norm"]   b2 == k["z1"] + k["norm"]
              a3 == h["mostInnerNorm"] + h["projectionNorm"]
              b3 == k["mostInnerNorm"] + k["projectionNorm"]
              a4 == h["opening"] + h["coarse"]  b4 == k["opening"] + k["coarse"]
              a5 == h["constantTerm"] + h["batched"]  b5 == k["constantTerm"] + k["batched"]
              a6 == h["constantTermClaims"] + h["next"]  b6 == k["constantTermClaims"] + k["next"]
              a7 == h["image"] + h["folded"]  b7 == k["image"] + k["folded"]
  <2>1. /\ FieldsTotal(h) = (((((a1 + a2) + a3) + a4) + a5) + a6) + a7
        /\ FieldsTotal(k) = (((((b1 + b2) + b3) + b4) + b5) + b6) + b7
    BY DEF FieldsTotal
  <2>2. /\ a1 \in Nat /\ a2 \in Nat /\ a3 \in Nat /\ a4 \in Nat /\ a5 \in Nat /\ a6 \in Nat /\ a7 \in Nat
        /\ b1 \in Nat /\ b2 \in Nat /\ b3 \in Nat /\ b4 \in Nat /\ b5 \in Nat /\ b6 \in Nat /\ b7 \in Nat
        /\ a1 <= b1 /\ a2 <= b2 /\ a3 <= b3 /\ a4 <= b4 /\ a5 <= b5 /\ a6 <= b6 /\ a7 <= b7
    BY <1>4, <1>5, <1>6, <1>7, <1>8, <1>9, <1>10
  <2>. HIDE DEF a1, a2, a3, a4, a5, a6, a7, b1, b2, b3, b4, b5, b6, b7
  <2>. QED
    BY <1>11, <2>1, <2>2
<1>. QED
  BY <1>2, <1>12

\* A sum over a longer interval, of values that are no less, is no less.
LEMMA TotalMonotone ==
    ASSUME NEW n \in Nat, NEW m \in Nat, m <= n, NEW h, NEW k,
           \A r \in 1..n : k[r] \in Nat, \A r \in 1..m : h[r] \in Nat /\ h[r] <= k[r]
    PROVE  Total(h, 1..m) <= Total(k, 1..n)
<1>. DEFINE Good(l) == Total(h, 1..(IF l <= m THEN l ELSE m)) <= Total(k, 1..l)
            Wrong == {l \in 0..n : ~Good(l)}
<1>1. Good(0)
  <2>1. 1..0 = {} /\ 0 <= m
    OBVIOUS
  <2>. QED
    BY <2>1, TotalEmpty
<1>2. \A l \in 1..n : /\ Total(k, 1..l) = Total(k, 1..(l - 1)) + k[l]
                      /\ Total(k, 1..(l - 1)) \in Nat /\ k[l] \in Nat
  <2>. TAKE l \in 1..n
  <2>1. l \in Nat /\ 1 \in Nat /\ 1 <= l /\ \A r \in 1..l : k[r] \in Nat
    OBVIOUS
  <2>. QED
    BY <2>1, IntervalSum
<1>3. \A l \in 1..m : /\ Total(h, 1..l) = Total(h, 1..(l - 1)) + h[l]
                      /\ Total(h, 1..(l - 1)) \in Nat /\ h[l] \in Nat
                      /\ Total(h, 1..l) \in Nat
  <2>. TAKE l \in 1..m
  <2>1. l \in Nat /\ 1 \in Nat /\ 1 <= l /\ \A r \in 1..l : h[r] \in Nat
    OBVIOUS
  <2>. QED
    BY <2>1, IntervalSum
<1>4. Total(h, 1..m) \in Nat
  <2>1. CASE m = 0
    <3>1. 1..m = {}
      BY <2>1
    <3>. QED
      BY <3>1, TotalEmpty
  <2>2. CASE m # 0
    <3>1. m \in 1..m
      BY <2>2
    <3>. QED
      BY <1>3, <3>1
  <2>. QED
    BY <2>1, <2>2
<1>5. ASSUME NEW l \in 1..n, Good(l - 1) PROVE Good(l)
  <2>1. /\ Total(k, 1..l) = Total(k, 1..(l - 1)) + k[l]
        /\ Total(k, 1..(l - 1)) \in Nat /\ k[l] \in Nat
    BY <1>2
  <2>2. CASE l <= m
    <3>1. l \in 1..m /\ l - 1 <= m
      BY <2>2
    <3>2. Total(h, 1..(l - 1)) <= Total(k, 1..(l - 1))
      BY <1>5, <3>1
    <3>3. /\ Total(h, 1..l) = Total(h, 1..(l - 1)) + h[l]
          /\ Total(h, 1..(l - 1)) \in Nat /\ h[l] \in Nat /\ h[l] <= k[l]
      BY <1>3, <3>1
    <3>4. Total(h, 1..l) <= Total(k, 1..l)
      BY <2>1, <3>2, <3>3
    <3>. QED
      BY <2>2, <3>4
  <2>3. CASE ~(l <= m)
    <3>1. (IF l - 1 <= m THEN l - 1 ELSE m) = m
      BY <2>3
    <3>2. Total(h, 1..m) <= Total(k, 1..(l - 1))
      BY <1>5, <3>1
    <3>3. Total(h, 1..m) <= Total(k, 1..l)
      BY <1>4, <2>1, <3>2
    <3>. QED
      BY <2>3, <3>3
  <2>. QED
    BY <2>2, <2>3
<1>6. \A l \in 0..n : Good(l)
  <2>. HIDE DEF Good
  <2>1. SUFFICES ASSUME Wrong # {} PROVE FALSE
    OBVIOUS
  <2>2. Wrong \subseteq Nat
    OBVIOUS
  <2>3. PICK l \in Wrong : \A j \in Wrong : l <= j
    <3>. HIDE DEF Wrong
    <3>. QED
      BY <2>1, <2>2, LeastNatural
  <2>4. l # 0
    BY <1>1
  <2>5. l \in 1..n /\ l - 1 \in 0..n /\ l - 1 \notin Wrong
    BY <2>3, <2>4
  <2>. QED
    BY <1>5, <2>5
<1>7. n \in 0..n /\ (IF n <= m THEN n ELSE m) = m
  OBVIOUS
<1>. QED
  BY <1>6, <1>7

\* A proof of rounds, each of numbers of elements.
Counted(proof) ==
    /\ Len(proof) \in Nat /\ DOMAIN proof = 1..Len(proof)
    /\ \A r \in 1..Len(proof) : Measured(proof[r])

\* A proof none of whose fields is longer declares no more.
LEMMA DeclaredMonotone ==
    ASSUME NEW p, Counted(p), NEW q, Counted(q), Len(p) <= Len(q),
           \A r \in 1..Len(p) : \A f \in Fields :
             Len(p[r].items[f].data) <= Len(q[r].items[f].data)
    PROVE  Declared(p) <= Declared(q) /\ Declared(p) \in Nat /\ Declared(q) \in Nat
<1>1. /\ Declared(p) = Total(RoundsDeclare(p), 1..Len(p))
      /\ Declared(q) = Total(RoundsDeclare(q), 1..Len(q))
      /\ IsFiniteSet(1..Len(p)) /\ IsFiniteSet(1..Len(q))
  BY DeclaredIs DEF Counted
<1>2. \A r \in 1..Len(p) : /\ RoundsDeclare(p)[r] = RoundDeclares(p[r])
                           /\ RoundDeclares(p[r]) \in Nat
  BY DeclaredIs DEF Counted
<1>3. \A r \in 1..Len(q) : /\ RoundsDeclare(q)[r] = RoundDeclares(q[r])
                           /\ RoundDeclares(q[r]) \in Nat
  BY DeclaredIs DEF Counted
<1>4. Len(p) \in Nat /\ Len(q) \in Nat /\ \A r \in 1..Len(p) : r \in 1..Len(q)
  BY DEF Counted
<1>5. \A r \in 1..Len(p) : RoundDeclares(p[r]) <= RoundDeclares(q[r])
  <2>. TAKE r \in 1..Len(p)
  <2>1. Measured(p[r]) /\ Measured(q[r])
    BY <1>4 DEF Counted
  <2>2. \A f \in Fields : Len(p[r].items[f].data) <= Len(q[r].items[f].data)
    OBVIOUS
  <2>. QED
    BY <2>1, <2>2, RoundMonotone
<1>6. /\ \A r \in 1..Len(q) : RoundsDeclare(q)[r] \in Nat
      /\ \A r \in 1..Len(p) : /\ RoundsDeclare(p)[r] \in Nat
                              /\ RoundsDeclare(p)[r] <= RoundsDeclare(q)[r]
  BY <1>2, <1>3, <1>4, <1>5
<1>. HIDE DEF Declared, RoundsDeclare
<1>7. Total(RoundsDeclare(p), 1..Len(p)) <= Total(RoundsDeclare(q), 1..Len(q))
  BY <1>4, <1>6, TotalMonotone
<1>8. Total(RoundsDeclare(p), 1..Len(p)) \in Nat /\ Total(RoundsDeclare(q), 1..Len(q)) \in Nat
  BY <1>1, <1>6, TotalSplits
<1>. QED
  BY <1>1, <1>7, <1>8

\* The proofs a sender holds, and those decoded, are counted.
LEMMA SenderCounted ==
    ASSUME NEW proof, SenderProof(proof)
    PROVE  /\ Counted(proof) /\ Len(proof) \in Nat \ {0}
           /\ \A r \in 1..Len(proof) : \A f \in Fields : proof[r].items[f] \in WireItems(f)
<1>1. ASSUME NEW r \in 1..Len(proof), NEW f \in Fields
      PROVE  proof[r].items[f] \in WireItems(f) /\ Len(proof[r].items[f].data) \in Nat
  <2>1. proof[r].items[f] \in WireItems(f)
    BY DEF SenderProof, SenderItems
  <2>2. proof[r].items[f].data \in Seq(Polynomials) \/ proof[r].items[f].data \in Seq(Elements)
    BY <2>1 DEF WireItems
  <2>. QED
    BY <2>1, <2>2, LenProperties
<1>. QED
  BY <1>1 DEF SenderProof, Counted, Measured

\* So are those decoded.
LEMMA DecodedCounted ==
    ASSUME NEW o \in Seq(DecodedRounds), Len(o) # 0
    PROVE  Counted(o)
BY DecodedMeasured DEF Counted

-----------------------------------------------------------------------------
(***************************************************************************)
(* What has been decoded is the source's, as long as the stream is the     *)
(* encoder's.                                                              *)
(***************************************************************************)
Faithful(r, f) ==
    /\ out[r].items[f] = AsDecoded(f, source[r].items[f])
    /\ WellHeld(source[r].kind, f, source[r].items[f])

\* The rounds above the one being read.
FaithfulAbove ==
    /\ Len(out) <= Len(source)
    /\ \A r \in 1..Len(out) : out[r].kind = source[r].kind
    /\ \A r \in 1..(Len(out) - 1) : \A f \in Fields : Faithful(r, f)

\* The round being read: its fields so far, and those to come; a flag is still
\* to be read where the source has a round more.
FaithfulRound ==
    /\ \A f \in Fields : ~Pending(f) => Faithful(Len(out), f)
    /\ \A i \in 1..Len(todo) : todo[i] \in Fields =>
         source[Len(out)].items[todo[i]].shape # NoShape \/ Optional(Round.kind, todo[i])
    /\ Len(out) < Len(source) => \E i \in 1..Len(todo) : todo[i] = "descend"

FaithfulInv ==
    /\ odd \in Nat /\ ProofOrdered(source)
    /\ odd = 0 =>
         /\ FaithfulAbove
         /\ status # "malformed" => FaithfulRound
         /\ status = "malformed" => ~Transmissible(source)

\* An arrival that is not odd is what the encoder writes.
LEMMA OddArrivals ==
    ASSUME NEW f, NEW a \in Arrivals(f)
    PROVE  a.odd \in Nat /\ (a.odd = 0 => a.written = Written(f, Held(f)))
<1>. DEFINE item == Held(f)
            kind == Round.kind
            altered == AlteredItems(kind, f, item)
            Choices(i, n) == {[written |-> c, odd |-> n] : c \in CodingChoices(Written(f, i))}
            As(i, n) == [written |-> Written(f, i), odd |-> n]
<1>2. Arrivals(f) = {As(item, 0)} \cup {As(x, 1) : x \in altered} \cup Choices(item, 1)
                    \cup UNION {Choices(x, 2) : x \in altered}
  BY DEF Arrivals
<1>. HIDE DEF item, kind, altered, Choices, As
<1>3. \A x, n : As(x, n).odd = n /\ As(x, n).written = Written(f, x)
  BY DEF As
<1>4. \A x, n : \A b \in Choices(x, n) : b.odd = n
  BY DEF Choices
<1>5. CASE a = As(item, 0)
  BY <1>3, <1>5 DEF item
<1>6. CASE a # As(item, 0)
  <2>1. a.odd = 1 \/ a.odd = 2
    BY <1>2, <1>3, <1>4, <1>6
  <2>. QED
    BY <2>1
<1>. QED
  BY <1>5, <1>6

\* Each action that reads a field: what is asked of it, and what becomes of it.
Judges(a) ==
    /\ odd' = odd + a.odd
    /\ Charged(a.written) /\ Admission(Round.kind, Field, a.written) => Stores(a.written)
    /\ ~(Charged(a.written) /\ Admission(Round.kind, Field, a.written)) => Refuses

\* A field is stored exactly where it is paid for and admitted.
LEMMA ReadsExactly ==
    ASSUME WireInv,
           ReadPolys \/ ReadRing \/ ReadSlice \/ ReadMatrix \/ ReadNextCommitment
    PROVE  /\ todo # <<>> /\ status = "reading" /\ Field \in Fields
           /\ UNCHANGED <<chain, source>>
           /\ \E a \in Arrivals(Field) : Arrival(Round.kind, Field, a.written) /\ Judges(a)
<1>1. SenderProof(source) /\ Len(out) \in Nat \ {0}
  BY ReadingRound DEF WireInv, WireType
<1>2. ASSUME Field \in Fields
      PROVE  \A a \in Arrivals(Field) :
               /\ Arrival(Round.kind, Field, a.written)
               /\ Field = "polys" => SliceAdmitted(Field, a.written.slice)
               /\ Field # "polys" =>
                    \A i \in DOMAIN a.written.polys : PolynomialAdmitted(a.written.polys[i])
  BY <1>1, <1>2, ArrivalsType, ArrivalAdmitted
<1>3. CASE ReadPolys
  <2>1. PICK a \in Arrivals(Field) :
          Take(a, \A i \in DOMAIN a.written.polys : PolynomialAdmitted(a.written.polys[i]))
    BY <1>3 DEF ReadPolys
  <2>2. todo # <<>> /\ status = "reading" /\ Field = "polys" /\ Field \in Fields
        /\ Field \notin SingleRings /\ Field \notin Matrices(Round.kind) /\ Field # "next"
    BY <1>3 DEF ReadPolys, Reading, Fields, SingleRings, Matrices, Verticals, Horizontals
  <2>3. Admission(Round.kind, Field, a.written) <=>
          \A i \in DOMAIN a.written.polys : PolynomialAdmitted(a.written.polys[i])
    BY <2>2 DEF Admission
  <2>4. Judges(a)
    <3>. HIDE DEF Admission
    <3>. QED
      BY <1>2, <2>1, <2>2, <2>3 DEF Take, Accepts, Stores, Refuses, Judges
  <2>. QED
    BY <1>2, <2>1, <2>2, <2>4 DEF Take
<1>4. CASE ReadRing
  <2>1. PICK a \in Arrivals(Field) :
          Take(a, /\ SliceAdmitted(Field, a.written.slice)
                  /\ a.written.present => Len(a.written.slice.data) = 1)
    BY <1>4 DEF ReadRing
  <2>2. todo # <<>> /\ status = "reading" /\ Field # "polys" /\ Field \in Fields
        /\ Field \in SingleRings /\ Field \notin Matrices(Round.kind) /\ Field # "next"
    BY <1>4 DEF ReadRing, Reading, Fields, SingleRings, Matrices, Verticals, Horizontals
  <2>3. Admission(Round.kind, Field, a.written) <=>
          /\ SliceAdmitted(Field, a.written.slice)
          /\ a.written.present => Len(a.written.slice.data) = 1
    BY <2>2 DEF Admission
  <2>4. Judges(a)
    BY <1>2, <2>1, <2>2, <2>3 DEF Take, Accepts, Stores, Refuses, Judges
  <2>. QED
    BY <1>2, <2>1, <2>2, <2>4 DEF Take
<1>5. CASE ReadSlice
  <2>1. PICK a \in Arrivals(Field) : Take(a, SliceAdmitted(Field, a.written.slice))
    BY <1>5 DEF ReadSlice
  <2>2. todo # <<>> /\ status = "reading" /\ Field # "polys" /\ Field \in Fields
        /\ Field \notin SingleRings /\ Field \notin Matrices(Round.kind) /\ Field # "next"
    BY <1>5 DEF ReadSlice, Reading, Fields, Slices, SingleRings, Matrices, Verticals
  <2>3. Admission(Round.kind, Field, a.written) <=> SliceAdmitted(Field, a.written.slice)
    BY <2>2 DEF Admission
  <2>4. Judges(a)
    BY <1>2, <2>1, <2>2, <2>3 DEF Take, Accepts, Stores, Refuses, Judges
  <2>. QED
    BY <1>2, <2>1, <2>2, <2>4 DEF Take
<1>6. CASE ReadMatrix
  <2>1. PICK a \in Arrivals(Field) :
          Take(a, /\ SliceAdmitted(Field, a.written.slice)
                  /\ MatrixAdmitted(a.written.dims, a.written.slice.data))
    BY <1>6 DEF ReadMatrix
  <2>2. todo # <<>> /\ status = "reading" /\ Field # "polys" /\ Field \in Fields
        /\ Field \notin SingleRings /\ Field \in Matrices(Round.kind) /\ Field # "next"
    BY <1>6 DEF ReadMatrix, Reading, Fields, Verticals, Horizontals, SingleRings, Matrices
  <2>3. Admission(Round.kind, Field, a.written) <=>
          /\ SliceAdmitted(Field, a.written.slice)
          /\ MatrixAdmitted(a.written.dims, a.written.slice.data)
    BY <2>2 DEF Admission
  <2>4. Judges(a)
    BY <1>2, <2>1, <2>2, <2>3 DEF Take, Accepts, Stores, Refuses, Judges
  <2>. QED
    BY <1>2, <2>1, <2>2, <2>4 DEF Take
<1>7. CASE ReadNextCommitment
  <2>1. PICK a \in Arrivals(Field) :
          Take(a, /\ SliceAdmitted(Field, a.written.slice)
                  /\ a.written.dims # <<>>
                       => MatrixAdmitted(a.written.dims, a.written.slice.data))
    BY <1>7 DEF ReadNextCommitment
  <2>2. todo # <<>> /\ status = "reading" /\ Field # "polys" /\ Field \in Fields
        /\ Field \notin SingleRings /\ Field \notin Matrices(Round.kind) /\ Field = "next"
    BY <1>7 DEF ReadNextCommitment, Reading, Fields, SingleRings, Matrices, Verticals, Horizontals
  <2>3. Admission(Round.kind, Field, a.written) <=>
          /\ SliceAdmitted(Field, a.written.slice)
          /\ a.written.dims # <<>> => MatrixAdmitted(a.written.dims, a.written.slice.data)
    BY <2>2 DEF Admission
  <2>4. Judges(a)
    BY <1>2, <2>1, <2>2, <2>3 DEF Take, Accepts, Stores, Refuses, Judges
  <2>. QED
    BY <1>2, <2>1, <2>2, <2>4 DEF Take
<1>. QED
  BY <1>3, <1>4, <1>5, <1>6, <1>7

\* What the sender has for a field it means to send.
LEMMA HeldFaithful ==
    ASSUME ProofOrdered(source), Len(out) \in Nat \ {0}, Len(out) <= Len(source),
           Len(source) \in Nat,
           Round.kind = source[Len(out)].kind, NEW f \in Fields,
           source[Len(out)].items[f].shape # NoShape \/ Optional(Round.kind, f)
    PROVE  Held(f) = source[Len(out)].items[f]
<1>. DEFINE sent == source[Len(out)].items[f]
<1>1. Held(f) = IF sent.shape = NoShape THEN Stray(f) ELSE sent
  BY DEF Held
<1>2. CASE sent.shape # NoShape
  BY <1>1, <1>2
<1>3. CASE sent.shape = NoShape
  <2>1. Optional(Round.kind, f)
    BY <1>3
  <2>2. f \notin {"folded", "image"} /\ f # "polys" /\ f \notin {"batched", "opening"}
    BY <2>1 DEF Optional
  <2>3. Stray(f) = AbsentItem
    BY <2>1, <2>2, Zenon DEF Stray
  <2>4. Ordered(source[Len(out)].kind, f, sent)
    <3>1. Len(out) \in 1..Len(source)
      OBVIOUS
    <3>. QED
      BY <3>1 DEF ProofOrdered, RoundOrdered
  <2>5. Len(sent.shape) = 0
    BY <1>3 DEF NoShape
  <2>6. sent = AbsentItem
    BY <2>4, <2>5 DEF Ordered
  <2>. QED
    BY <1>1, <1>3, <2>3, <2>6
<1>. QED
  BY <1>2, <1>3

\* As long as the stream is the encoder's, no field has become longer.
LEMMA LengthsBelow ==
    ASSUME WireInv, SpentInv, FaithfulInv, odd = 0, status # "malformed",
           NEW r \in 1..Len(out), NEW f \in Fields
    PROVE  /\ Len(out[r].items[f].data) <= Len(source[r].items[f].data)
           /\ r \in 1..Len(source)
<1>. DEFINE n == Len(out)
<1>1. Len(source) \in Nat \ {0} /\ Counted(source)
      /\ \A k \in 1..Len(source) : \A g \in Fields : source[k].items[g] \in WireItems(g)
  BY SenderCounted DEF WireInv, WireType
<1>2. n \in Nat \ {0} /\ Round = out[n]
  BY ReadingRound DEF WireInv, WireType
<1>3. FaithfulAbove /\ FaithfulRound /\ RoundSoFar
  BY DEF FaithfulInv, SpentInv
<1>4. r \in 1..Len(source)
  BY <1>1, <1>2, <1>3 DEF FaithfulAbove
<1>5. source[r].items[f] \in WireItems(f) /\ Len(source[r].items[f].data) \in Nat
  BY <1>1, <1>4 DEF Counted, Measured
<1>6. CASE Faithful(r, f)
  <2>1. Len(out[r].items[f].data) = Len(source[r].items[f].data)
    BY <1>5, <1>6, AsDecodedIs DEF Faithful
  <2>. QED
    BY <1>4, <1>5, <2>1
<1>7. CASE ~Faithful(r, f)
  <2>1. r = n
    <3>1. r # n => r \in 1..(n - 1)
      BY <1>2
    <3>. QED
      BY <1>3, <1>7, <3>1 DEF FaithfulAbove
  <2>2. Pending(f)
    BY <1>3, <1>7, <2>1 DEF FaithfulRound
  <2>3. out[r].items[f] = AbsentItem
    BY <1>2, <1>3, <2>1, <2>2 DEF RoundSoFar
  <2>4. Len(out[r].items[f].data) = 0
    BY <2>3, AbsentIsEmpty
  <2>. QED
    BY <1>4, <1>5, <2>4
<1>. QED
  BY <1>6, <1>7

\* The next field, of a stream that is the encoder's: what the sender has for it.
LEMMA NextItem ==
    ASSUME WireInv, FaithfulInv, odd = 0, status = "reading", todo # <<>>, NEW f \in Fields, f = Field
    PROVE  /\ Held(f) = source[Len(out)].items[f]
           /\ source[Len(out)].items[f] \in WireItems(f)
           /\ Len(out) \in 1..Len(source) /\ Len(out) \in Nat \ {0} /\ Len(source) \in Nat \ {0}
           /\ source[Len(out)].kind = Round.kind
           /\ Ordered(Round.kind, f, source[Len(out)].items[f])
           /\ f \in Matrices(Round.kind) => source[Len(out)].items[f].shape # NoShape
           /\ Pending(f)
<1>1. Len(source) \in Nat \ {0}
      /\ \A k \in 1..Len(source) : \A g \in Fields : source[k].items[g] \in WireItems(g)
  BY SenderCounted DEF WireInv, WireType
<1>2. Len(out) \in Nat \ {0} /\ Round = out[Len(out)]
  BY ReadingRound DEF WireInv, WireType
<1>3. FaithfulAbove /\ FaithfulRound /\ ProofOrdered(source)
  BY DEF FaithfulInv
<1>4. Len(out) \in 1..Len(source) /\ Len(out) \in 1..Len(out)
  BY <1>1, <1>2, <1>3 DEF FaithfulAbove
<1>5. source[Len(out)].kind = Round.kind
  BY <1>2, <1>3, <1>4 DEF FaithfulAbove
<1>6. Len(todo) \in Nat \ {0} /\ f = todo[1] /\ 1 \in 1..Len(todo)
  BY TodoFacts DEF WireInv
<1>7. source[Len(out)].items[f].shape # NoShape \/ Optional(Round.kind, f)
  BY <1>3, <1>6 DEF FaithfulRound
<1>8. Held(f) = source[Len(out)].items[f]
  BY <1>1, <1>2, <1>3, <1>4, <1>5, <1>7, HeldFaithful
<1>9. Ordered(Round.kind, f, source[Len(out)].items[f])
  BY <1>3, <1>4, <1>5 DEF ProofOrdered, RoundOrdered
<1>10. f \in Matrices(Round.kind) => ~Optional(Round.kind, f)
  BY DEF Matrices, Verticals, Horizontals, Optional
<1>11. Pending(f)
  BY <1>6 DEF Pending
<1>. QED
  BY <1>1, <1>2, <1>4, <1>5, <1>7, <1>8, <1>9, <1>10, <1>11

\* A field of a stream that is the encoder's is refused only where the source
\* holds what its field does not ask for, or more than the allowance.
LEMMA RefusedForGood ==
    ASSUME WireInv, SpentInv, AllowanceInv, FaithfulInv, odd = 0, status = "reading", todo # <<>>,
           NEW f \in Fields, f = Field, NEW w, w = Written(f, source[Len(out)].items[f]),
           ~(Charged(w) /\ Admission(Round.kind, f, w))
    PROVE  ~Transmissible(source)
<1>. DEFINE n == Len(out)
            item == source[n].items[f]
            p == [out EXCEPT ![n].items[f] = item]
<1>1. /\ item \in WireItems(f) /\ n \in 1..Len(source) /\ n \in Nat \ {0}
      /\ Len(source) \in Nat \ {0}
      /\ source[n].kind = Round.kind /\ Ordered(Round.kind, f, item)
      /\ f \in Matrices(Round.kind) => item.shape # NoShape
      /\ Pending(f)
  BY NextItem
<1>2. Counted(source) /\ DOMAIN source = 1..Len(source)
  BY SenderCounted DEF WireInv, WireType, Counted
<1>3. CASE ~Admission(Round.kind, f, w)
  <2>1. ~WellHeld(Round.kind, f, item)
    BY <1>1, <1>3, Admits
  <2>. QED
    BY <1>1, <1>2, <2>1 DEF Transmissible
<1>4. CASE ~Charged(w)
  <2>1. out \in Seq(DecodedRounds) /\ Len(out) # 0 /\ Round = out[n] /\ DOMAIN out = 1..n
    BY ReadingRound, LenProperties DEF WireInv, WireType
  <2>2. Alters(out, p, f, item)
    BY <1>1, <2>1, ItemRead
  <2>3. out[n].items[f] = AbsentItem
    BY <1>1, <2>1 DEF SpentInv, RoundSoFar
  <2>4. Len(out[n].items[f].data) = 0
    BY <2>3, AbsentIsEmpty
  <2>5. Declared(p) = Declared(out) + Costs(f, Len(item.data))
    <3>. HIDE DEF p, item
    <3>. QED
      BY <2>1, <2>2, <2>4, DeclaredGrows DEF n
  <2>6. Costs(f, Len(item.data)) = Cost(w)
    BY <1>1, WrittenCosts
  <2>7. \A r \in 1..n : \A g \in Fields :
          Len(out[r].items[g].data) <= Len(source[r].items[g].data)
    BY LengthsBelow
  <2>. HIDE DEF p, item
  <2>8. p \in Seq(DecodedRounds) /\ Len(p) = n
    BY <2>2 DEF Alters
  <2>9. Counted(p)
    BY <1>1, <2>8, DecodedCounted
  <2>10. \A r \in 1..Len(p) : \A g \in Fields :
           Len(p[r].items[g].data) <= Len(source[r].items[g].data)
    <3>. TAKE r \in 1..Len(p)
    <3>. TAKE g \in Fields
    <3>1. CASE r # n
      <4>1. r \in 1..(n - 1) /\ r \in 1..n
        BY <1>1, <2>8, <3>1
      <4>2. p[r] = out[r]
        BY <2>2, <4>1 DEF Alters
      <4>. QED
        BY <2>7, <4>1, <4>2
    <3>2. CASE r = n /\ g # f
      <4>1. p[r].items[g] = out[r].items[g]
        BY <2>2, <3>2 DEF Alters
      <4>. QED
        BY <2>7, <2>8, <4>1
    <3>3. CASE r = n /\ g = f
      <4>1. p[r].items[g] = source[r].items[g]
        BY <2>2, <3>3 DEF Alters, item
      <4>2. Len(source[r].items[g].data) \in Nat
        BY <1>1, <1>2, <3>3 DEF Counted, Measured
      <4>. QED
        BY <4>1, <4>2
    <3>. QED
      BY <3>1, <3>2, <3>3
  <2>11. Len(p) <= Len(source)
    BY <1>1, <2>8
  <2>12. Declared(p) <= Declared(source) /\ Declared(p) \in Nat /\ Declared(source) \in Nat
    BY <1>2, <2>9, <2>10, <2>11, DeclaredMonotone
  <2>13. left + Declared(out) = Allowance.cells
    BY DEF SpentInv
  <2>14. left \in Nat /\ Allowance.cells \in Nat /\ Cost(w) \in Nat
    <3>1. w \in WireFields
      BY <1>1, WrittenType DEF item
    <3>. QED
      BY <3>1, CostType, AllowanceType DEF AllowanceInv
  <2>15. ~(Cost(w) <= left)
    BY <1>4 DEF Charged
  <2>16. Declared(out) \in Nat
    <3>1. /\ Declared(out) = RoundDeclares(out[n]) + Total(RoundsDeclare(out), 1..(n - 1))
          /\ RoundDeclares(out[n]) \in Nat /\ Total(RoundsDeclare(out), 1..(n - 1)) \in Nat
      BY <2>1, DeclaredSplits
    <3>. QED
      BY <3>1
  <2>. HIDE DEF Declared, Cost, Allowance
  <2>17. \A a, b, c, d, e \in Nat : a + b = c /\ ~(d <= a) /\ b + d <= e => ~(e <= c)
    OBVIOUS
  <2>18. ~(Declared(source) <= Allowance.cells)
    BY <2>5, <2>6, <2>12, <2>13, <2>14, <2>15, <2>16, <2>17
  <2>. QED
    BY <2>18 DEF Transmissible
<1>. QED
  BY <1>3, <1>4

\* What the proof may be sent under does not change.
LEMMA TransmissibleKept ==
    ASSUME UNCHANGED <<chain, source>>
    PROVE  /\ Transmissible(source)' <=> Transmissible(source)
           /\ Allowance' = Allowance
BY DEF Transmissible, Allowance

\* A field of a stream that is the encoder's is decoded to what the source holds.
LEMMA FieldFaithful ==
    ASSUME WireInv, SpentInv, AllowanceInv, FaithfulInv,
           ReadPolys \/ ReadRing \/ ReadSlice \/ ReadMatrix \/ ReadNextCommitment
    PROVE  FaithfulInv'
<1>. DEFINE n == Len(out)
<1>0. /\ todo # <<>> /\ status = "reading" /\ Field \in Fields /\ UNCHANGED <<chain, source>>
  BY ReadsExactly
<1>1. PICK f \in Fields : f = Field
  BY <1>0
<1>2. PICK a \in Arrivals(f) : Arrival(Round.kind, f, a.written) /\ Judges(a)
  BY <1>1, ReadsExactly
<1>3. /\ a.odd \in Nat /\ (a.odd = 0 => a.written = Written(f, Held(f)))
      /\ odd \in Nat /\ odd' = odd + a.odd /\ ProofOrdered(source)
  BY <1>2, OddArrivals DEF Judges, FaithfulInv
<1>4. odd' \in Nat /\ ProofOrdered(source)' /\ (odd' = 0 => odd = 0 /\ a.odd = 0)
  <2>1. \A x, y \in Nat : x + y \in Nat /\ (x + y = 0 => x = 0 /\ y = 0)
    OBVIOUS
  <2>2. odd' \in Nat /\ (odd' = 0 => odd = 0 /\ a.odd = 0)
    BY <1>3, <2>1
  <2>3. source' = source
    BY <1>0
  <2>. QED
    BY <1>3, <2>2, <2>3
<1>5. CASE odd' # 0
  BY <1>4, <1>5 DEF FaithfulInv
<1>6. CASE odd' = 0
  <2>. DEFINE w == a.written
              item == source[n].items[f]
  <2>1. odd = 0 /\ w = Written(f, Held(f))
    BY <1>3, <1>4, <1>6
  <2>2. /\ Held(f) = item
        /\ item \in WireItems(f) /\ n \in 1..Len(source) /\ n \in Nat \ {0}
        /\ source[n].kind = Round.kind /\ Ordered(Round.kind, f, item)
        /\ f \in Matrices(Round.kind) => item.shape # NoShape
        /\ Pending(f)
    BY <1>0, <1>1, <2>1, NextItem
  <2>3. w = Written(f, item)
    BY <2>1, <2>2
  <2>4. FaithfulAbove /\ FaithfulRound
    BY <1>0, <2>1 DEF FaithfulInv
  <2>5. CASE ~(Charged(w) /\ Admission(Round.kind, f, w))
    <3>1. ~Transmissible(source)
      BY <1>0, <1>1, <2>1, <2>3, <2>5, RefusedForGood
    <3>2. Refuses
      BY <1>1, <1>2, <2>5 DEF Judges
    <3>3. ~Transmissible(source)' /\ status' = "malformed" /\ UNCHANGED <<out, source>>
      BY <1>0, <3>1, <3>2, TransmissibleKept DEF Refuses
    <3>4. FaithfulAbove'
      BY <2>4, <3>3 DEF FaithfulAbove, Faithful
    <3>. QED
      BY <1>4, <3>3, <3>4 DEF FaithfulInv
  <2>6. CASE Charged(w) /\ Admission(Round.kind, f, w)
    <3>0. Stores(w)
      BY <1>1, <1>2, <2>6 DEF Judges
    <3>1. Decoded(f, w) = AsDecoded(f, item)
      BY <2>2, <2>3, DecodesItself
    <3>2. WellHeld(Round.kind, f, item)
      BY <2>2, <2>3, <2>6, Admits
    <3>3. /\ out \in Seq(DecodedRounds) /\ n # 0 /\ Round = out[n]
      BY ReadingRound DEF WireInv, WireType
    <3>4. Decoded(f, w) \in WireItems(f) /\ out' = [out EXCEPT ![n].items[f] = Decoded(f, w)]
      BY <1>1, <1>2, <3>0, Reencoded DEF Stores, Accepts
    <3>5. Alters(out, out', f, Decoded(f, w))
      <4>. DEFINE x == Decoded(f, w)
      <4>1. x \in WireItems(f) /\ out' = [out EXCEPT ![n].items[f] = x]
        BY <3>4
      <4>. HIDE DEF x, n
      <4>2. Alters(out, out', f, x)
        BY <3>3, <4>1, ItemRead DEF n
      <4>. QED
        BY <4>2 DEF x
    <3>6. /\ Len(out') = n /\ \A r \in 1..(n - 1) : out'[r] = out[r]
          /\ out'[n].kind = out[n].kind
          /\ \A g \in Fields : out'[n].items[g] = IF g = f THEN AsDecoded(f, item) ELSE out[n].items[g]
      BY <3>1, <3>5 DEF Alters
    <3>7. Round'.kind = Round.kind /\ source' = source /\ status' = status
      BY <1>0, <3>0, <3>3, <3>6 DEF Round, Stores, Accepts
    <3>8. /\ Len(todo) \in Nat \ {0} /\ f = todo[1]
          /\ todo' = Tail(todo) /\ Len(todo') = Len(todo) - 1
          /\ \A i \in 1..(Len(todo) - 1) : todo'[i] = todo[i + 1]
      BY <1>0, <1>1, <3>0, TodoFacts DEF WireInv, Stores, Accepts
    <3>. HIDE DEF n, item, w
    <3>9. \A i \in 1..Len(todo') : i + 1 \in 1..Len(todo) /\ todo'[i] = todo[i + 1]
      BY <3>8
    <3>10. \A i \in 1..Len(todo) : i # 1 => i - 1 \in 1..Len(todo') /\ todo'[i - 1] = todo[i]
      BY <3>8
    <3>11. FaithfulAbove'
      <4>1. \A r \in 1..n : out'[r].kind = out[r].kind
        <5>1. \A r \in 1..n : r = n \/ r \in 1..(n - 1)
          BY <2>2
        <5>. QED
          BY <3>6, <5>1
      <4>. QED
        BY <2>4, <3>6, <3>7, <4>1 DEF FaithfulAbove, Faithful, n
    <3>12. \A g \in Fields : g # f => (Pending(g) => Pending(g)')
      <4>. SUFFICES ASSUME NEW g \in Fields, g # f, Pending(g) PROVE Pending(g)'
        OBVIOUS
      <4>1. f # "fine"
        BY DEF Fields
      <4>2. \A h : h # f /\ (\E i \in 1..Len(todo) : todo[i] = h) => \E i \in 1..Len(todo') : todo'[i] = h
        BY <3>8, <3>10
      <4>. QED
        BY <4>1, <4>2 DEF Pending
    <3>13. \A g \in Fields : ~Pending(g)' => Faithful(n, g)'
      <4>. SUFFICES ASSUME NEW g \in Fields, ~Pending(g)' PROVE Faithful(n, g)'
        OBVIOUS
      <4>1. CASE g = f
        <5>1. out'[n].items[g] = AsDecoded(g, source'[n].items[g])
          BY <3>6, <3>7, <4>1 DEF item
        <5>2. WellHeld(source'[n].kind, g, source'[n].items[g])
          BY <2>2, <3>2, <3>7, <4>1 DEF item
        <5>. QED
          BY <3>6, <5>1, <5>2 DEF Faithful, n
      <4>2. CASE g # f
        <5>1. Faithful(n, g)
          BY <2>4, <3>12, <4>2 DEF FaithfulRound, n
        <5>. QED
          BY <3>6, <3>7, <4>2, <5>1 DEF Faithful, n
      <4>. QED
        BY <4>1, <4>2
    <3>14. FaithfulRound'
      <4>1. \A g \in Fields : ~Pending(g)' => Faithful(Len(out), g)'
        BY <3>6, <3>13 DEF Faithful, n
      <4>2. \A i \in 1..Len(todo') : todo'[i] \in Fields =>
               source'[Len(out')].items[todo'[i]].shape # NoShape \/ Optional(Round'.kind, todo'[i])
        BY <2>4, <3>6, <3>7, <3>9 DEF FaithfulRound, n
      <4>3. Len(out') < Len(source') => \E i \in 1..Len(todo') : todo'[i] = "descend"
        <5>1. f # "descend"
          BY DEF Fields
        <5>. SUFFICES ASSUME Len(out') < Len(source')
                      PROVE  \E i \in 1..Len(todo') : todo'[i] = "descend"
          OBVIOUS
        <5>2. Len(out) < Len(source)
          BY <3>6, <3>7 DEF n
        <5>3. PICK i \in 1..Len(todo) : todo[i] = "descend"
          BY <2>4, <5>2 DEF FaithfulRound
        <5>4. i # 1
          BY <3>8, <5>1, <5>3
        <5>. QED
          BY <3>10, <5>3, <5>4
      <4>. QED
        BY <4>1, <4>2, <4>3 DEF FaithfulRound, Optional
    <3>15. status' # "malformed"
      BY <1>0, <3>7
    <3>. QED
      BY <1>4, <3>11, <3>14, <3>15 DEF FaithfulInv
  <2>. QED
    BY <2>5, <2>6
<1>. QED
  BY <1>5, <1>6

\* The flag of a fine projection is read in a round of a sumcheck only.
LEMMA FineIsSumcheck ==
    ASSUME WireInv, status = "reading", todo # <<>>, Field = "fine"
    PROVE  Round.kind = "Sumcheck"
<1>. DEFINE F == EncoderFields(Round.kind)
<1>1. Len(todo) \in Nat \ {0} /\ todo[1] = "fine"
  BY TodoFacts DEF WireInv
<1>2. PICK k \in 0..Len(F) : Between(k) \/ PairOpen(k) \/ PairHalf(k)
  BY DEF WireInv
<1>3. Between(k)
  BY <1>1, <1>2 DEF PairOpen, PairHalf
<1>4. Round.kind \in ProofKinds /\ Len(F) \in Nat \ {0}
  BY ReadingRound
<1>5. Len(todo) = Len(F) - k /\ \A i \in 1..Len(todo) : todo[i] = F[k + i]
  BY <1>3 DEF Between
<1>6. k + 1 \in 1..Len(F) /\ F[k + 1] = "fine"
  <2>. HIDE DEF F
  <2>1. 1 \in 1..Len(todo)
    BY <1>1
  <2>. QED
    BY <1>1, <1>4, <1>5, <2>1
<1>. QED
  BY <1>4, <1>6, FieldsOfKind

\* What the flag leaves to be read.
FlagLeaves(present) ==
    todo' = IF present THEN <<"constantTerm", "batched">> \o Tail(todo) ELSE Tail(todo)

\* The roots it announces come before the fields that follow.
LEMMA FineTodo ==
    ASSUME WireInv, ReadFinePair, NEW present \in BOOLEAN, FlagLeaves(present)
    PROVE  /\ \A i \in 1..Len(todo') :
                \/ present /\ todo'[i] \in Both
                \/ \E j \in 1..Len(todo) : todo'[i] = todo[j]
           /\ \A j \in 1..Len(todo) : todo[j] # "fine" => \E i \in 1..Len(todo') : todo'[i] = todo[j]
           /\ present => \A f \in Both : \E i \in 1..Len(todo') : todo'[i] = f
           /\ \E j \in 1..Len(todo) : todo[j] = "fine"
<1>1. /\ todo # <<>> /\ status = "reading" /\ Field = "fine" /\ WireType
  BY DEF ReadFinePair, Reading, WireInv
<1>. DEFINE rest == Tail(todo)
            n == Len(todo) - 1
<1>2. /\ Len(todo) \in Nat \ {0} /\ Field = todo[1]
      /\ rest \in Seq(Listed) /\ Len(rest) = n /\ n \in Nat
      /\ \A i \in 1..n : rest[i] = todo[i + 1]
  BY <1>1, TodoFacts
<1>3. /\ \A i \in 1..n : i + 1 \in 1..Len(todo)
      /\ \A j \in 1..Len(todo) : j = 1 \/ (j - 1 \in 1..n /\ rest[j - 1] = todo[j])
      /\ 1 \in 1..Len(todo)
  BY <1>2
<1>. HIDE DEF rest, n
<1>4. CASE ~present
  <2>1. todo' = rest
    BY <1>4 DEF rest, FlagLeaves
  <2>. QED
    BY <1>1, <1>2, <1>3, <1>4, <2>1
<1>5. CASE present
  <2>1. "constantTerm" \in Listed /\ "batched" \in Listed
    BY DEF Listed, Fields
  <2>2. todo' = <<"constantTerm", "batched">> \o rest
    BY <1>5 DEF rest, FlagLeaves
  <2>0. rest \in Seq(Listed) /\ Len(rest) = n /\ n \in Nat
    BY <1>2
  <2>3. /\ Len(todo') = n + 2 /\ todo'[1] = "constantTerm" /\ todo'[2] = "batched"
        /\ \A i \in 3..(n + 2) : todo'[i] = rest[i - 2]
    BY <2>0, <2>1, <2>2, PairBefore
  <2>4. \A i \in 1..Len(todo') : i = 1 \/ i = 2 \/ (i - 2 \in 1..n /\ todo'[i] = rest[i - 2])
    BY <1>2, <2>3
  <2>5. \A i \in 1..n : i + 2 \in 1..Len(todo') /\ todo'[i + 2] = rest[i]
    <3>1. \A i \in 1..n : i + 2 \in 3..(n + 2) /\ i + 2 - 2 = i
      BY <2>0
    <3>. QED
      BY <2>0, <2>3, <3>1
  <2>6. 1 \in 1..Len(todo') /\ 2 \in 1..Len(todo')
    BY <1>2, <2>3
  <2>7. \A i \in 1..Len(todo') : todo'[i] \in Both \/ \E j \in 1..Len(todo) : todo'[i] = todo[j]
    BY <1>2, <1>3, <2>3, <2>4 DEF Both
  <2>8. \A j \in 1..Len(todo) : todo[j] # "fine" => \E i \in 1..Len(todo') : todo'[i] = todo[j]
    <3>. TAKE j \in 1..Len(todo)
    <3>. HAVE todo[j] # "fine"
    <3>1. j # 1
      BY <1>1, <1>2
    <3>2. j - 1 \in 1..n /\ rest[j - 1] = todo[j]
      BY <1>3, <3>1
    <3>. QED
      BY <2>5, <3>2
  <2>9. \A f \in Both : \E i \in 1..Len(todo') : todo'[i] = f
    BY <2>3, <2>6 DEF Both
  <2>10. \E j \in 1..Len(todo) : todo[j] = "fine"
    BY <1>1, <1>2, <1>3
  <2>. QED
    BY <1>5, <2>7, <2>8, <2>9, <2>10
<1>. QED
  BY <1>4, <1>5

\* An item that is absent is what its field asks for, and stays absent.
LEMMA AbsentHeld ==
    ASSUME NEW kind, NEW f
    PROVE  WellHeld(kind, f, AbsentItem) /\ AsDecoded(f, AbsentItem) = AbsentItem
<1>1. AbsentItem.data = <<>> /\ Len(AbsentItem.data) = 0 /\ AbsentItem.shape = NoShape
  BY AbsentIsEmpty
<1>2. DOMAIN AbsentItem.data = {} /\ Len(AbsentItem.shape) = 0
  BY <1>1 DEF NoShape
<1>3. Entries(AbsentItem.shape) = 0
  <2>1. Entries(NoShape) = 0
    BY EntriesOf
  <2>. QED
    BY <1>1, <2>1
<1>4. WellHeld(kind, f, AbsentItem)
  BY <1>1, <1>2, <1>3 DEF WellHeld
<1>. QED
  BY <1>4, AbsentDecoded

\* The flag of a fine projection is the source's.
LEMMA FineFaithful ==
    ASSUME WireInv, SpentInv, FaithfulInv, ReadFinePair
    PROVE  FaithfulInv'
<1>. DEFINE n == Len(out)
            held == /\ n <= Len(source)
                    /\ source[n].items["constantTerm"].shape # NoShape
<1>1. PICK present \in BOOLEAN :
        /\ odd' = odd + (IF present = held THEN 0 ELSE 1)
        /\ todo' = IF present THEN <<"constantTerm", "batched">> \o Tail(todo) ELSE Tail(todo)
  BY DEF ReadFinePair
<1>2. /\ todo # <<>> /\ status = "reading" /\ Field = "fine"
      /\ UNCHANGED <<chain, source, out, status>>
  BY DEF ReadFinePair, Reading
<1>3. odd \in Nat /\ ProofOrdered(source)
  BY DEF FaithfulInv
<1>4. odd' \in Nat /\ (odd' = 0 => odd = 0 /\ present = held)
  <2>. HIDE DEF held
  <2>1. \A x \in Nat : x + 1 \in Nat /\ x + 1 # 0 /\ x + 0 = x
    OBVIOUS
  <2>2. CASE present = held
    BY <1>1, <1>3, <2>1, <2>2
  <2>3. CASE present # held
    BY <1>1, <1>3, <2>1, <2>3
  <2>. QED
    BY <2>2, <2>3
<1>5. ProofOrdered(source)'
  BY <1>2, <1>3
<1>6. CASE odd' # 0
  BY <1>4, <1>5, <1>6 DEF FaithfulInv
<1>7. CASE odd' = 0
  <2>1. odd = 0 /\ present = held
    BY <1>4, <1>7
  <2>2. FaithfulAbove /\ FaithfulRound
    BY <1>2, <2>1 DEF FaithfulInv
  <2>3. n \in Nat \ {0} /\ Len(source) \in Nat /\ n \in 1..Len(source) /\ Round = out[n]
    <3>1. n \in Nat \ {0} /\ Round = out[n]
      BY ReadingRound
    <3>2. Len(source) \in Nat \ {0}
      BY DEF WireInv, WireType, SenderProof
    <3>. QED
      BY <2>2, <3>1, <3>2 DEF FaithfulAbove
  <2>4. Round.kind = "Sumcheck" /\ source[n].kind = "Sumcheck"
    <3>1. Round.kind = "Sumcheck"
      BY <1>2, FineIsSumcheck
    <3>. QED
      BY <2>2, <2>3, <3>1 DEF FaithfulAbove
  <2>5. RoundOrdered(source[n])
    BY <1>3, <2>3 DEF ProofOrdered
  <2>6. /\ present <=> source[n].items["constantTerm"].shape # NoShape
        /\ present <=> source[n].items["batched"].shape # NoShape
    BY <2>1, <2>3, <2>4, <2>5 DEF RoundOrdered
  <2>7. /\ \A i \in 1..Len(todo') :
             \/ present /\ todo'[i] \in Both
             \/ \E j \in 1..Len(todo) : todo'[i] = todo[j]
        /\ \A j \in 1..Len(todo) : todo[j] # "fine" => \E i \in 1..Len(todo') : todo'[i] = todo[j]
        /\ present => \A f \in Both : \E i \in 1..Len(todo') : todo'[i] = f
        /\ \E j \in 1..Len(todo) : todo[j] = "fine"
    BY <1>1, FineTodo DEF FlagLeaves
  <2>8. Len(out') = n /\ Round' = Round /\ out' = out /\ source' = source /\ status' = status
    BY <1>2 DEF Round
  <2>9. FaithfulAbove'
    BY <2>2, <2>8 DEF FaithfulAbove, Faithful
  <2>10. \A f \in Fields : ~Pending(f)' => Faithful(n, f)
    <3>. SUFFICES ASSUME NEW f \in Fields, ~Pending(f)' PROVE Faithful(n, f)
      OBVIOUS
    <3>1. CASE f \in Both
      <4>1. ~present
        BY <2>7, <3>1 DEF Pending
      <4>2. source[n].items[f].shape = NoShape
        BY <2>6, <3>1, <4>1 DEF Both
      <4>3. source[n].items[f] = AbsentItem
        <5>1. Ordered(source[n].kind, f, source[n].items[f])
          BY <2>5 DEF RoundOrdered
        <5>2. Len(source[n].items[f].shape) = 0
          BY <4>2 DEF NoShape
        <5>. QED
          BY <5>1, <5>2 DEF Ordered
      <4>4. out[n].items[f] = AbsentItem
        <5>1. Pending(f)
          BY <2>7, <3>1 DEF Pending, Both
        <5>. QED
          BY <1>2, <2>3, <5>1 DEF SpentInv, RoundSoFar
      <4>. QED
        BY <4>3, <4>4, AbsentHeld DEF Faithful
    <3>2. CASE f \notin Both
      <4>1. f # "fine"
        BY DEF Fields
      <4>2. ~Pending(f)
        BY <2>7, <3>2, <4>1 DEF Pending, Both
      <4>. QED
        BY <2>2, <4>2 DEF FaithfulRound
    <3>. QED
      BY <3>1, <3>2
  <2>11. \A i \in 1..Len(todo') : todo'[i] \in Fields =>
           source[n].items[todo'[i]].shape # NoShape \/ Optional(Round.kind, todo'[i])
    <3>. SUFFICES ASSUME NEW i \in 1..Len(todo'), todo'[i] \in Fields
                  PROVE  source[n].items[todo'[i]].shape # NoShape \/ Optional(Round.kind, todo'[i])
      OBVIOUS
    <3>1. CASE present /\ todo'[i] \in Both
      BY <2>6, <3>1 DEF Both
    <3>2. CASE \E j \in 1..Len(todo) : todo'[i] = todo[j]
      BY <2>2, <3>2 DEF FaithfulRound
    <3>. QED
      BY <2>7, <3>1, <3>2
  <2>12. n < Len(source) => \E i \in 1..Len(todo') : todo'[i] = "descend"
    <3>. SUFFICES ASSUME n < Len(source) PROVE \E i \in 1..Len(todo') : todo'[i] = "descend"
      OBVIOUS
    <3>1. PICK j \in 1..Len(todo) : todo[j] = "descend"
      BY <2>2 DEF FaithfulRound
    <3>. QED
      BY <2>7, <3>1
  <2>13. FaithfulRound'
    <3>1. \A f \in Fields : ~Pending(f)' => Faithful(Len(out), f)'
      BY <2>8, <2>10 DEF Faithful
    <3>. QED
      BY <2>8, <2>11, <2>12, <3>1 DEF FaithfulRound, Optional
  <2>. QED
    BY <1>2, <1>4, <1>5, <2>8, <2>9, <2>13 DEF FaithfulInv
<1>. QED
  BY <1>6, <1>7

\* The fields of a round of the source, before any is read.
LEMMA RoundStarts ==
    ASSUME NEW proof, ProofOrdered(proof), Len(proof) \in Nat, NEW r \in 1..Len(proof),
           NEW kind, kind = proof[r].kind, NEW F, F = DecoderFields(kind)
    PROVE  /\ kind \in ProofKinds
           /\ \A f \in Fields : f \notin FieldSet(kind) =>
                /\ AsDecoded(f, proof[r].items[f]) = AbsentItem
                /\ WellHeld(kind, f, proof[r].items[f])
           /\ \A i \in 1..Len(F) : F[i] \in Fields =>
                proof[r].items[F[i]].shape # NoShape \/ Optional(kind, F[i])
           /\ r < Len(proof) => \E i \in 1..Len(F) : F[i] = "descend"
<1>1. RoundOrdered(proof[r]) /\ kind \in ProofKinds
  BY DEF ProofOrdered, RoundOrdered
<1>2. ASSUME NEW f \in Fields, f \notin FieldSet(kind)
      PROVE  /\ AsDecoded(f, proof[r].items[f]) = AbsentItem
             /\ WellHeld(kind, f, proof[r].items[f])
  <2>1. proof[r].items[f] = AbsentItem
    BY <1>1, <1>2 DEF RoundOrdered
  <2>. QED
    BY <2>1, AbsentHeld
<1>3. /\ F = EncoderFields(kind)
      /\ \A i \in 1..Len(F) : F[i] # "constantTerm"
      /\ \A i \in 1..Len(F) : F[i] = "fine" => \A j \in 1..Len(F) : F[j] # "batched"
  BY <1>1, FieldsOfKind
<1>4. kind = "Sumcheck" => \A i \in 1..Len(F) : F[i] \notin Both
  <2>. SUFFICES ASSUME kind = "Sumcheck" PROVE \A i \in 1..Len(F) : F[i] \notin Both
    OBVIOUS
  <2>1. F = <<"polys", "z0", "z1", "norm", "mostInnerNorm", "projectionNorm", "opening",
              "coarse", "fine", "constantTermClaims", "next", "descend">>
    BY DEF DecoderFields
  <2>2. 9 \in 1..Len(F) /\ F[9] = "fine"
    BY <2>1
  <2>. QED
    BY <1>3, <2>2 DEF Both
<1>5. ASSUME NEW i \in 1..Len(F), F[i] \in Fields
      PROVE  proof[r].items[F[i]].shape # NoShape \/ Optional(kind, F[i])
  <2>1. F[i] \in FieldSet(kind)
    BY <1>3 DEF FieldSet
  <2>. QED
    BY <1>1, <1>4, <1>5, <2>1 DEF RoundOrdered
<1>6. ASSUME r < Len(proof)
      PROVE  \E i \in 1..Len(F) : F[i] = "descend"
  <2>1. kind \in {"Sumcheck", "Intermediate"}
    <3>1. r \in 1..(Len(proof) - 1)
      BY <1>6
    <3>. QED
      BY <3>1 DEF ProofOrdered, Encodable
  <2>2. CASE kind = "Sumcheck"
    <3>1. F = <<"polys", "z0", "z1", "norm", "mostInnerNorm", "projectionNorm", "opening",
                "coarse", "fine", "constantTermClaims", "next", "descend">>
      BY <2>2 DEF DecoderFields
    <3>2. 12 \in 1..Len(F) /\ F[12] = "descend"
      BY <3>1
    <3>. QED
      BY <3>2
  <2>3. CASE kind = "Intermediate"
    <3>1. F = <<"opening", "polys", "z0", "z1", "norm", "next", "image", "batched", "descend">>
      BY <2>3 DEF DecoderFields
    <3>2. 9 \in 1..Len(F) /\ F[9] = "descend"
      BY <3>1
    <3>. QED
      BY <3>2
  <2>. QED
    BY <2>1, <2>2, <2>3
<1>. QED
  BY <1>1, <1>2, <1>5, <1>6

\* Where only the flag of the next round is left, the round has been read whole.
LEMMA WholeFaithful ==
    ASSUME WireInv, SpentInv, FaithfulInv, odd = 0, status = "reading", todo # <<>>, Field = "descend"
    PROVE  /\ \A f \in Fields : ~Pending(f)
           /\ \A r \in 1..Len(out) : \A f \in Fields : Faithful(r, f)
           /\ Len(out) \in Nat \ {0} /\ Len(source) \in Nat \ {0} /\ Len(out) <= Len(source)
<1>1. Field = todo[1] /\ Len(todo) = 1
  <2>1. Field = todo[1]
    BY TodoFacts DEF WireInv
  <2>. QED
    BY <2>1, HeadOnce
<1>2. \A g \in Fields : ~Pending(g)
  <2>1. \A i \in 1..Len(todo) : todo[i] = "descend"
    BY <1>1
  <2>2. \A g \in Fields : g # "descend"
    BY DEF Fields
  <2>. QED
    BY <2>1, <2>2 DEF Pending
<1>3. FaithfulAbove /\ FaithfulRound
  BY DEF FaithfulInv
<1>4. Len(out) \in Nat \ {0} /\ Len(source) \in Nat \ {0}
  BY ReadingRound DEF WireInv, WireType, SenderProof
<1>5. \A r \in 1..Len(out) : r = Len(out) \/ r \in 1..(Len(out) - 1)
  BY <1>4
<1>. QED
  BY <1>2, <1>3, <1>4, <1>5 DEF FaithfulAbove, FaithfulRound

\* The flag of the next round, and its tag, are the source's.
LEMMA NextFaithful ==
    ASSUME WireInv, SpentInv, AllowanceInv, FaithfulInv, ReadNext
    PROVE  FaithfulInv'
<1>. DEFINE n == Len(out)
            Odd(present, kind) ==
              IF n + 1 <= Len(source) THEN (IF present /\ kind = source[n + 1].kind THEN 0 ELSE 1)
              ELSE (IF present THEN 1 ELSE 0)
<1>1. PICK present \in BOOLEAN, kind \in Kinds \cup {"none"} :
        /\ odd' = odd + Odd(present, kind)
        /\ IF ~present
           THEN todo' = <<>> /\ UNCHANGED <<out, roundsLeft, status>>
           ELSE IF RoundRefused \/ kind = "none"
           THEN status' = "malformed" /\ UNCHANGED <<out, roundsLeft, todo>>
           ELSE /\ roundsLeft' = roundsLeft - 1
                /\ out' = Append(out, [kind |-> kind, items |-> NoItems])
                /\ todo' = DecoderFields(kind)
                /\ UNCHANGED status
  BY DEF ReadNext
<1>2. /\ todo # <<>> /\ status = "reading" /\ Field = "descend"
      /\ UNCHANGED <<chain, source>>
  BY DEF ReadNext, Reading
<1>3. odd \in Nat /\ ProofOrdered(source)
  BY DEF FaithfulInv
<1>4. odd' \in Nat /\ (odd' = 0 => odd = 0 /\ Odd(present, kind) = 0)
  <2>1. Odd(present, kind) \in {0, 1}
    OBVIOUS
  <2>. HIDE DEF Odd
  <2>2. \A x \in Nat, y \in {0, 1} : x + y \in Nat /\ (x + y = 0 => x = 0 /\ y = 0)
    OBVIOUS
  <2>. QED
    BY <1>1, <1>3, <2>1, <2>2
<1>5. ProofOrdered(source)'
  BY <1>2, <1>3
<1>6. CASE odd' # 0
  BY <1>4, <1>5, <1>6 DEF FaithfulInv
<1>7. CASE odd' = 0
  <2>1. odd = 0 /\ Odd(present, kind) = 0
    BY <1>4, <1>7
  <2>2. FaithfulAbove /\ FaithfulRound
    BY <1>2, <2>1 DEF FaithfulInv
  <2>3. /\ \A f \in Fields : ~Pending(f)
        /\ \A r \in 1..n : \A f \in Fields : Faithful(r, f)
        /\ n \in Nat \ {0} /\ Len(source) \in Nat \ {0} /\ n <= Len(source)
    BY <1>2, <2>1, WholeFaithful
  <2>4. CASE ~(n + 1 <= Len(source))
    <3>1. ~present
      BY <2>1, <2>4
    <3>2. todo' = <<>> /\ UNCHANGED <<out, source, status>>
      BY <1>1, <1>2, <3>1
    <3>3. FaithfulAbove'
      BY <2>2, <3>2 DEF FaithfulAbove, Faithful
    <3>4. \A f \in Fields : Faithful(Len(out), f)'
      BY <2>3, <3>2 DEF Faithful
    <3>5. ~(Len(out') < Len(source'))
      BY <2>3, <2>4, <3>2
    <3>6. FaithfulRound'
      BY <3>2, <3>4, <3>5 DEF FaithfulRound
    <3>. QED
      BY <1>2, <1>4, <1>5, <3>2, <3>3, <3>6 DEF FaithfulInv
  <2>5. CASE n + 1 <= Len(source)
    <3>1. present /\ kind = source[n + 1].kind
      BY <2>1, <2>5
    <3>2. n + 1 \in 1..Len(source)
      BY <2>3, <2>5
    <3>. DEFINE F == DecoderFields(kind)
    <3>3. /\ kind \in ProofKinds
          /\ \A f \in Fields : f \notin FieldSet(kind) =>
               /\ AsDecoded(f, source[n + 1].items[f]) = AbsentItem
               /\ WellHeld(kind, f, source[n + 1].items[f])
          /\ \A i \in 1..Len(F) : F[i] \in Fields =>
               source[n + 1].items[F[i]].shape # NoShape \/ Optional(kind, F[i])
          /\ n + 1 < Len(source) => \E i \in 1..Len(F) : F[i] = "descend"
      <4>. DEFINE r == n + 1
      <4>1. r \in 1..Len(source) /\ Len(source) \in Nat /\ kind = source[r].kind
        BY <2>3, <3>1, <3>2
      <4>. HIDE DEF r, F
      <4>2. /\ kind \in ProofKinds
            /\ \A f \in Fields : f \notin FieldSet(kind) =>
                 /\ AsDecoded(f, source[r].items[f]) = AbsentItem
                 /\ WellHeld(kind, f, source[r].items[f])
            /\ \A i \in 1..Len(F) : F[i] \in Fields =>
                 source[r].items[F[i]].shape # NoShape \/ Optional(kind, F[i])
            /\ r < Len(source) => \E i \in 1..Len(F) : F[i] = "descend"
        BY <1>3, <4>1, RoundStarts DEF F
      <4>. QED
        BY <4>2 DEF r
    <3>4. kind # "none"
      BY <3>3 DEF ProofKinds, Kinds
    <3>5. CASE RoundRefused
      <4>1. status' = "malformed" /\ UNCHANGED <<out, source>>
        BY <1>1, <1>2, <3>1, <3>5
      <4>2. n + 0 = Allowance.rounds
        BY <3>5 DEF RoundRefused, AllowanceInv, AllowanceHolds
      <4>3. ~(Len(source) <= Allowance.rounds)
        BY <2>3, <2>5, <4>2
      <4>4. ~Transmissible(source)
        BY <4>3 DEF Transmissible
      <4>5. ~Transmissible(source)'
        BY <1>2, <4>4, TransmissibleKept
      <4>6. FaithfulAbove'
        BY <2>2, <4>1 DEF FaithfulAbove, Faithful
      <4>. QED
        BY <1>4, <1>5, <4>1, <4>5, <4>6 DEF FaithfulInv
    <3>6. CASE ~RoundRefused
      <4>. DEFINE round == [kind |-> kind, items |-> NoItems]
      <4>1. out' = Append(out, round) /\ todo' = F /\ status' = status /\ source' = source
        BY <1>1, <1>2, <3>1, <3>4, <3>6
      <4>2. round \in DecodedRounds /\ round.kind = kind
        BY <3>3, NewRound
      <4>3. \A f \in Fields : round.items[f] = AbsentItem
        BY NothingInIt
      <4>4. out \in Seq(DecodedRounds)
        BY ReadingRound
      <4>. HIDE DEF round, n, F, Odd, DecodedRounds
      <4>5. /\ Len(out') = n + 1 /\ \A r \in 1..n : out'[r] = out[r]
            /\ out'[n + 1] = round
        BY <4>1, <4>2, <4>4, AppendProperties DEF n
      <4>6. \A r \in 1..(n + 1) : r = n + 1 \/ r \in 1..n
        BY <2>3
      <4>7. FaithfulAbove'
        <5>1. \A r \in 1..(n + 1) : out'[r].kind = source[r].kind
          BY <2>2, <3>1, <4>2, <4>5, <4>6 DEF FaithfulAbove, n
        <5>2. \A r \in 1..n : \A f \in Fields : Faithful(r, f)'
          BY <2>3, <4>1, <4>5 DEF Faithful
        <5>3. Len(out') - 1 = n
          BY <2>3, <4>5
        <5>. QED
          BY <2>5, <4>1, <4>5, <5>1, <5>2, <5>3 DEF FaithfulAbove
      <4>8. Round' = round
        BY <4>5 DEF Round
      <4>9. \A f \in Fields : ~Pending(f)' => Faithful(Len(out), f)'
        <5>. SUFFICES ASSUME NEW f \in Fields, ~Pending(f)' PROVE Faithful(Len(out), f)'
          OBVIOUS
        <5>1. f \notin FieldSet(kind)
          BY <3>3, <4>1, AllPending DEF Pending, F
        <5>2. out'[n + 1].items[f] = AsDecoded(f, source'[n + 1].items[f])
          BY <3>3, <4>1, <4>3, <4>5, <5>1
        <5>3. WellHeld(source'[n + 1].kind, f, source'[n + 1].items[f])
          BY <3>1, <3>3, <4>1, <5>1
        <5>. QED
          BY <4>5, <5>2, <5>3 DEF Faithful
      <4>10. \A i \in 1..Len(todo') : todo'[i] \in Fields =>
               source'[Len(out')].items[todo'[i]].shape # NoShape \/ Optional(Round'.kind, todo'[i])
        BY <3>3, <4>1, <4>2, <4>5, <4>8
      <4>11. Len(out') < Len(source') => \E i \in 1..Len(todo') : todo'[i] = "descend"
        BY <3>3, <4>1, <4>5
      <4>12. FaithfulRound'
        BY <4>9, <4>10, <4>11 DEF FaithfulRound, Optional
      <4>. QED
        BY <1>2, <1>4, <1>5, <4>1, <4>7, <4>12 DEF FaithfulInv
    <3>. QED
      BY <3>5, <3>6
  <2>. QED
    BY <2>4, <2>5
<1>. QED
  BY <1>6, <1>7

\* Where the stream ends nothing is left of the source.
LEMMA FinishFaithful ==
    ASSUME WireInv, FaithfulInv, Finish
    PROVE  FaithfulInv'
<1>1. PICK more \in BOOLEAN : /\ odd' = odd + (IF more THEN 1 ELSE 0)
                              /\ status' = IF more THEN "malformed" ELSE "accepted"
  BY DEF Finish
<1>2. status = "reading" /\ todo' = todo /\ UNCHANGED <<chain, source, out>>
  BY DEF Finish
<1>3. odd \in Nat /\ ProofOrdered(source)
  BY DEF FaithfulInv
<1>4. odd' \in Nat /\ (odd' = 0 => odd = 0 /\ ~more)
  BY <1>1, <1>3
<1>5. ProofOrdered(source)'
  BY <1>2, <1>3
<1>6. CASE odd' # 0
  BY <1>4, <1>5, <1>6 DEF FaithfulInv
<1>7. CASE odd' = 0
  <2>1. odd = 0 /\ ~more
    BY <1>4, <1>7
  <2>2. FaithfulAbove /\ FaithfulRound
    BY <1>2, <2>1 DEF FaithfulInv
  <2>3. Round' = Round /\ \A g : Pending(g)' <=> Pending(g)
    BY <1>2 DEF Round, Pending
  <2>4. \A r, f : Faithful(r, f) => Faithful(r, f)'
    BY <1>2 DEF Faithful
  <2>5. FaithfulAbove'
    BY <1>2, <2>2, <2>4 DEF FaithfulAbove
  <2>6. FaithfulRound'
    <3>1. \A f \in Fields : ~Pending(f)' => Faithful(Len(out), f)'
      BY <1>2, <2>2, <2>3 DEF FaithfulRound, Faithful
    <3>. QED
      BY <1>2, <2>2, <2>3, <3>1 DEF FaithfulRound, Optional
  <2>7. status' # "malformed"
    BY <1>1, <2>1
  <2>. QED
    BY <1>4, <1>5, <2>5, <2>6, <2>7 DEF FaithfulInv
<1>. QED
  BY <1>6, <1>7

\* Every step keeps what has been decoded the source's.
LEMMA FaithfulKept ==
    ASSUME WireInv, AllowanceInv, SpentInv, FaithfulInv, [WireNext]_wireVars
    PROVE  FaithfulInv'
<1>1. CASE UNCHANGED wireVars
  <2>1. UNCHANGED <<chain, source, todo, out, odd, status>>
    BY <1>1 DEF wireVars
  <2>2. Round' = Round /\ \A g : Pending(g)' <=> Pending(g)
    BY <2>1 DEF Round, Pending
  <2>3. \A r, f : Faithful(r, f)' <=> Faithful(r, f)
    BY <2>1 DEF Faithful
  <2>4. FaithfulAbove => FaithfulAbove'
    BY <2>1, <2>3 DEF FaithfulAbove
  <2>5. FaithfulRound => FaithfulRound'
    <3>1. (\A f \in Fields : ~Pending(f) => Faithful(Len(out), f))
            => \A f \in Fields : ~Pending(f)' => Faithful(Len(out), f)'
      BY <2>1, <2>2 DEF Faithful
    <3>. QED
      BY <2>1, <2>2, <3>1 DEF FaithfulRound, Optional
  <2>6. ~Transmissible(source) => ~Transmissible(source)'
    BY <2>1, TransmissibleKept
  <2>7. ProofOrdered(source)' <=> ProofOrdered(source)
    BY <2>1
  <2>. QED
    BY <2>1, <2>4, <2>5, <2>6, <2>7 DEF FaithfulInv
<1>2. CASE Decided
  BY <1>1, <1>2 DEF Decided
<1>3. CASE ReadPolys \/ ReadRing \/ ReadSlice \/ ReadMatrix \/ ReadNextCommitment
  BY <1>3, FieldFaithful
<1>4. CASE ReadFinePair
  BY <1>4, FineFaithful
<1>5. CASE ReadNext
  BY <1>5, NextFaithful
<1>6. CASE Finish
  BY <1>6, FinishFaithful
<1>. QED
  BY <1>1, <1>2, <1>3, <1>4, <1>5, <1>6 DEF WireNext

\* Before anything is read it is.
LEMMA FaithfulFirst ==
    ASSUME WireInit
    PROVE  FaithfulInv
<1>1. chain \in Chains /\ source \in Sources(chain)
  BY DEF WireInit
<1>2. SenderProof(source) /\ ProofOrdered(source)
  BY <1>1, SourcesType, SourcesOrdered
<1>3. Len(source) \in Nat \ {0} /\ 1 \in 1..Len(source)
  BY <1>2 DEF SenderProof
<1>. DEFINE kind == source[1].kind
            F == DecoderFields(kind)
            round == [kind |-> kind, items |-> NoItems]
<1>4. out = <<round>> /\ todo = F /\ odd = 0 /\ status = "reading"
  BY DEF WireInit
<1>5. round.kind = kind /\ \A f \in Fields : round.items[f] = AbsentItem
  BY NothingInIt
<1>6. /\ kind \in ProofKinds
      /\ \A f \in Fields : f \notin FieldSet(kind) =>
           /\ AsDecoded(f, source[1].items[f]) = AbsentItem
           /\ WellHeld(kind, f, source[1].items[f])
      /\ \A i \in 1..Len(F) : F[i] \in Fields =>
           source[1].items[F[i]].shape # NoShape \/ Optional(kind, F[i])
      /\ 1 < Len(source) => \E i \in 1..Len(F) : F[i] = "descend"
  <2>. HIDE DEF F
  <2>. QED
    BY <1>2, <1>3, RoundStarts DEF F
<1>. HIDE DEF F, round
<1>7. Len(out) = 1 /\ out[1] = round /\ Round = round
  BY <1>4 DEF Round
<1>8. FaithfulAbove
  <2>1. \A r \in 1..1 : r = 1
    OBVIOUS
  <2>2. 1..(1 - 1) = {}
    OBVIOUS
  <2>. QED
    BY <1>3, <1>5, <1>7, <2>1, <2>2 DEF FaithfulAbove
<1>9. \A f \in Fields : ~Pending(f) => Faithful(1, f)
  <2>1. \A f \in Fields : ~Pending(f) => f \notin FieldSet(kind)
    BY <1>4, <1>6, AllPending DEF Pending, F
  <2>. QED
    BY <1>5, <1>6, <1>7, <2>1 DEF Faithful
<1>10. FaithfulRound
  BY <1>4, <1>5, <1>6, <1>7, <1>9 DEF FaithfulRound
<1>. QED
  BY <1>2, <1>4, <1>8, <1>10 DEF FaithfulInv

-----------------------------------------------------------------------------
\* A round whose every item is as it is decoded is the round, normalised.
LEMMA NormalisedRound ==
    ASSUME NEW P, DOMAIN P = {"kind", "items"}, DOMAIN P.items = Fields,
           NEW round \in DecodedRounds, round.kind = P.kind,
           \A g \in Fields : round.items[g] = AsDecoded(g, P.items[g])
    PROVE  round = [P EXCEPT !.items["polys"].data =
                      [i \in DOMAIN @ |-> [@[i] EXCEPT !.terms = P.items["polys"].data[i].degree]]]
<1>. DEFINE polys == P.items["polys"]
            D == [i \in DOMAIN polys.data |-> [polys.data[i] EXCEPT !.terms = polys.data[i].degree]]
            item == [polys EXCEPT !.data = D]
            items == [P.items EXCEPT !["polys"] = item]
            N == [P EXCEPT !.items = items]
<1>1. AsDecoded("polys", polys) = item
  BY DEF AsDecoded
<1>2. \A g \in Fields : g # "polys" => AsDecoded(g, P.items[g]) = P.items[g]
  BY DEF AsDecoded
<1>3. "polys" \in Fields
  BY DEF Fields
<1>4. round = [kind |-> round.kind, items |-> round.items] /\ DOMAIN round.items = Fields
      /\ round.items = [g \in Fields |-> round.items[g]]
  BY DEF DecodedRounds
<1>. HIDE DEF item
<1>5. items = [g \in Fields |-> IF g = "polys" THEN item ELSE P.items[g]]
  OBVIOUS
<1>6. \A g \in Fields : round.items[g] = IF g = "polys" THEN item ELSE P.items[g]
  BY <1>1, <1>2
<1>7. round.items = items
  BY <1>4, <1>5, <1>6
<1>. HIDE DEF items
<1>8. N = [kind |-> P.kind, items |-> items]
  OBVIOUS
<1>9. round = N
  BY <1>4, <1>7, <1>8
<1>. QED
  BY <1>9 DEF items, item

\* An honest prover's proof may be sent.
LEMMA HonestSent ==
    ASSUME chain \in Chains, source = HonestProof(chain)
    PROVE  /\ Transmissible(source) /\ Allowance = AllowanceOf(chain)
           /\ Declared(source) = Allowance.cells /\ Len(source) = Allowance.rounds
<1>1. Len(chain) \in Nat \ {0} /\ DOMAIN chain = 1..Len(chain) /\ chain[1].kind \in Kinds
  <2>1. chain \in Seq(RoundConfigs) /\ Len(chain) \in Nat \ {0} /\ chain[1].kind = "Sumcheck"
    BY ChainType
  <2>. QED
    BY <2>1, LenProperties DEF Kinds
<1>2. /\ Len(source) = Len(chain) /\ DOMAIN source = 1..Len(chain)
      /\ \A r \in 1..Len(chain) : \A f \in Fields :
           WellHeld(source[r].kind, f, source[r].items[f])
      /\ Declared(source) = AllowanceOf(chain).cells
  BY HonestRounds
<1>3. source[1].kind = chain[1].kind
  BY <1>1 DEF HonestProof
<1>4. Allowance = AllowanceOf(chain)
  BY <1>1, <1>3 DEF Allowance, Kinds
<1>5. AllowanceOf(chain).rounds = Len(chain) /\ AllowanceOf(chain).cells \in Nat
  BY <1>4, AllowanceType DEF AllowanceOf
<1>6. Declared(source) <= Allowance.cells /\ Len(source) <= Allowance.rounds
  <2>. HIDE DEF Declared, AllowanceOf, Allowance
  <2>. QED
    BY <1>1, <1>2, <1>4, <1>5
<1>7. Transmissible(source)
  <2>. HIDE DEF Declared, AllowanceOf, Allowance
  <2>. QED
    BY <1>2, <1>6 DEF Transmissible
<1>. QED
  BY <1>2, <1>4, <1>5, <1>7

\* And at the end it is all of the source, and no more than the allowance.
LEMMA FaithfulCovers ==
    ASSUME WireInv, AllowanceInv, SpentInv, FaithfulInv
    PROVE  DecodesWhatWasEncoded
<1>. SUFFICES ASSUME odd = 0, status # "reading"
              PROVE  /\ (status = "accepted") <=> Transmissible(source)
                     /\ status = "accepted" => out = Normalised(source)
                     /\ source = HonestProof(chain) => left = 0 /\ roundsLeft = 0
  BY Zenon DEF DecodesWhatWasEncoded, Transmissible
<1>1. status = "accepted" \/ status = "malformed"
  BY DEF WireInv, WireType
<1>2. chain \in Chains
  BY DEF AllowanceInv
<1>3. CASE status = "malformed"
  <2>1. ~Transmissible(source)
    BY <1>3 DEF FaithfulInv
  <2>2. source # HonestProof(chain)
    BY <1>2, <2>1, HonestSent
  <2>. QED
    BY <1>3, <2>1, <2>2
<1>4. CASE status = "accepted"
  <2>. DEFINE n == Len(out)
  <2>1. SenderProof(source) /\ Counted(source) /\ Len(source) \in Nat \ {0}
        /\ DOMAIN source = 1..Len(source)
        /\ \A r \in 1..Len(source) : \A f \in Fields : source[r].items[f] \in WireItems(f)
    BY SenderCounted DEF WireInv, WireType, SenderProof
  <2>2. out \in Seq(DecodedRounds) /\ n \in Nat \ {0} /\ DOMAIN out = 1..n /\ n # 0
        /\ \A r \in 1..n : out[r] \in DecodedRounds
    BY ReadingRound, LenProperties DEF WireInv, WireType
  <2>3. FaithfulAbove /\ FaithfulRound /\ todo = <<>> /\ left + Declared(out) = Allowance.cells
    BY <1>4 DEF FaithfulInv, SpentInv
  <2>4. \A i \in 1..Len(todo) : FALSE
    BY <2>3
  <2>5. n = Len(source)
    <3>1. n <= Len(source) /\ ~(n < Len(source))
      BY <2>3, <2>4 DEF FaithfulAbove, FaithfulRound
    <3>2. \A x, y \in Nat : x <= y /\ ~(x < y) => x = y
      OBVIOUS
    <3>3. n \in Nat /\ Len(source) \in Nat
      BY <2>1, <2>2
    <3>. HIDE DEF n
    <3>. QED
      BY <3>1, <3>2, <3>3
  <2>6. \A r \in 1..n : \A f \in Fields : Faithful(r, f)
    <3>1. \A f \in Fields : ~Pending(f)
      BY <2>4 DEF Pending
    <3>2. \A r \in 1..n : r = n \/ r \in 1..(n - 1)
      <4>1. \A m \in Nat \ {0} : \A r \in 1..m : r = m \/ r \in 1..(m - 1)
        OBVIOUS
      <4>2. n \in Nat \ {0}
        BY <2>2
      <4>. HIDE DEF n
      <4>. QED
        BY <4>1, <4>2
    <3>. QED
      BY <2>3, <3>1, <3>2 DEF FaithfulAbove, FaithfulRound
  <2>7. \A r \in 1..n : \A f \in Fields : Len(out[r].items[f].data) = Len(source[r].items[f].data)
    BY <2>1, <2>5, <2>6, AsDecodedIs DEF Faithful
  <2>8. Counted(out)
    BY <2>2, DecodedCounted
  <2>9. \A r \in 1..n : \A f \in Fields : Len(source[r].items[f].data) \in Nat
    BY <2>1, <2>5 DEF Counted, Measured
  <2>10. Declared(out) <= Declared(source) /\ Declared(out) \in Nat /\ Declared(source) \in Nat
    <3>1. \A r \in 1..n : \A f \in Fields : Len(out[r].items[f].data) <= Len(source[r].items[f].data)
      BY <2>7, <2>9
    <3>2. Len(out) <= Len(source)
      BY <2>2, <2>5
    <3>. QED
      BY <2>1, <2>8, <3>1, <3>2, DeclaredMonotone
  <2>11. Declared(source) <= Declared(out)
    <3>1. \A r \in 1..Len(source) : \A f \in Fields :
            Len(source[r].items[f].data) <= Len(out[r].items[f].data)
      BY <2>5, <2>7, <2>9
    <3>2. Len(source) <= Len(out)
      BY <2>2, <2>5
    <3>. QED
      BY <2>1, <2>8, <3>1, <3>2, DeclaredMonotone
  <2>12. left \in Nat /\ roundsLeft \in Nat /\ n + roundsLeft = Allowance.rounds
    BY DEF AllowanceInv, AllowanceHolds, WireInv, WireType
  <2>13. Declared(source) = Declared(out)
    <3>. HIDE DEF Declared
    <3>. QED
      BY <2>10, <2>11
  <2>14. Transmissible(source)
    <3>1. Declared(source) <= Allowance.cells /\ Len(source) <= Allowance.rounds
      <4>. HIDE DEF Declared, Allowance
      <4>1. \A a, b, c : a \in Nat /\ b \in Nat /\ a + b = c => b <= c
        OBVIOUS
      <4>2. Declared(source) <= Allowance.cells
        BY <2>3, <2>10, <2>12, <2>13, <4>1
      <4>3. n <= Allowance.rounds
        BY <2>2, <2>12
      <4>. QED
        BY <2>5, <4>2, <4>3
    <3>2. \A r \in DOMAIN source : \A f \in Fields :
            WellHeld(source[r].kind, f, source[r].items[f])
      BY <2>1, <2>5, <2>6 DEF Faithful
    <3>. QED
      BY <3>1, <3>2 DEF Transmissible
  <2>15. out = Normalised(source)
    <3>. DEFINE N(r) == [source[r] EXCEPT !.items["polys"].data =
                          [i \in DOMAIN @ |->
                             [@[i] EXCEPT !.terms = source[r].items["polys"].data[i].degree]]]
    <3>1. Normalised(source) = [r \in DOMAIN source |-> N(r)]
      BY DEF Normalised
    <3>2. \A r \in 1..n : out[r] = N(r)
      <4>. SUFFICES ASSUME NEW r \in 1..n PROVE out[r] = N(r)
        OBVIOUS
      <4>. DEFINE P == source[r]
                  round == out[r]
      <4>1. DOMAIN P = {"kind", "items"} /\ DOMAIN P.items = Fields
        BY <2>1, <2>5 DEF SenderProof
      <4>2. round \in DecodedRounds /\ round.kind = P.kind
        BY <2>2, <2>3 DEF FaithfulAbove
      <4>3. \A g \in Fields : round.items[g] = AsDecoded(g, P.items[g])
        BY <2>6 DEF Faithful
      <4>. HIDE DEF P, round
      <4>4. round = [P EXCEPT !.items["polys"].data =
                       [i \in DOMAIN @ |-> [@[i] EXCEPT !.terms = P.items["polys"].data[i].degree]]]
        BY <4>1, <4>2, <4>3, NormalisedRound
      <4>. QED
        BY <4>4 DEF P, round
    <3>. HIDE DEF N
    <3>3. out = [r \in 1..n |-> out[r]]
      BY <2>2
    <3>. QED
      BY <2>1, <2>5, <3>1, <3>2, <3>3
  <2>16. ASSUME source = HonestProof(chain)
         PROVE  left = 0 /\ roundsLeft = 0
    <3>1. Declared(source) = Allowance.cells /\ Len(source) = Allowance.rounds
      BY <1>2, <2>16, HonestSent
    <3>. HIDE DEF Declared, Allowance
    <3>2. \A a, b : a \in Nat /\ b \in Nat /\ a + b = b => a = 0
      OBVIOUS
    <3>3. left + Declared(out) = Declared(out)
      BY <2>3, <2>13, <3>1
    <3>4. left = 0
      BY <2>10, <2>12, <3>2, <3>3
    <3>5. roundsLeft = 0
      BY <2>1, <2>5, <2>12, <3>1
    <3>. QED
      BY <3>4, <3>5
  <2>. QED
    BY <1>4, <2>14, <2>15, <2>16
<1>. QED
  BY <1>1, <1>3, <1>4

\* What to_bytes writes for a proof, from_bytes_for decodes to that proof, up to
\* leading zeros of polynomials, for every chain, ring and proof a sender may
\* hold; it refuses it only where a part of it is not what its field asks for or
\* where it declares more coefficients or rounds than the configuration does; and
\* an honest prover's proof is accepted, and leaves nothing of the allowance.
THEOREM DecoderReturnsTheSource ==
    WireSpec => []DecodesWhatWasEncoded
<1>1. WireInit => WireInv /\ SpentInv /\ AllowanceInv /\ FaithfulInv
  BY InitInv, SpentFirst, FaithfulFirst
<1>2. WireInv /\ SpentInv /\ AllowanceInv /\ FaithfulInv /\ [WireNext]_wireVars
        => WireInv' /\ SpentInv' /\ AllowanceInv' /\ FaithfulInv'
  BY NextInv, SpentKept, AllowanceKept, FaithfulKept
<1>3. WireInv /\ SpentInv /\ AllowanceInv /\ FaithfulInv => DecodesWhatWasEncoded
  BY FaithfulCovers
<1>. QED
  BY <1>1, <1>2, <1>3, PTL DEF WireSpec
=============================================================================

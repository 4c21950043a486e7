---------------------------- MODULE Wire_proofs ----------------------------
(***************************************************************************)
(* What the decoder of a proof accepts and allocates, for every chain, any *)
(* number of departures of the stream from the encoder's and any sizes of  *)
(* rings and polynomials.                                                  *)
(*                                                                         *)
(* The invariant WireInv says that what has been read is what the encoder  *)
(* would write for what has been decoded: for the rounds above, whole, and *)
(* for the fields read of the round being read, with the flag of a fine    *)
(* projection ahead of its two roots.  Its lemmas are on the encoder: how  *)
(* a section grows by a field and by a round, and what it depends on; and  *)
(* on a field: an arrival the decoder admits is written again as it was.   *)
(***************************************************************************)
EXTENDS Wire, RoundItems_proofs, FiniteSetTheorems

\* Concatenation, of all sequences over one set.
LEMMA Associative ==
    ASSUME NEW S
    PROVE  \A x, y, z \in Seq(S) : (x \o y) \o z = x \o (y \o z)
<1>. TAKE x, y, z \in Seq(S)
<1>. QED
  BY ConcatAssociative

\* A function that satisfies the equation by which FlattenSeq is defined.
Flattening(seqs, n, f) ==
    f = [i \in 1..n |-> IF i = 1 THEN seqs[i] ELSE f[i - 1] \o seqs[i]]

\* Such a function exists, by induction over its length.
LEMMA FlatteningExists ==
    ASSUME NEW S, NEW seqs \in Seq(Seq(S)), NEW n \in 1..Len(seqs)
    PROVE  \E f \in [1..n -> Seq(S)] : Flattening(seqs, n, f)
<1>. DEFINE Holds(k) == \E f \in [1..k -> Seq(S)] : Flattening(seqs, k, f)
            Wrong == {k \in 1..Len(seqs) : ~Holds(k)}
<1>1. Len(seqs) \in Nat /\ \A i \in 1..Len(seqs) : seqs[i] \in Seq(S)
  BY LenProperties, ElementOfSeq
<1>2. SUFFICES ASSUME Wrong # {} PROVE FALSE
  OBVIOUS
<1>3. Wrong \subseteq Nat
  BY <1>1
<1>. HIDE DEF Wrong
<1>4. PICK k \in Wrong : \A j \in Wrong : k <= j
  BY <1>2, <1>3, LeastNatural
<1>5. CASE k = 1
  <2>. DEFINE f == [i \in 1..1 |-> seqs[i]]
  <2>1. f \in [1..1 -> Seq(S)] /\ Flattening(seqs, 1, f)
    BY <1>1, <1>5 DEF Flattening
  <2>. QED
    BY <2>1, <1>4, <1>5 DEF Wrong
<1>6. CASE k # 1
  <2>. HIDE DEF Holds
  <2>1. k - 1 \in 1..Len(seqs) /\ k - 1 \notin Wrong /\ k \in 1..Len(seqs) /\ k \in Nat
    BY <1>1, <1>4, <1>6 DEF Wrong
  <2>. USE DEF Holds
  <2>2. PICK g \in [1..(k - 1) -> Seq(S)] : Flattening(seqs, k - 1, g)
    BY <2>1 DEF Wrong
  <2>. DEFINE last == g[k - 1] \o seqs[k]
              f == [i \in 1..k |-> IF i = k THEN last ELSE g[i]]
  <2>3. last \in Seq(S)
    BY <1>1, <2>1, ConcatProperties
  <2>4. \A i \in 1..(k - 1) : g[i] = (IF i = 1 THEN seqs[i] ELSE g[i - 1] \o seqs[i])
    BY <2>2 DEF Flattening
  <2>5. last = g[k - 1] \o seqs[k]
    OBVIOUS
  <2>. HIDE DEF last
  <2>6. f \in [1..k -> Seq(S)]
    BY <2>1, <2>3
  <2>7. f[k] = last /\ f[k - 1] = g[k - 1]
    BY <1>6, <2>1
  <2>8. \A i \in 1..(k - 1) : f[i] = g[i] /\ (i # 1 => f[i - 1] = g[i - 1])
    BY <2>1
  <2>. HIDE DEF f
  <2>9. \A i \in 1..k : f[i] = (IF i = 1 THEN seqs[i] ELSE f[i - 1] \o seqs[i])
    <3>. TAKE i \in 1..k
    <3>1. CASE i = k
      BY <1>6, <2>5, <2>7, <3>1
    <3>2. CASE i # k
      <4>1. i \in 1..(k - 1)
        BY <2>1, <3>2
      <4>. QED
        BY <2>4, <2>8, <4>1
    <3>. QED
      BY <3>1, <3>2
  <2>10. f = [i \in 1..k |-> IF i = 1 THEN seqs[i] ELSE f[i - 1] \o seqs[i]]
    BY <2>6, <2>9
  <2>. QED
    BY <1>4, <2>6, <2>10 DEF Flattening, Wrong
<1>. QED
  BY <1>5, <1>6

\* There is one only, at each length.
LEMMA FlatteningAgrees ==
    ASSUME NEW seqs, NEW n \in Nat, NEW m \in Nat, m <= n,
           NEW f, Flattening(seqs, n, f), NEW g, Flattening(seqs, m, g)
    PROVE  \A i \in 1..m : f[i] = g[i]
<1>. DEFINE Wrong == {i \in 1..m : f[i] # g[i]}
<1>1. SUFFICES ASSUME Wrong # {} PROVE FALSE
  OBVIOUS
<1>2. Wrong \subseteq Nat
  OBVIOUS
<1>. HIDE DEF Wrong
<1>3. PICK k \in Wrong : \A j \in Wrong : k <= j
  BY <1>1, <1>2, LeastNatural
<1>. USE DEF Wrong
<1>4. k \in 1..m /\ k \in 1..n /\ (k # 1 => f[k - 1] = g[k - 1])
  BY <1>3
<1>5. /\ f[k] = (IF k = 1 THEN seqs[k] ELSE f[k - 1] \o seqs[k])
      /\ g[k] = (IF k = 1 THEN seqs[k] ELSE g[k - 1] \o seqs[k])
  BY <1>4 DEF Flattening
<1>. QED
  BY <1>3, <1>4, <1>5

LEMMA FlatteningGrows ==
    ASSUME NEW seqs, NEW n \in Nat, NEW f, Flattening(seqs, n + 1, f),
           NEW g, Flattening(seqs, n, g)
    PROVE  \A i \in 1..n : f[i] = g[i]
<1>1. n + 1 \in Nat /\ n <= n + 1
  OBVIOUS
<1>. QED
  BY <1>1, FlatteningAgrees

\* So FlattenSeq is what such a function ends with.
LEMMA Flattened ==
    ASSUME NEW S, NEW seqs \in Seq(Seq(S)), Len(seqs) # 0
    PROVE  \E f \in [1..Len(seqs) -> Seq(S)] :
             /\ Flattening(seqs, Len(seqs), f)
             /\ Seqs!FlattenSeq(seqs) = f[Len(seqs)]
<1>. DEFINE n == Len(seqs)
            flatten == CHOOSE f : Flattening(seqs, n, f)
<1>1. n \in Nat /\ n \in 1..n
  BY LenProperties
<1>2. PICK g \in [1..n -> Seq(S)] : Flattening(seqs, n, g)
  BY <1>1, FlatteningExists
<1>3. Flattening(seqs, n, flatten)
  BY <1>2
<1>4. Seqs!FlattenSeq(seqs) = flatten[n]
  BY DEF Seqs!FlattenSeq, Flattening
<1>. HIDE DEF flatten, n
<1>5. \A i \in 1..n : flatten[i] = g[i]
  BY <1>1, <1>2, <1>3, FlatteningAgrees
<1>. QED
  BY <1>1, <1>2, <1>4, <1>5 DEF n

\* What is put together of sequences over a set is one.
LEMMA FlattenType ==
    ASSUME NEW S, NEW seqs \in Seq(Seq(S))
    PROVE  Seqs!FlattenSeq(seqs) \in Seq(S)
<1>1. Len(seqs) \in Nat
  BY LenProperties
<1>2. CASE Len(seqs) = 0
  <2>1. seqs = <<>> /\ Seqs!FlattenSeq(seqs) = seqs
    <3>1. seqs = <<>>
      BY <1>2, EmptySeq
    <3>. QED
      BY <1>2, <3>1 DEF Seqs!FlattenSeq
  <2>. QED
    BY <2>1, EmptySeq
<1>3. CASE Len(seqs) # 0
  <2>1. PICK f \in [1..Len(seqs) -> Seq(S)] : Seqs!FlattenSeq(seqs) = f[Len(seqs)]
    BY <1>3, Flattened
  <2>2. \A n \in Nat : n # 0 => n \in 1..n
    OBVIOUS
  <2>3. Len(seqs) \in 1..Len(seqs)
    BY <1>1, <1>3, <2>2
  <2>. QED
    BY <2>1, <2>3
<1>. QED
  BY <1>2, <1>3

\* The last sequence comes last.
LEMMA FlattenLast ==
    ASSUME NEW S, NEW seqs \in Seq(Seq(S)), NEW n \in Nat, Len(seqs) = n + 1,
           NEW front, front = [i \in 1..n |-> seqs[i]]
    PROVE  /\ front \in Seq(Seq(S)) /\ Len(front) = n
           /\ Seqs!FlattenSeq(seqs) = Seqs!FlattenSeq(front) \o seqs[n + 1]
<1>1. \A i \in 1..(n + 1) : seqs[i] \in Seq(S)
  BY ElementOfSeq
<1>2. front \in Seq(Seq(S)) /\ Len(front) = n
  <2>1. \A i \in 1..n : seqs[i] \in Seq(S)
    BY <1>1
  <2>. DEFINE T == Seq(S)
  <2>2. \A i \in 1..n : seqs[i] \in T
    BY <2>1
  <2>. HIDE DEF T
  <2>3. front \in Seq(T) /\ Len(front) = n
    BY <2>2
  <2>. QED
    BY <2>3 DEF T
<1>3. PICK f \in [1..(n + 1) -> Seq(S)] :
        Flattening(seqs, n + 1, f) /\ Seqs!FlattenSeq(seqs) = f[n + 1]
  <2>1. Len(seqs) # 0
    OBVIOUS
  <2>. QED
    BY <2>1, Flattened
<1>4. \A i \in 1..(n + 1) : f[i] = (IF i = 1 THEN seqs[i] ELSE f[i - 1] \o seqs[i])
  BY <1>3 DEF Flattening
<1>5. CASE n = 0
  <2>1. front = <<>> /\ Seqs!FlattenSeq(front) = front
    BY <1>2, <1>5, EmptySeq DEF Seqs!FlattenSeq
  <2>2. f[n + 1] = seqs[n + 1] /\ seqs[n + 1] \in Seq(S)
    BY <1>1, <1>4, <1>5
  <2>3. seqs[n + 1] = <<>> \o seqs[n + 1]
    BY <2>2, ConcatEmptySeq
  <2>. QED
    BY <1>2, <1>3, <2>1, <2>2, <2>3
<1>6. CASE n # 0
  <2>1. PICK g \in [1..n -> Seq(S)] :
          Flattening(front, n, g) /\ Seqs!FlattenSeq(front) = g[n]
    BY <1>2, <1>6, Flattened
  <2>2. \A i \in 1..n : g[i] = (IF i = 1 THEN front[i] ELSE g[i - 1] \o front[i])
    BY <2>1 DEF Flattening
  <2>3. \A i \in 1..n : g[i] = (IF i = 1 THEN seqs[i] ELSE g[i - 1] \o seqs[i])
    BY <2>2
  <2>4. Flattening(seqs, n, g)
    <3>1. g = [i \in 1..n |-> IF i = 1 THEN seqs[i] ELSE g[i - 1] \o seqs[i]]
      BY <2>1, <2>3
    <3>. QED
      BY <3>1 DEF Flattening
  <2>5. n + 1 \in 1..Len(seqs) /\ n \in 1..(n + 1) /\ n \in 1..n
    BY <1>6
  <2>6. \A i \in 1..n : f[i] = g[i]
    <3>1. \A x, y : Flattening(seqs, n + 1, x) /\ Flattening(seqs, n, y)
                     => \A i \in 1..n : x[i] = y[i]
      BY FlatteningGrows
    <3>2. Flattening(seqs, n + 1, f)
      BY <1>3
    <3>. QED
      BY <2>4, <3>1, <3>2
  <2>7. f[n + 1] = f[n] \o seqs[n + 1]
    <3>1. n + 1 \in 1..(n + 1) /\ n + 1 # 1 /\ (n + 1) - 1 = n
      BY <1>6
    <3>. QED
      BY <1>4, <3>1
  <2>. QED
    BY <1>2, <1>3, <2>1, <2>5, <2>6, <2>7
<1>. QED
  BY <1>5, <1>6

-----------------------------------------------------------------------------
(***************************************************************************)
(* What the sender may hold and send.                                      *)
(***************************************************************************)
Elements == [of : Entry, held : {Representations[i] : i \in 1..4}]
Polynomials == [of : Entry, terms : Int, degree : Int]

\* The items of a field.  No element but the first is ever altered in its label.
WireItems(f) ==
    [shape : Seq(Int), data : IF f = "polys" THEN Seq(Polynomials) ELSE Seq(Elements)]

LabelledAs(f, data) == \A i \in DOMAIN data : i # 1 => data[i].held = HeldAs(f)

SenderItems(f) ==
    {item \in WireItems(f) : f # "polys" => LabelledAs(f, item.data)}

\* The entries and labels an alteration puts in a field.
LEMMA HeldTypes ==
    /\ Zero \in Entry /\ Foreign \in Entry
    /\ \A f : HeldAs(f) \in {Representations[i] : i \in 1..4}
    /\ \A h \in {"Coefficients", "IncompleteNTT"} : h \in {Representations[i] : i \in 1..4}
<1>1. Zero \in Entry /\ Foreign \in Entry
  BY DEF Zero, Foreign, Entry
<1>2. Representations[1] = "Coefficients" /\ Representations[3] = "IncompleteNTT"
  BY DEF Representations
<1>. HIDE DEF Representations
<1>3. \A h \in {"Coefficients", "IncompleteNTT"} : h \in {Representations[i] : i \in 1..4}
  BY <1>2
<1>. QED
  BY <1>1, <1>3 DEF HeldAs

LEMMA ElementType ==
    ASSUME NEW f, NEW e \in Entry
    PROVE  Element(f, e) \in Elements /\ Element(f, e).held = HeldAs(f)
BY HeldTypes DEF Element, Elements

LEMMA PolynomialType ==
    ASSUME NEW e \in Entry, NEW m \in Int, NEW n \in Int
    PROVE  Polynomial(e, m, n) \in Polynomials
BY DEF Polynomial, Polynomials

\* What is sent for a field, coefficients cut into elements or polynomials.
LEMMA WireItemType ==
    ASSUME NEW f, NEW item \in Items
    PROVE  WireItem(f, item) \in SenderItems(f)
<1>. DEFINE data == [i \in DOMAIN item.data |->
                       IF f = "polys" THEN Polynomial(item.data[i], 1 + (i % 4), 1 + (i % 4))
                       ELSE Element(f, item.data[i])]
            n == Len(item.data)
<1>1. n \in Nat /\ DOMAIN item.data = 1..n /\ \A i \in 1..n : item.data[i] \in Entry
  BY LenProperties, ElementOfSeq DEF Items
<1>2. item.shape \in Seq(Int)
  BY SeqMonotonic DEF Items
<1>3. WireItem(f, item) = [shape |-> item.shape, data |-> data]
  BY DEF WireItem
<1>4. CASE f = "polys"
  <2>1. \A i \in 1..n : 1 + (i % 4) \in Int
    OBVIOUS
  <2>2. \A i \in 1..n : Polynomial(item.data[i], 1 + (i % 4), 1 + (i % 4)) \in Polynomials
    BY <1>1, <2>1, PolynomialType
  <2>3. data \in Seq(Polynomials)
    BY <1>1, <1>4, <2>2
  <2>. QED
    BY <1>2, <1>3, <1>4, <2>3 DEF SenderItems, WireItems
<1>5. CASE f # "polys"
  <2>1. \A i \in 1..n : /\ Element(f, item.data[i]) \in Elements
                        /\ Element(f, item.data[i]).held = HeldAs(f)
    BY <1>1, ElementType
  <2>2. data \in Seq(Elements) /\ LabelledAs(f, data)
    BY <1>1, <1>5, <2>1 DEF LabelledAs
  <2>. QED
    BY <1>2, <1>3, <1>5, <2>2 DEF SenderItems, WireItems
<1>. QED
  BY <1>4, <1>5

\* A vector of the data of a field.
DataOf(f) == Seq(IF f = "polys" THEN Polynomials ELSE Elements)

LEMMA VectorItem ==
    ASSUME NEW f, NEW data \in DataOf(f), f # "polys" => LabelledAs(f, data)
    PROVE  Vector(data) \in SenderItems(f) /\ Vector(data).shape # NoShape
<1>1. Len(data) \in Nat
  BY LenProperties DEF DataOf
<1>2. \A n \in Nat : <<n>> \in Seq(Int) /\ <<n>> # <<>>
  OBVIOUS
<1>. QED
  BY <1>1, <1>2 DEF Vector, SenderItems, WireItems, NoShape, DataOf

LEMMA ShorterType ==
    ASSUME NEW S, NEW data \in Seq(S), NEW d \in Shorter(data)
    PROVE  /\ d \in Seq(S)
           /\ \A i \in DOMAIN d : i \in DOMAIN data /\ d[i] = data[i]
<1>. DEFINE n == Len(data) - 1
<1>1. data # <<>> /\ d = SubSeq(data, 1, n)
  BY DEF Shorter, Seqs!Front
<1>2. /\ Len(data) \in Nat /\ Len(data) # 0 /\ DOMAIN data = 1..Len(data)
      /\ \A i \in 1..Len(data) : data[i] \in S
  BY <1>1, LenProperties, ElementOfSeq, EmptySeq
<1>3. n \in Nat /\ (\A i \in 1..n : i \in 1..Len(data)) /\ (\A i \in 1..n : data[i] \in S)
  BY <1>2
<1>. HIDE DEF n
<1>4. /\ SubSeq(data, 1, n) \in Seq(S)
      /\ Len(SubSeq(data, 1, n)) = IF 1 <= n THEN n - 1 + 1 ELSE 0
      /\ \A i \in 1 .. n - 1 + 1 : SubSeq(data, 1, n)[i] = data[1 + i - 1]
  BY <1>3, SubSeqProperties
<1>5. (IF 1 <= n THEN n - 1 + 1 ELSE 0) = n /\ n - 1 + 1 = n /\ \A i \in 1..n : 1 + i - 1 = i
  BY <1>3
<1>6. d \in Seq(S) /\ Len(d) = n /\ \A i \in 1..n : d[i] = data[i]
  BY <1>1, <1>4, <1>5
<1>7. DOMAIN d = 1..n
  BY <1>6, LenProperties
<1>. QED
  BY <1>2, <1>3, <1>6, <1>7

\* An alteration leaves an item the sender may hold.
LEMMA AlteredDataType ==
    ASSUME NEW f, NEW data \in Seq(Elements), LabelledAs(f, data), NEW d \in AlteredData(f, data)
    PROVE  d \in Seq(Elements) /\ LabelledAs(f, d)
<1>1. /\ Len(data) \in Nat /\ DOMAIN data = 1..Len(data)
      /\ \A i \in 1..Len(data) : data[i] \in Elements
  BY LenProperties, ElementOfSeq
<1>2. CASE d \in Shorter(data)
  <2>1. d \in Seq(Elements) /\ \A i \in DOMAIN d : i \in DOMAIN data /\ d[i] = data[i]
    BY <1>2, ShorterType
  <2>. QED
    BY <2>1 DEF LabelledAs
<1>3. ASSUME NEW x \in {Zero, Foreign}, d = Append(data, Element(f, x))
      PROVE  d \in Seq(Elements) /\ LabelledAs(f, d)
  <2>. DEFINE e == Element(f, x)
  <2>1. e \in Elements /\ e.held = HeldAs(f)
    BY HeldTypes, ElementType
  <2>. HIDE DEF e
  <2>2. /\ Append(data, e) \in Seq(Elements) /\ DOMAIN Append(data, e) = 1..(Len(data) + 1)
        /\ \A i \in 1..Len(data) : Append(data, e)[i] = data[i]
        /\ Append(data, e)[Len(data) + 1] = e
    BY <1>1, <2>1
  <2>3. d = Append(data, e)
    BY <1>3 DEF e
  <2>4. \A i \in DOMAIN d : i \in DOMAIN data \/ i = Len(data) + 1
    BY <1>1, <2>2, <2>3
  <2>. QED
    BY <1>1, <2>1, <2>2, <2>3, <2>4 DEF LabelledAs
<1>4. ASSUME NEW e \in Elements, d = [data EXCEPT ![1] = e], data # <<>>
      PROVE  d \in Seq(Elements) /\ LabelledAs(f, d)
  <2>1. d \in Seq(Elements) /\ DOMAIN d = DOMAIN data /\ \A i \in DOMAIN d : i # 1 => d[i] = data[i]
    BY <1>1, <1>4
  <2>. QED
    BY <2>1 DEF LabelledAs
<1>5. ASSUME NEW h \in {"Coefficients", "IncompleteNTT"}, d = [data EXCEPT ![1].held = h],
             data # <<>>
      PROVE  d \in Seq(Elements) /\ LabelledAs(f, d)
  <2>. DEFINE e == [data[1] EXCEPT !.held = h]
  <2>1. 1 \in DOMAIN data
    BY <1>1, <1>5, EmptySeq
  <2>2. e \in Elements
    BY <1>1, <2>1, HeldTypes DEF Elements
  <2>3. d = [data EXCEPT ![1] = e]
    BY <1>5
  <2>. QED
    BY <1>4, <1>5, <2>2, <2>3
<1>6. \A x \in {Zero, Foreign} : Element(f, x) \in Elements
  BY HeldTypes, ElementType
<1>. QED
  BY <1>2, <1>3, <1>4, <1>5, <1>6 DEF AlteredData

LEMMA AlteredPolysType ==
    ASSUME NEW item \in SenderItems("polys"), item.shape # NoShape, NEW x \in AlteredPolys(item)
    PROVE  x \in SenderItems("polys") /\ x.shape # NoShape
<1>1. item.shape \in Seq(Int) /\ item.data \in Seq(Polynomials) /\ item = [shape |-> item.shape, data |-> item.data]
  BY DEF SenderItems, WireItems
<1>2. /\ Len(item.data) \in Nat /\ DOMAIN item.data = 1..Len(item.data)
      /\ \A i \in 1..Len(item.data) : item.data[i] \in Polynomials
  BY <1>1, LenProperties, ElementOfSeq
<1>3. /\ \A d \in Shorter(item.data) : d \in DataOf("polys")
      /\ Append(item.data, Polynomial(Foreign, 2, 0)) \in DataOf("polys")
  <2>1. \A d \in Shorter(item.data) : d \in Seq(Polynomials)
    BY <1>1, ShorterType
  <2>2. Polynomial(Foreign, 2, 0) \in Polynomials
    BY HeldTypes, PolynomialType
  <2>3. Append(item.data, Polynomial(Foreign, 2, 0)) \in Seq(Polynomials)
    BY <1>1, <2>2, AppendProperties
  <2>. QED
    BY <2>1, <2>3 DEF DataOf
<1>4. ASSUME NEW d \in DataOf("polys"), x = Vector(d)
      PROVE  x \in SenderItems("polys") /\ x.shape # NoShape
  BY <1>4, VectorItem
<1>5. ASSUME NEW p \in Polynomials, x = [item EXCEPT !.data[1] = p]
      PROVE  x \in SenderItems("polys") /\ x.shape # NoShape
  <2>. DEFINE data == [item.data EXCEPT ![1] = p]
  <2>1. data \in Seq(Polynomials)
    <3>1. item.data \in [1..Len(item.data) -> Polynomials]
      BY <1>1, LenProperties
    <3>2. data \in [1..Len(item.data) -> Polynomials]
      BY <3>1
    <3>. QED
      BY <1>2, <3>2
  <2>2. x = [shape |-> item.shape, data |-> data]
    BY <1>1, <1>5
  <2>. QED
    BY <1>1, <2>1, <2>2 DEF SenderItems, WireItems
<1>6. CASE item.data = <<>>
  BY <1>3, <1>4, <1>6 DEF AlteredPolys
<1>7. CASE item.data # <<>>
  <2>1. item.data[1] \in Polynomials
    BY <1>1, <1>2, <1>7, EmptySeq
  <2>2. [item.data[1] EXCEPT !.terms = 4] \in Polynomials
    BY <2>1 DEF Polynomials
  <2>3. Polynomial(Foreign, 0, 0) \in Polynomials
    BY HeldTypes, PolynomialType
  <2>. QED
    BY <1>3, <1>4, <1>5, <1>7, <2>2, <2>3 DEF AlteredPolys
<1>. QED
  BY <1>6, <1>7

LEMMA AlteredShapesType ==
    ASSUME NEW s \in Seq(Int), Len(s) > 1, NEW t \in AlteredShapes(s)
    PROVE  t \in Seq(Int) /\ t # <<>>
<1>1. /\ Len(s) \in Nat /\ DOMAIN s = 1..Len(s) /\ s[1] \in Int /\ s[2] \in Int
      /\ s \in [1..Len(s) -> Int]
  BY LenProperties
<1>2. \A u : u \in [1..Len(s) -> Int] => u \in Seq(Int) /\ u # <<>>
  <2>1. \A u : u \in [1..Len(s) -> Int] => u \in Seq(Int) /\ 1 \in DOMAIN u
    BY <1>1
  <2>2. DOMAIN <<>> = {}
    OBVIOUS
  <2>. QED
    BY <2>1, <2>2
<1>3. /\ s[2] + 1 \in Int /\ s[2] - 1 \in Int /\ 0 \in Int
  BY <1>1
<1>4. /\ [s EXCEPT ![1] = s[2], ![2] = s[1]] \in [1..Len(s) -> Int]
      /\ [s EXCEPT ![1] = 0] \in [1..Len(s) -> Int]
      /\ [s EXCEPT ![2] = @ + 1] \in [1..Len(s) -> Int]
      /\ [s EXCEPT ![3] = s[2] + 1] \in [1..Len(s) -> Int]
      /\ [s EXCEPT ![3] = s[2] - 1] \in [1..Len(s) -> Int]
  BY <1>1, <1>3
<1>. QED
  BY <1>2, <1>4 DEF AlteredShapes

LEMMA AlteredMatrixType ==
    ASSUME NEW f, f # "polys", NEW item \in SenderItems(f), Len(item.shape) > 1,
           NEW x \in AlteredMatrix(f, item)
    PROVE  x \in SenderItems(f) /\ x.shape # NoShape
<1>1. /\ item.shape \in Seq(Int) /\ item.data \in Seq(Elements)
      /\ item = [shape |-> item.shape, data |-> item.data] /\ LabelledAs(f, item.data)
  BY DEF SenderItems, WireItems
<1>2. /\ Len(item.shape) \in Nat /\ DOMAIN item.shape = 1..Len(item.shape)
      /\ item.shape \in [1..Len(item.shape) -> Int]
      /\ item.shape[1] \in Int /\ item.shape[2] \in Int
  BY <1>1, LenProperties
<1>3. item.shape # <<>>
  BY <1>2
<1>4. CASE x \in {[item EXCEPT !.shape = s] : s \in AlteredShapes(item.shape)}
  <2>1. PICK s \in AlteredShapes(item.shape) : x = [shape |-> s, data |-> item.data]
    BY <1>1, <1>4
  <2>2. s \in Seq(Int) /\ s # <<>>
    BY <1>1, AlteredShapesType
  <2>. QED
    BY <1>1, <2>1, <2>2 DEF SenderItems, WireItems, NoShape
<1>5. CASE x \in {[item EXCEPT !.data = d] : d \in AlteredData(f, item.data)}
  <2>1. PICK d \in AlteredData(f, item.data) : x = [shape |-> item.shape, data |-> d]
    BY <1>1, <1>5
  <2>2. d \in Seq(Elements) /\ LabelledAs(f, d)
    BY <1>1, AlteredDataType
  <2>. QED
    BY <1>1, <1>3, <2>1, <2>2 DEF SenderItems, WireItems, NoShape
<1>6. CASE x = [shape |-> [item.shape EXCEPT ![1] = @ + 1],
                data |-> item.data \o [i \in 1..item.shape[2] |-> Element(f, Zero)]]
  <2>. DEFINE s == [item.shape EXCEPT ![1] = @ + 1]
              e == Element(f, Zero)
              row == [i \in 1..item.shape[2] |-> e]
              n == Len(item.data)
  <2>1. s \in Seq(Int) /\ s # <<>>
    <3>1. s \in [1..Len(item.shape) -> Int] /\ 1 \in DOMAIN s
      BY <1>2
    <3>2. DOMAIN <<>> = {}
      OBVIOUS
    <3>. QED
      BY <1>2, <3>1, <3>2, SMTT(60)
  <2>2. e \in Elements /\ e.held = HeldAs(f)
    BY HeldTypes, ElementType
  <2>. HIDE DEF e
  <2>3. \E m \in Nat : 1..item.shape[2] = 1..m
    <3>1. CASE item.shape[2] \in Nat
      BY <3>1
    <3>2. CASE item.shape[2] \notin Nat
      <4>1. 1..item.shape[2] = 1..0 /\ 0 \in Nat
        BY <1>2, <3>2
      <4>. QED
        BY <4>1
    <3>. QED
      BY <3>1, <3>2
  <2>4. row \in Seq(Elements) /\ \A i \in DOMAIN row : row[i] = e
    <3>1. PICK m \in Nat : 1..item.shape[2] = 1..m
      BY <2>3
    <3>2. row = [i \in 1..m |-> e]
      BY <3>1
    <3>. HIDE DEF row
    <3>. QED
      BY <2>2, <3>2
  <2>. HIDE DEF row
  <2>5. /\ item.data \o row \in Seq(Elements)
        /\ \A i \in DOMAIN (item.data \o row) :
             \/ i \in DOMAIN item.data /\ (item.data \o row)[i] = item.data[i]
             \/ (item.data \o row)[i] = e
    <3>1. /\ n \in Nat /\ Len(row) \in Nat /\ DOMAIN item.data = 1..n
          /\ DOMAIN row = 1..Len(row)
      BY <1>1, <2>4, LenProperties
    <3>2. /\ item.data \o row \in Seq(Elements) /\ Len(item.data \o row) = n + Len(row)
          /\ \A i \in 1..(n + Len(row)) :
               (item.data \o row)[i] = IF i <= n THEN item.data[i] ELSE row[i - n]
      BY <1>1, <2>4, ConcatProperties
    <3>3. DOMAIN (item.data \o row) = 1..(n + Len(row))
      BY <3>2, LenProperties
    <3>4. \A i \in 1..(n + Len(row)) : i > n => i - n \in DOMAIN row
      BY <3>1
    <3>. HIDE DEF n
    <3>. QED
      BY <2>4, <3>1, <3>2, <3>3, <3>4
  <2>6. LabelledAs(f, item.data \o row)
    BY <1>1, <2>2, <2>5 DEF LabelledAs
  <2>7. x = [shape |-> s, data |-> item.data \o row]
    BY <1>6 DEF row, e
  <2>. QED
    BY <2>1, <2>5, <2>6, <2>7 DEF SenderItems, WireItems, NoShape
<1>. QED
  BY <1>4, <1>5, <1>6 DEF AlteredMatrix

\* An item the sender may write for a field: only an optional one may be absent.
Sendable(kind, f, item) ==
    /\ item \in SenderItems(f)
    /\ item.shape # NoShape \/ (Optional(kind, f) /\ f # "polys")

\* The item of a field that was not sent.
LEMMA AbsentItemType ==
    \A f : AbsentItem \in SenderItems(f)
<1>. TAKE f
<1>1. AbsentItem = [shape |-> <<>>, data |-> <<>>]
  <2>1. [i \in DOMAIN <<>> |-> IF "norm" = "polys"
                               THEN Polynomial(<<>>[i], 1 + (i % 4), 1 + (i % 4))
                               ELSE Element("norm", <<>>[i])] = <<>>
    OBVIOUS
  <2>. QED
    BY <2>1 DEF AbsentItem, WireItem, Absent, NoShape
<1>2. <<>> \in Seq(Int) /\ <<>> \in Seq(Polynomials) /\ <<>> \in Seq(Elements)
      /\ LabelledAs(f, <<>>)
  BY EmptySeq DEF LabelledAs
<1>. QED
  BY <1>1, <1>2 DEF SenderItems, WireItems

LEMMA AlteredItemsType ==
    ASSUME NEW kind, NEW f, NEW item, Sendable(kind, f, item),
           NEW x \in AlteredItems(kind, f, item)
    PROVE  Sendable(kind, f, x)
<1>1. CASE f = "polys"
  <2>1. ~Optional(kind, f) /\ f # "next"
    BY <1>1 DEF Optional
  <2>2. AlteredItems(kind, f, item) = AlteredPolys(item) \cup {} \cup {}
    BY <1>1, <2>1, Zenon DEF AlteredItems
  <2>3. x \in AlteredPolys(item)
    BY <2>2
  <2>. QED
    BY <1>1, <2>1, <2>3, AlteredPolysType DEF Sendable
<1>2. CASE f # "polys"
  <2>1. /\ item.shape \in Seq(Int) /\ item.data \in Seq(Elements)
        /\ item = [shape |-> item.shape, data |-> item.data] /\ LabelledAs(f, item.data)
    BY <1>2 DEF Sendable, SenderItems, WireItems
  <2>2. CASE x \in AlteredMatrix(f, item) /\ Len(item.shape) > 1
    BY <1>2, <2>2, AlteredMatrixType DEF Sendable
  <2>3. CASE x \in {Vector(d) : d \in AlteredData(f, item.data)}
    <3>1. PICK d \in AlteredData(f, item.data) : x = Vector(d)
      BY <2>3
    <3>2. d \in DataOf(f) /\ LabelledAs(f, d)
      BY <1>2, <2>1, AlteredDataType DEF DataOf
    <3>. QED
      BY <3>1, <3>2, VectorItem DEF Sendable
  <2>4. CASE x = AbsentItem /\ Optional(kind, f)
    BY <1>2, <2>4, AbsentItemType DEF Sendable
  <2>5. CASE x = [item EXCEPT !.shape = IF Len(@) = 1 THEN <<Len(item.data), 1>>
                                        ELSE <<Len(item.data)>>]
    <3>1. \A n \in Nat : /\ <<n, 1>> \in Seq(Int) /\ <<n, 1>> # <<>>
                         /\ <<n>> \in Seq(Int) /\ <<n>> # <<>>
      OBVIOUS
    <3>2. Len(item.data) \in Nat
      BY <2>1, LenProperties
    <3>3. PICK s \in Seq(Int) : x = [item EXCEPT !.shape = s] /\ s # <<>>
      BY <2>5, <3>1, <3>2
    <3>4. x = [shape |-> s, data |-> item.data]
      BY <2>1, <3>3
    <3>. QED
      BY <1>2, <2>1, <3>3, <3>4 DEF Sendable, SenderItems, WireItems, NoShape
  <2>. QED
    BY <1>2, <2>2, <2>3, <2>4, <2>5 DEF AlteredItems
<1>. QED
  BY <1>1, <1>2

\* A field as written, and as it may be on the stream.
WireSlices == [uniform : BOOLEAN, flip : BOOLEAN, data : Seq(Elements)]
WirePolynomials == [of : Entry, count : Int, zeroTop : BOOLEAN]
WireFields == [present : BOOLEAN, dims : Seq(Int), slice : WireSlices,
               polys : Seq(WirePolynomials)]

Arrival(kind, f, w) ==
    /\ w \in WireFields
    /\ w.present \/ (Optional(kind, f) /\ f # "polys")
    /\ Len(w.dims) \in {0, 2, 3}
    /\ w.dims # <<>> => w.present
    /\ IF f = "polys" THEN w.slice = WrittenSlice(f, <<>>) ELSE w.polys = <<>>
    /\ w.slice.data = <<>> => w.slice = WrittenSlice(f, <<>>)
    /\ /\ w.slice.data # <<>> /\ w.slice.uniform
       /\ w.slice.data[1].held = HeldAs(f)
       => Uniform(w.slice.data)

LEMMA WrittenSliceType ==
    ASSUME NEW f, NEW data \in Seq(Elements)
    PROVE  WrittenSlice(f, data) \in WireSlices
BY DEF WireSlices, WrittenSlice, Uniform, Flips

LEMMA DimensionsType ==
    ASSUME NEW s \in Seq(Int)
    PROVE  /\ Dimensions(s) \in Seq(Int) /\ Len(Dimensions(s)) \in {0, 2, 3}
           /\ Dimensions(s) # <<>> => s # <<>>
<1>1. Len(s) \in Nat /\ \A i \in 1..Len(s) : s[i] \in Int
  BY LenProperties, ElementOfSeq
<1>2. CASE Len(s) = 2
  <2>1. Dimensions(s) = <<s[2], s[1]>> /\ s[1] \in Int /\ s[2] \in Int
    BY <1>1, <1>2 DEF Dimensions
  <2>2. \A a, b \in Int : <<a, b>> \in Seq(Int) /\ Len(<<a, b>>) = 2
    OBVIOUS
  <2>3. s # <<>>
    BY <1>2, EmptySeq
  <2>. QED
    BY <2>1, <2>2, <2>3
<1>3. CASE Len(s) = 3
  <2>1. /\ Dimensions(s) = <<s[2], s[1], s[3]>>
        /\ s[1] \in Int /\ s[2] \in Int /\ s[3] \in Int
    BY <1>1, <1>3 DEF Dimensions
  <2>2. \A a, b, c \in Int : <<a, b, c>> \in Seq(Int) /\ Len(<<a, b, c>>) = 3
    OBVIOUS
  <2>3. s # <<>>
    BY <1>3, EmptySeq, SMTT(60)
  <2>. QED
    BY <2>1, <2>2, <2>3
<1>4. CASE Len(s) # 2 /\ Len(s) # 3
  <2>1. Dimensions(s) = <<>>
    BY <1>4 DEF Dimensions
  <2>. QED
    BY <2>1, EmptySeq
<1>. QED
  BY <1>2, <1>3, <1>4

\* A field as it is written, and as it arrives.
LEMMA WrittenType ==
    ASSUME NEW f, NEW item \in WireItems(f)
    PROVE  Written(f, item) \in WireFields
<1>. DEFINE w == Written(f, item)
<1>1. /\ item.shape \in Seq(Int)
      /\ f = "polys" => item.data \in Seq(Polynomials)
      /\ f # "polys" => item.data \in Seq(Elements)
  BY DEF WireItems
<1>2. /\ w.present = (item.shape # NoShape)
      /\ w.dims = Dimensions(item.shape)
      /\ w.slice = (IF f = "polys" THEN WrittenSlice(f, <<>>) ELSE WrittenSlice(f, item.data))
      /\ w.polys = (IF f = "polys"
                    THEN [i \in DOMAIN item.data |-> WrittenPolynomial(item.data[i])] ELSE <<>>)
      /\ w = [present |-> w.present, dims |-> w.dims, slice |-> w.slice, polys |-> w.polys]
  BY DEF Written
<1>. HIDE DEF w
<1>3. w.dims \in Seq(Int)
  BY <1>1, <1>2, DimensionsType
<1>4. w.slice \in WireSlices
  <2>1. <<>> \in Seq(Elements)
    BY EmptySeq
  <2>2. WrittenSlice(f, <<>>) \in WireSlices
    BY <2>1, WrittenSliceType
  <2>3. f # "polys" => WrittenSlice(f, item.data) \in WireSlices
    BY <1>1, WrittenSliceType
  <2>. QED
    BY <1>2, <2>2, <2>3
<1>5. w.polys \in Seq(WirePolynomials)
  <2>1. CASE f = "polys"
    <3>1. /\ Len(item.data) \in Nat /\ DOMAIN item.data = 1..Len(item.data)
          /\ \A i \in 1..Len(item.data) : item.data[i] \in Polynomials
      BY <1>1, <2>1, LenProperties, ElementOfSeq
    <3>2. \A i \in 1..Len(item.data) : WrittenPolynomial(item.data[i]) \in WirePolynomials
      BY <3>1 DEF WrittenPolynomial, Polynomials, WirePolynomials
    <3>. QED
      BY <1>2, <2>1, <3>1, <3>2
  <2>2. CASE f # "polys"
    BY <1>2, <2>2, EmptySeq
  <2>. QED
    BY <2>1, <2>2
<1>6. w.present \in BOOLEAN
  BY <1>2
<1>. QED
  BY <1>2, <1>3, <1>4, <1>5, <1>6 DEF w, WireFields

LEMMA WrittenArrives ==
    ASSUME NEW kind, NEW f, NEW item, Sendable(kind, f, item)
    PROVE  Arrival(kind, f, Written(f, item))
<1>. DEFINE w == Written(f, item)
<1>1. /\ w.present = (item.shape # NoShape)
      /\ w.dims = Dimensions(item.shape)
      /\ w.slice = (IF f = "polys" THEN WrittenSlice(f, <<>>) ELSE WrittenSlice(f, item.data))
      /\ f # "polys" => w.polys = <<>>
  BY DEF Written
<1>2. w \in WireFields
  BY WrittenType DEF Sendable, SenderItems
<1>. HIDE DEF w
<1>3. /\ Len(w.dims) \in {0, 2, 3}
      /\ w.dims # <<>> => w.present
  <2>1. item.shape \in Seq(Int)
    BY DEF Sendable, SenderItems, WireItems
  <2>. QED
    BY <1>1, <2>1, DimensionsType DEF NoShape
<1>4. w.present \/ (Optional(kind, f) /\ f # "polys")
  BY <1>1 DEF Sendable
<1>5. IF f = "polys" THEN w.slice = WrittenSlice(f, <<>>) ELSE w.polys = <<>>
  BY <1>1
<1>6. /\ w.slice = WrittenSlice(f, w.slice.data)
      /\ w.slice.uniform = Uniform(w.slice.data)
  BY <1>1 DEF WrittenSlice
<1>. QED
  BY <1>2, <1>3, <1>4, <1>5, <1>6 DEF Arrival, w

\* Other codings of what is written, too, are arrivals.
LEMMA ChoiceArrives ==
    ASSUME NEW kind, NEW f, NEW item, Sendable(kind, f, item),
           NEW c \in CodingChoices(Written(f, item))
    PROVE  Arrival(kind, f, c)
<1>. DEFINE w == Written(f, item)
            s == w.slice
<1>1. Arrival(kind, f, w)
  BY WrittenArrives
<1>2. f # "polys" => s.uniform = Uniform(s.data) /\ LabelledAs(f, s.data)
  BY DEF Written, WrittenSlice, Sendable, SenderItems
<1>3. f = "polys" => s.data = <<>>
  BY <1>1 DEF Arrival, WrittenSlice
<1>. HIDE DEF w
<1>. USE DEF Arrival, WireFields, WireSlices
<1>4. CASE c = [w EXCEPT !.slice.flip = ~@] /\ s.data # <<>>
  <2>1. /\ c.present = w.present /\ c.dims = w.dims /\ c.polys = w.polys
        /\ c.slice.data = s.data /\ c.slice.uniform = s.uniform
    BY <1>1, <1>4
  <2>2. c \in WireFields
    BY <1>1, <1>4
  <2>3. f # "polys"
    BY <1>3, <1>4
  <2>. QED
    BY <1>1, <1>4, <2>1, <2>2, <2>3
<1>5. CASE c = [w EXCEPT !.slice.uniform = ~@] /\ s.data # <<>>
  <2>1. f # "polys"
    BY <1>3, <1>5
  <2>2. s.data[1].held = HeldAs(f) => Uniform(s.data)
    BY <1>2, <2>1 DEF LabelledAs, Uniform
  <2>3. /\ c.present = w.present /\ c.dims = w.dims /\ c.polys = w.polys
        /\ c.slice.data = s.data /\ c.slice.uniform = ~s.uniform /\ c.slice.flip = s.flip
    BY <1>1, <1>5
  <2>4. c \in WireFields
    BY <1>1, <1>5
  <2>. QED
    BY <1>1, <1>5, <2>1, <2>2, <2>3, <2>4
<1>6. ASSUME w.polys # <<>>, c \in {[w EXCEPT !.polys[1].count = @ + 1, !.polys[1].zeroTop = TRUE],
                                   [w EXCEPT !.polys[1].count = 5]}
      PROVE  Arrival(kind, f, c)
  <2>. DEFINE n == Len(w.polys)
  <2>1. n \in Nat /\ w.polys \in [1..n -> WirePolynomials]
    BY <1>1, LenProperties
  <2>2. PICK t \in WirePolynomials : c.polys = [w.polys EXCEPT ![1] = t]
    <3>1. w.polys[1] \in WirePolynomials
      <4>1. w.polys \in Seq(WirePolynomials)
        BY <1>1
      <4>2. n \in Nat \ {0}
        BY <1>6, <4>1, EmptySeq
      <4>. HIDE DEF n
      <4>3. 1 \in 1..n
        BY <4>2
      <4>. QED
        BY <2>1, <4>3
    <3>2. /\ [w.polys[1] EXCEPT !.count = 5] \in WirePolynomials
          /\ [w.polys[1] EXCEPT !.count = @ + 1, !.zeroTop = TRUE] \in WirePolynomials
      <4>1. \A t \in WirePolynomials : /\ [t EXCEPT !.count = 5] \in WirePolynomials
                             /\ [t EXCEPT !.count = @ + 1, !.zeroTop = TRUE] \in WirePolynomials
        <5>. USE DEF WirePolynomials
        <5>. TAKE t \in WirePolynomials
        <5>1. t = [of |-> t.of, count |-> t.count, zeroTop |-> t.zeroTop]
              /\ t.of \in Entry /\ t.count \in Int /\ t.zeroTop \in BOOLEAN
          OBVIOUS
        <5>2. [t EXCEPT !.count = 5] = [of |-> t.of, count |-> 5, zeroTop |-> t.zeroTop]
          BY <5>1
        <5>. DEFINE u == [t EXCEPT !.count = @ + 1]
                    v == [t EXCEPT !.count = @ + 1, !.zeroTop = TRUE]
        <5>3. u \in WirePolynomials
          BY <5>1
        <5>4. v = [u EXCEPT !.zeroTop = TRUE]
          OBVIOUS
        <5>. HIDE DEF u, v
        <5>5. v \in WirePolynomials
          BY <5>3, <5>4
        <5>6. [t EXCEPT !.count = 5] \in WirePolynomials
          BY <5>1, <5>2
        <5>. QED
          BY <5>5, <5>6 DEF v
      <4>. QED
        BY <3>1, <4>1
    <3>3. CASE c = [w EXCEPT !.polys[1].count = 5]
      <4>1. c.polys = [w.polys EXCEPT ![1] = [w.polys[1] EXCEPT !.count = 5]]
        BY <1>1, <3>3
      <4>. QED
        BY <3>2, <4>1
    <3>4. CASE c = [w EXCEPT !.polys[1].count = @ + 1, !.polys[1].zeroTop = TRUE]
      <4>1. c.polys = [w.polys EXCEPT ![1] = [w.polys[1] EXCEPT !.count = @ + 1, !.zeroTop = TRUE]]
        BY <1>1, <3>4, <2>1
      <4>. QED
        BY <3>2, <4>1
    <3>. QED
      BY <1>6, <3>3, <3>4
  <2>3. c.polys \in Seq(WirePolynomials)
    <3>. HIDE DEF n
    <3>1. c.polys \in [1..n -> WirePolynomials]
      BY <2>1, <2>2
    <3>. QED
      BY <2>1, <3>1
  <2>4. /\ c.present = w.present /\ c.dims = w.dims /\ c.slice = w.slice
        /\ c = [present |-> c.present, dims |-> c.dims, slice |-> c.slice, polys |-> c.polys]
    BY <1>1, <1>6
  <2>5. f = "polys"
    BY <1>1, <1>6
  <2>6. c \in WireFields
    BY <1>1, <2>3, <2>4
  <2>. QED
    BY <1>1, <2>4, <2>5, <2>6
<1>. QED
  BY <1>4, <1>5, <1>6 DEF CodingChoices, w

\* A proof a sender holds.
SenderProof(proof) ==
    /\ Len(proof) \in Nat \ {0} /\ DOMAIN proof = 1..Len(proof)
    /\ proof[1].kind \in ProofKinds
    /\ \A r \in 1..Len(proof) :
         /\ DOMAIN proof[r] = {"kind", "items"}
         /\ DOMAIN proof[r].items = Fields
         /\ \A f \in Fields : proof[r].items[f] \in SenderItems(f)

\* The proofs of honest provers are proofs a sender holds, and so are the altered.
LEMMA HonestProofsType ==
    ASSUME NEW c \in Chains, NEW proof \in HonestProofs(c)
    PROVE  SenderProof(proof)
<1>1. CASE proof = HonestProof(c)
  <2>1. Len(c) \in Nat \ {0} /\ DOMAIN c = 1..Len(c) /\ \A r \in 1..Len(c) : c[r].kind \in Kinds
    BY ChainType, ConfigType, LenProperties
  <2>2. /\ DOMAIN proof = 1..Len(c)
        /\ \A r \in 1..Len(c) :
             proof[r] = [kind |-> c[r].kind, items |-> [f \in Fields |-> WireItem(f, Sent(c, r)[f])]]
    BY <1>1, <2>1 DEF HonestProof
  <2>3. Len(proof) = Len(c)
    <3>1. \E x : proof = [r \in 1..Len(c) |-> x[r]]
      BY <1>1, <2>1, <2>2 DEF HonestProof
    <3>. QED
      BY <2>1, <3>1
  <2>4. \A r \in 1..Len(c) : \A f \in Fields : WireItem(f, Sent(c, r)[f]) \in SenderItems(f)
    <3>. TAKE r \in 1..Len(c)
    <3>. TAKE f \in Fields
    <3>1. Sent(c, r) \in [Fields -> SoundItems]
      BY SentType
    <3>2. Sent(c, r)[f] \in Items
      BY <3>1 DEF SoundItems
    <3>. QED
      BY <3>2, WireItemType
  <2>5. \A r \in 1..Len(proof) :
          /\ DOMAIN proof[r] = {"kind", "items"}
          /\ DOMAIN proof[r].items = Fields
          /\ \A f \in Fields : proof[r].items[f] \in SenderItems(f)
    BY <2>2, <2>3, <2>4
  <2>6. proof[1].kind \in ProofKinds
    BY <2>1, <2>2 DEF ProofKinds
  <2>. QED
    BY <2>1, <2>2, <2>3, <2>5, <2>6 DEF SenderProof
<1>2. ASSUME NEW b \in BOOLEAN, proof = ClaimsProof(b)
      PROVE  SenderProof(proof)
  <2>. DEFINE sent(f, n) == WireItem(f, HonestItem(1, f, <<n>>, {}))
              items == [NoItems EXCEPT !["polys"] = sent("polys", ClaimsVariables),
                                       !["z0"] = sent("z0", 1),
                                       !["z1"] = IF b THEN sent("z1", 1) ELSE @]
              round == [kind |-> "Claims", items |-> items]
  <2>1. proof = <<round>>
    BY <1>2 DEF ClaimsProof
  <2>2. ClaimsVariables \in Nat /\ 1 \in Nat
    BY WireFormatAssumption
  <2>3. \A f \in Fields : \A n \in Nat : sent(f, n) \in SenderItems(f)
    <3>. TAKE f \in Fields
    <3>. TAKE n \in Nat
    <3>1. HonestItem(1, f, <<n>>, {}) \in Items
      BY VectorType DEF SoundItems
    <3>. QED
      BY <3>1, WireItemType
  <2>4. NoItems \in [Fields -> {AbsentItem}] /\ \A f \in Fields : AbsentItem \in SenderItems(f)
    BY AbsentItemType DEF NoItems
  <2>5. "polys" \in Fields /\ "z0" \in Fields /\ "z1" \in Fields
    BY DEF Fields
  <2>. HIDE DEF sent
  <2>6. DOMAIN items = Fields
    BY <2>4
  <2>7. \A f \in Fields : items[f] \in SenderItems(f)
    BY <2>2, <2>3, <2>4, <2>5
  <2>. HIDE DEF items
  <2>8. DOMAIN round = {"kind", "items"} /\ round.items = items /\ round.kind = "Claims"
    OBVIOUS
  <2>. HIDE DEF round
  <2>9. Len(proof) = 1 /\ DOMAIN proof = 1..1 /\ proof[1] = round
    BY <2>1
  <2>. QED
    BY <2>6, <2>7, <2>8, <2>9 DEF SenderProof, ProofKinds
<1>. QED
  BY <1>1, <1>2 DEF HonestProofs

LEMMA AlteredProofsType ==
    ASSUME NEW proof, SenderProof(proof), NEW S, proof \in Seq(S), NEW got \in AlteredProofs(proof)
    PROVE  SenderProof(got)
<1>1. /\ Len(proof) \in Nat \ {0} /\ DOMAIN proof = 1..Len(proof)
      /\ proof[1].kind \in ProofKinds
      /\ \A r \in 1..Len(proof) :
           /\ DOMAIN proof[r] = {"kind", "items"}
           /\ DOMAIN proof[r].items = Fields
           /\ \A f \in Fields : proof[r].items[f] \in SenderItems(f)
  BY DEF SenderProof
<1>2. ASSUME NEW r \in 1..Len(proof), got = Append(proof, proof[r])
      PROVE  SenderProof(got)
  <2>1. proof[r] \in S
    BY ElementOfSeq
  <2>2. /\ Len(got) = Len(proof) + 1
        /\ \A i \in 1..Len(proof) : got[i] = proof[i]
        /\ got[Len(proof) + 1] = proof[r]
    BY <1>2, <2>1, AppendProperties
  <2>3. DOMAIN got = 1..(Len(proof) + 1)
    BY <1>1, <1>2, <2>1, AppendProperties, LenProperties
  <2>4. /\ 1 \in 1..Len(proof)
        /\ \A i \in 1..(Len(proof) + 1) : i \in 1..Len(proof) \/ i = Len(proof) + 1
        /\ Len(proof) + 1 \in Nat \ {0}
    BY <1>1
  <2>5. \A i \in 1..(Len(proof) + 1) : \E j \in 1..Len(proof) : got[i] = proof[j]
    BY <2>2, <2>4
  <2>6. got[1] = proof[1]
    BY <2>2, <2>4
  <2>. QED
    BY <1>1, <2>2, <2>3, <2>4, <2>5, <2>6 DEF SenderProof
<1>3. ASSUME NEW r \in 1..Len(proof), NEW f \in Fields, proof[r].items[f].shape # NoShape,
             NEW x \in AlteredItems(proof[r].kind, f, proof[r].items[f]),
             got = [proof EXCEPT ![r].items[f] = x]
      PROVE  SenderProof(got)
  <2>1. Sendable(proof[r].kind, f, proof[r].items[f])
    BY <1>1, <1>3 DEF Sendable
  <2>2. x \in SenderItems(f)
    BY <2>1, AlteredItemsType DEF Sendable
  <2>. DEFINE items == [proof[r].items EXCEPT ![f] = x]
              round == [proof[r] EXCEPT !.items = items]
  <2>3. got = [proof EXCEPT ![r] = round]
    BY <1>3
  <2>4. DOMAIN items = Fields /\ \A g \in Fields : items[g] \in SenderItems(g)
    BY <1>1, <2>2
  <2>. HIDE DEF items
  <2>5. DOMAIN round = {"kind", "items"} /\ round.items = items /\ round.kind = proof[r].kind
    BY <1>1
  <2>. HIDE DEF round
  <2>6. got \in Seq(S \cup {round}) /\ Len(got) = Len(proof)
    <3>1. proof \in Seq(S \cup {round})
      BY SeqMonotonic
    <3>. QED
      BY <2>3, <3>1, ExceptSeq
  <2>7. \A i \in 1..Len(proof) : got[i] = IF i = r THEN round ELSE proof[i]
    BY <1>1, <2>3
  <2>8. DOMAIN got = 1..Len(proof) /\ 1 \in 1..Len(proof)
    BY <1>1, <2>3
  <2>9. got[1].kind = proof[1].kind
    BY <2>5, <2>7, <2>8
  <2>10. \A i \in 1..Len(got) :
           /\ DOMAIN got[i] = {"kind", "items"}
           /\ DOMAIN got[i].items = Fields
           /\ \A g \in Fields : got[i].items[g] \in SenderItems(g)
    <3>. TAKE i \in 1..Len(got)
    <3>1. CASE i = r
      BY <2>4, <2>5, <2>6, <2>7, <3>1
    <3>2. CASE i # r
      BY <1>1, <2>6, <2>7, <3>2
    <3>. QED
      BY <3>1, <3>2
  <2>. QED
    BY <1>1, <2>6, <2>8, <2>9, <2>10 DEF SenderProof
<1>4. CASE got = proof
  BY <1>4
<1>5. CASE got \in {Append(proof, proof[r]) : r \in DOMAIN proof}
  BY <1>1, <1>2, <1>5
<1>. DEFINE Altered(r, f) == {[proof EXCEPT ![r].items[f] = x] :
                                x \in AlteredItems(proof[r].kind, f, proof[r].items[f])}
            There(r) == {g \in Fields : proof[r].items[g].shape # NoShape}
<1>6. \A r \in DOMAIN proof : \A f \in There(r) : got \in Altered(r, f) => SenderProof(got)
  <2>. TAKE r \in DOMAIN proof
  <2>. TAKE f \in There(r)
  <2>. HAVE got \in Altered(r, f)
  <2>1. PICK x \in AlteredItems(proof[r].kind, f, proof[r].items[f]) :
          got = [proof EXCEPT ![r].items[f] = x]
    OBVIOUS
  <2>2. r \in 1..Len(proof) /\ f \in Fields /\ proof[r].items[f].shape # NoShape
    BY <1>1
  <2>. QED
    BY <1>3, <2>1, <2>2
<1>7. AlteredProofs(proof) =
        {proof} \cup {Append(proof, proof[r]) : r \in DOMAIN proof}
        \cup UNION {UNION {Altered(r, f) : f \in There(r)} : r \in DOMAIN proof}
  BY DEF AlteredProofs
<1>. HIDE DEF Altered, There
<1>8. \A x \in UNION {UNION {Altered(r, f) : f \in There(r)} : r \in DOMAIN proof} :
        \E r \in DOMAIN proof : \E f \in There(r) : x \in Altered(r, f)
  OBVIOUS
<1>. QED
  BY <1>4, <1>5, <1>6, <1>7, <1>8

LEMMA SourcesType ==
    ASSUME NEW c \in Chains, NEW proof \in Sources(c)
    PROVE  SenderProof(proof)
<1>1. PICK h \in HonestProofs(c) : proof \in AlteredProofs(h)
  BY DEF Sources
<1>2. SenderProof(h)
  BY HonestProofsType
<1>3. \E S : h \in Seq(S)
  <2>1. Len(h) \in Nat
    BY <1>2 DEF SenderProof
  <2>2. h = [i \in 1..Len(h) |-> h[i]]
    <3>1. CASE h = HonestProof(c)
      <4>1. DOMAIN h = DOMAIN c /\ h = [r \in DOMAIN c |-> h[r]]
        BY <3>1 DEF HonestProof
      <4>2. DOMAIN h = 1..Len(h)
        BY <1>2 DEF SenderProof
      <4>. QED
        BY <4>1, <4>2
    <3>2. ASSUME NEW b \in BOOLEAN, h = ClaimsProof(b)
          PROVE  h = [i \in 1..Len(h) |-> h[i]]
      BY <3>2 DEF ClaimsProof
    <3>. QED
      BY <3>1, <3>2 DEF HonestProofs
  <2>3. h \in Seq({h[i] : i \in 1..Len(h)})
    BY <2>1, <2>2
  <2>. QED
    BY <2>3
<1>. QED
  BY <1>1, <1>2, <1>3, AlteredProofsType

\* What a sender has for a field it did not mean to send.
LEMMA StrayType ==
    ASSUME NEW f \in Fields
    PROVE  Sendable(Round.kind, f, Stray(f))
<1>. DEFINE e == Element(f, Foreign)
            kind == Round.kind
<1>1. e \in Elements /\ e.held = HeldAs(f)
  BY HeldTypes, ElementType
<1>. HIDE DEF e
<1>2. /\ <<e>> \in Seq(Elements) /\ LabelledAs(f, <<e>>)
      /\ <<1, 1, 1>> \in Seq(Int) /\ <<1, 1>> \in Seq(Int)
      /\ <<1, 1, 1>> # <<>> /\ <<1, 1>> # <<>>
  BY <1>1 DEF LabelledAs
<1>3. CASE f \in {"folded", "image"}
  <2>1. Stray(f) = [shape |-> <<1, 1, 1>>, data |-> <<e>>] /\ f # "polys"
    BY <1>3 DEF Stray, e
  <2>2. Stray(f) \in WireItems(f)
    BY <1>2, <2>1 DEF WireItems
  <2>. QED
    BY <1>2, <2>1, <2>2 DEF Sendable, SenderItems, NoShape
<1>4. CASE f = "polys"
  <2>1. Stray(f) = Vector(<<>>)
    BY <1>4 DEF Stray
  <2>2. <<>> \in DataOf(f)
    BY EmptySeq DEF DataOf
  <2>. QED
    BY <1>4, <2>1, <2>2, VectorItem DEF Sendable
<1>5. CASE f \in {"batched", "opening"} /\ kind # "Sumcheck"
  <2>1. Stray(f) = [shape |-> <<1, 1>>, data |-> <<e>>]
    BY <1>5 DEF Stray, e
  <2>. QED
    BY <1>2, <1>5, <2>1 DEF Sendable, SenderItems, WireItems, NoShape
<1>6. CASE /\ f \notin {"folded", "image", "polys"}
           /\ ~(f \in {"batched", "opening"} /\ kind # "Sumcheck")
  <2>1. Stray(f) = IF Optional(kind, f) THEN AbsentItem ELSE Vector(<<e>>)
    BY <1>6 DEF Stray, e
  <2>2. <<e>> \in DataOf(f)
    BY <1>2, <1>6 DEF DataOf
  <2>. QED
    BY <1>2, <1>6, <2>1, <2>2, VectorItem, AbsentItemType DEF Sendable
<1>. QED
  BY <1>3, <1>4, <1>5, <1>6

LEMMA HeldType ==
    ASSUME SenderProof(source), Len(out) \in Nat \ {0}, NEW f \in Fields
    PROVE  Sendable(Round.kind, f, Held(f))
<1>. DEFINE r == Len(out)
            sent == IF r <= Len(source) /\ source[r].kind = Round.kind
                    THEN source[r].items[f] ELSE AbsentItem
<1>1. Held(f) = IF sent.shape = NoShape THEN Stray(f) ELSE sent
  BY DEF Held
<1>2. sent \in SenderItems(f)
  <2>1. r <= Len(source) => r \in 1..Len(source)
    BY DEF SenderProof
  <2>. QED
    BY <2>1, AbsentItemType DEF SenderProof
<1>. HIDE DEF sent
<1>. QED
  BY <1>1, <1>2, StrayType DEF Sendable

\* Whatever the decoder reads for a field is an arrival.
LEMMA ArrivalsType ==
    ASSUME SenderProof(source), Len(out) \in Nat \ {0}, NEW f \in Fields, NEW a \in Arrivals(f)
    PROVE  Arrival(Round.kind, f, a.written)
<1>. DEFINE item == Held(f)
            kind == Round.kind
            altered == AlteredItems(kind, f, item)
            Choices(i, n) == {[written |-> c, odd |-> n] : c \in CodingChoices(Written(f, i))}
            As(i, n) == [written |-> Written(f, i), odd |-> n]
<1>1. Sendable(kind, f, item) /\ \A x \in altered : Sendable(kind, f, x)
  <2>1. Sendable(kind, f, item)
    BY HeldType
  <2>. HIDE DEF kind, item
  <2>. QED
    BY <2>1, AlteredItemsType
<1>2. Arrivals(f) = {As(item, 0)} \cup {As(x, 1) : x \in altered} \cup Choices(item, 1)
                    \cup UNION {Choices(x, 2) : x \in altered}
  BY DEF Arrivals
<1>. HIDE DEF item, kind, altered, Choices, As
<1>3. \A x, n : Sendable(kind, f, x) => Arrival(kind, f, As(x, n).written)
  BY WrittenArrives DEF As
<1>4. \A x, n : Sendable(kind, f, x) => \A b \in Choices(x, n) : Arrival(kind, f, b.written)
  BY ChoiceArrives DEF Choices
<1>. QED
  BY <1>1, <1>2, <1>3, <1>4 DEF kind

-----------------------------------------------------------------------------
(***************************************************************************)
(* A field that is admitted is the encoding of what it decodes to.         *)
(***************************************************************************)
LEMMA ShapeDecodes ==
    ASSUME NEW kind, NEW f, NEW w, Arrival(kind, f, w)
    PROVE  /\ DecodedShape(w) \in Seq(Int)
           /\ Dimensions(DecodedShape(w)) = w.dims
           /\ (DecodedShape(w) # NoShape) = w.present
<1>1. w.dims \in Seq(Int) /\ Len(w.dims) \in {0, 2, 3} /\ (w.dims # <<>> => w.present)
      /\ w.present \in BOOLEAN
  BY DEF Arrival, WireFields, WireSlices, WirePolynomials
<1>2. Len(w.slice.data) + Len(w.polys) \in Int
  BY LenProperties DEF Arrival, WireFields, WireSlices, WirePolynomials
<1>3. CASE Len(w.dims) = 2
  <2>1. w.dims[1] \in Int /\ w.dims[2] \in Int /\ w.dims = <<w.dims[1], w.dims[2]>> /\ w.dims # <<>>
    <3>1. w.dims[1] \in Int /\ w.dims[2] \in Int
      BY <1>1, <1>3
    <3>2. w.dims = <<w.dims[1], w.dims[2]>>
      BY <1>1, <1>3
    <3>. QED
      BY <1>3, <3>1, <3>2
  <2>2. DecodedShape(w) = <<w.dims[2], w.dims[1]>>
    BY <1>3 DEF DecodedShape
  <2>3. \A a, b \in Int : /\ <<a, b>> \in Seq(Int) /\ <<a, b>> # <<>>
                          /\ Dimensions(<<a, b>>) = <<b, a>>
    BY DEF Dimensions
  <2>. QED
    BY <1>1, <2>1, <2>2, <2>3 DEF NoShape
<1>4. CASE Len(w.dims) = 3
  <2>1. /\ w.dims[1] \in Int /\ w.dims[2] \in Int /\ w.dims[3] \in Int
        /\ w.dims = <<w.dims[1], w.dims[2], w.dims[3]>> /\ w.dims # <<>>
    <3>1. w.dims[1] \in Int /\ w.dims[2] \in Int /\ w.dims[3] \in Int
      BY <1>1, <1>4
    <3>2. w.dims = <<w.dims[1], w.dims[2], w.dims[3]>>
      BY <1>1, <1>4
    <3>. QED
      BY <1>4, <3>1, <3>2
  <2>2. DecodedShape(w) = <<w.dims[2], w.dims[1], w.dims[3]>>
    BY <1>4 DEF DecodedShape
  <2>3. \A a, b, c \in Int : /\ <<a, b, c>> \in Seq(Int) /\ <<a, b, c>> # <<>>
                             /\ Dimensions(<<a, b, c>>) = <<b, a, c>>
    BY DEF Dimensions
  <2>4. /\ DecodedShape(w) \in Seq(Int) /\ DecodedShape(w) # <<>>
        /\ Dimensions(DecodedShape(w)) = <<w.dims[1], w.dims[2], w.dims[3]>>
    BY <2>1, <2>2, <2>3
  <2>5. w.present = TRUE
    BY <1>1, <2>1
  <2>. QED
    BY <2>1, <2>4, <2>5 DEF NoShape
<1>5. CASE Len(w.dims) = 0
  <2>1. w.dims = <<>>
    BY <1>1, <1>5, EmptySeq
  <2>2. DecodedShape(w) = IF w.present THEN <<Len(w.slice.data) + Len(w.polys)>> ELSE NoShape
    BY <1>5 DEF DecodedShape
  <2>3. \A n \in Int : <<n>> \in Seq(Int) /\ <<n>> # <<>> /\ Dimensions(<<n>>) = <<>>
    BY DEF Dimensions
  <2>4. NoShape \in Seq(Int) /\ Dimensions(NoShape) = <<>>
    BY DEF NoShape, Dimensions
  <2>. QED
    BY <1>1, <1>2, <2>1, <2>2, <2>3, <2>4 DEF NoShape
<1>. QED
  BY <1>1, <1>3, <1>4, <1>5

\* An arrival the decoder admits is what the encoder writes for its decoding:
\* the flip bit, the one label and a polynomial's count are not the sender's.
LEMMA Reencoded ==
    ASSUME NEW kind, NEW f, NEW w, Arrival(kind, f, w),
           SliceAdmitted(f, w.slice), \A i \in DOMAIN w.polys : PolynomialAdmitted(w.polys[i])
    PROVE  /\ Decoded(f, w) \in WireItems(f)
           /\ Written(f, Decoded(f, w)) = w
           /\ (Decoded(f, w).shape # NoShape) = w.present
<1>. DEFINE item == Decoded(f, w)
            Terms == WirePolynomials
<1>1. /\ w = [present |-> w.present, dims |-> w.dims, slice |-> w.slice, polys |-> w.polys]
      /\ w.slice = [uniform |-> w.slice.uniform, flip |-> w.slice.flip, data |-> w.slice.data]
      /\ w.slice.data \in Seq(Elements) /\ w.polys \in Seq(Terms)
  BY DEF Arrival, WireFields, WireSlices, WirePolynomials
<1>2. /\ item.shape = DecodedShape(w) /\ DecodedShape(w) \in Seq(Int)
      /\ Dimensions(DecodedShape(w)) = w.dims
      /\ (DecodedShape(w) # NoShape) = w.present
  BY ShapeDecodes DEF Decoded
<1>3. CASE f = "polys"
  <2>. DEFINE n == Len(w.polys)
  <2>1. n \in Nat /\ DOMAIN w.polys = 1..n /\ \A i \in 1..n : w.polys[i] \in Terms
    BY <1>1, LenProperties, ElementOfSeq
  <2>2. \A i \in 1..n : ~w.polys[i].zeroTop
    BY <2>1 DEF PolynomialAdmitted
  <2>3. item = [shape |-> DecodedShape(w), data |-> item.data]
    BY DEF Decoded
  <2>4. item.data = [i \in 1..n |-> Polynomial(w.polys[i].of, w.polys[i].count, w.polys[i].count)]
    <3>1. item.data = [i \in DOMAIN w.polys |->
                         Polynomial(w.polys[i].of, w.polys[i].count,
                                    IF w.polys[i].zeroTop THEN w.polys[i].count - 1
                                    ELSE w.polys[i].count)]
      BY <1>3 DEF Decoded
    <3>. HIDE DEF item, n
    <3>. QED
      BY <2>1, <2>2, <3>1
  <2>. HIDE DEF item, n
  <2>5. \A i \in 1..n : Polynomial(w.polys[i].of, w.polys[i].count, w.polys[i].count) \in Polynomials
    BY <2>1, PolynomialType DEF WirePolynomials
  <2>6. item.data \in Seq(Polynomials)
    BY <2>1, <2>4, <2>5
  <2>7. [i \in DOMAIN item.data |-> WrittenPolynomial(item.data[i])] = w.polys
    <3>1. \A i \in 1..n : WrittenPolynomial(Polynomial(w.polys[i].of, w.polys[i].count,
                                                       w.polys[i].count)) = w.polys[i]
      BY <2>1, <2>2 DEF WrittenPolynomial, Polynomial, WirePolynomials
    <3>2. w.polys = [i \in 1..n |-> w.polys[i]]
      BY <1>1, <2>1
    <3>3. DOMAIN item.data = 1..n /\ \A i \in 1..n : WrittenPolynomial(item.data[i]) = w.polys[i]
      BY <2>4, <3>1
    <3>. QED
      BY <3>2, <3>3
  <2>8. w.slice = WrittenSlice(f, <<>>)
    BY <1>3 DEF Arrival, WireFields, WireSlices, WirePolynomials
  <2>9. Written(f, item) = [present |-> w.present, dims |-> w.dims, slice |-> w.slice, polys |-> w.polys]
    BY <1>2, <1>3, <2>7, <2>8 DEF Written
  <2>. QED
    BY <1>1, <1>2, <1>3, <2>3, <2>6, <2>9 DEF item, WireItems
<1>4. CASE f # "polys"
  <2>1. item = [shape |-> DecodedShape(w), data |-> w.slice.data]
    BY <1>4 DEF Decoded
  <2>2. WrittenSlice(f, w.slice.data) = w.slice
    <3>1. CASE w.slice.data = <<>>
      BY <3>1 DEF Arrival, WireFields, WireSlices, WirePolynomials
    <3>2. CASE w.slice.data # <<>>
      <4>1. /\ w.slice.uniform /\ w.slice.flip = Flips(f, w.slice.data)
            /\ Uniform(w.slice.data)
        BY <3>2 DEF Arrival, WireFields, WireSlices, WirePolynomials, SliceAdmitted
      <4>2. w.slice.uniform = TRUE /\ Uniform(w.slice.data) = TRUE
        <5>1. w.slice.uniform \in BOOLEAN
          BY DEF Arrival, WireFields, WireSlices, WirePolynomials
        <5>. QED
          BY <4>1, <5>1 DEF Uniform
      <4>. QED
        BY <1>1, <4>1, <4>2 DEF WrittenSlice
    <3>. QED
      BY <3>1, <3>2
  <2>3. w.polys = <<>>
    BY <1>4 DEF Arrival, WireFields, WireSlices, WirePolynomials
  <2>. HIDE DEF item
  <2>4. Written(f, item) = [present |-> w.present, dims |-> w.dims, slice |-> w.slice, polys |-> w.polys]
    BY <1>2, <1>4, <2>1, <2>2, <2>3 DEF Written
  <2>. QED
    BY <1>1, <1>2, <1>4, <2>1, <2>4 DEF item, WireItems
<1>. QED
  BY <1>3, <1>4

-----------------------------------------------------------------------------
(***************************************************************************)
(* What a stream is made of.                                               *)
(***************************************************************************)
Tokens == ({"len", "degree"} \X Int) \cup ({"bit"} \X BOOLEAN) \cup ({"round"} \X ProofKinds)
          \cup {Representations[i] : i \in 1..4}
WireCells == Fields \X Entry \X (Int \cup {"coefficients", "resident"})

\* The tokens of the shape section.
LEMMA TokenTypes ==
    /\ \A n \in Int : <<"len", n>> \in Tokens /\ <<"degree", n>> \in Tokens
    /\ \A b \in BOOLEAN : Bit(b) \in Tokens
    /\ \A k \in ProofKinds : <<"round", k>> \in Tokens
    /\ \A t \in Tokens : <<t>> \in Seq(Tokens)
    /\ \A n \in Int : <<<<"len", n>>>> \in Seq(Tokens)
    /\ \A x \in Elements : x.held \in Tokens
    /\ <<>> \in Seq(Tokens) /\ <<>> \in Seq(WireCells)
<1>1. /\ \A n \in Int : <<"len", n>> \in Tokens /\ <<"degree", n>> \in Tokens
      /\ \A b \in BOOLEAN : Bit(b) \in Tokens
      /\ \A k \in ProofKinds : <<"round", k>> \in Tokens
      /\ \A x \in Elements : x.held \in Tokens
  BY DEF Tokens, Bit, Elements
<1>. HIDE DEF Tokens, WireCells
<1>2. \A t \in Tokens : <<t>> \in Seq(Tokens)
  OBVIOUS
<1>3. <<>> \in Seq(Tokens) /\ <<>> \in Seq(WireCells)
  BY EmptySeq
<1>4. \A n \in Int : <<<<"len", n>>>> \in Seq(Tokens)
  BY <1>1, <1>2
<1>. QED
  BY <1>1, <1>2, <1>3, <1>4

LEMMA SliceTokensType ==
    ASSUME NEW s \in WireSlices
    PROVE  SliceTokens(s) \in Seq(Tokens)
<1>. DEFINE n == Len(s.data)
            choice == <<Bit(s.uniform)>> \o Labels(s) \o <<Bit(s.flip)>>
<1>1. /\ n \in Nat /\ DOMAIN s.data = 1..n /\ \A i \in 1..n : s.data[i] \in Elements
      /\ s.uniform \in BOOLEAN /\ s.flip \in BOOLEAN
  BY LenProperties, ElementOfSeq DEF WireSlices
<1>2. <<<<"len", n>>>> \in Seq(Tokens)
  <2>1. n \in Int
    BY <1>1
  <2>. HIDE DEF n
  <2>. QED
    BY <2>1, TokenTypes
<1>3. ASSUME s.data # <<>> PROVE choice \in Seq(Tokens)
  <2>1. Labels(s) \in Seq(Tokens)
    <3>1. CASE s.uniform
      <4>1. 1 \in 1..n
        <5>1. n # 0
          BY <1>1, <1>3, EmptySeq DEF WireSlices
        <5>. HIDE DEF n
        <5>. QED
          BY <1>1, <5>1
      <4>2. Labels(s) = <<s.data[1].held>>
        BY <3>1 DEF Labels
      <4>. QED
        BY <1>1, <4>1, <4>2, TokenTypes
    <3>2. CASE ~s.uniform
      <4>1. Labels(s) = [i \in 1..n |-> s.data[i].held]
        BY <1>1, <3>2 DEF Labels
      <4>2. \A i \in 1..n : s.data[i].held \in Tokens
        BY <1>1, TokenTypes
      <4>. HIDE DEF n
      <4>. QED
        BY <1>1, <4>1, <4>2
    <3>. QED
      BY <3>1, <3>2
  <2>2. <<Bit(s.uniform)>> \in Seq(Tokens) /\ <<Bit(s.flip)>> \in Seq(Tokens)
    BY <1>1, TokenTypes
  <2>. QED
    BY <2>1, <2>2, ConcatProperties
<1>4. SliceTokens(s) = <<<<"len", n>>>> \o (IF s.data = <<>> THEN <<>> ELSE choice)
  BY DEF SliceTokens
<1>. HIDE DEF n, choice
<1>5. (IF s.data = <<>> THEN <<>> ELSE choice) \in Seq(Tokens)
  BY <1>3, TokenTypes
<1>. QED
  BY <1>2, <1>4, <1>5, ConcatProperties

LEMMA LengthsType ==
    ASSUME NEW numbers \in Seq(Int)
    PROVE  Lengths(numbers) \in Seq(Tokens)
<1>1. /\ Len(numbers) \in Nat /\ DOMAIN numbers = 1..Len(numbers)
      /\ \A i \in 1..Len(numbers) : numbers[i] \in Int
  BY LenProperties, ElementOfSeq
<1>2. \A i \in 1..Len(numbers) : <<"len", numbers[i]>> \in Tokens
  BY <1>1, TokenTypes
<1>3. Lengths(numbers) = [i \in 1..Len(numbers) |-> <<"len", numbers[i]>>]
  BY <1>1 DEF Lengths
<1>. QED
  BY <1>1, <1>2, <1>3

LEMMA FieldTokensType ==
    ASSUME NEW kind, NEW f, NEW w \in WireFields
    PROVE  FieldTokens(kind, f, w) \in Seq(Tokens)
<1>1. /\ w.present \in BOOLEAN /\ w.dims \in Seq(Int) /\ w.slice \in WireSlices
      /\ w.polys \in Seq(WirePolynomials)
  BY DEF WireFields
<1>. DEFINE n == Len(w.polys)
            body == Lengths(w.dims) \o SliceTokens(w.slice)
<1>2. n \in Nat /\ DOMAIN w.polys = 1..n /\ \A i \in 1..n : w.polys[i].count \in Int
  <2>1. n \in Nat /\ DOMAIN w.polys = 1..n /\ \A i \in 1..n : w.polys[i] \in WirePolynomials
    BY <1>1, LenProperties, ElementOfSeq
  <2>. QED
    BY <2>1 DEF WirePolynomials
<1>3. Lengths(w.dims) \in Seq(Tokens) /\ SliceTokens(w.slice) \in Seq(Tokens)
  BY <1>1, LengthsType, SliceTokensType
<1>4. body \in Seq(Tokens)
  BY <1>3, ConcatProperties
<1>5. CASE f = "polys"
  <2>. DEFINE degrees == [i \in 1..n |-> <<"degree", w.polys[i].count>>]
  <2>1. FieldTokens(kind, f, w) = <<<<"len", n>>>> \o degrees
    BY <1>2, <1>5 DEF FieldTokens
  <2>2. <<<<"len", n>>>> \in Seq(Tokens)
    <3>1. n \in Int
      BY <1>2
    <3>. HIDE DEF n
    <3>. QED
      BY <3>1, TokenTypes
  <2>3. \A i \in 1..n : <<"degree", w.polys[i].count>> \in Tokens
    BY <1>2, TokenTypes
  <2>4. degrees \in Seq(Tokens)
    <3>. HIDE DEF n
    <3>. QED
      BY <1>2, <2>3
  <2>. QED
    BY <2>1, <2>2, <2>4, ConcatProperties
<1>6. CASE f # "polys" /\ Optional(kind, f)
  <2>. DEFINE flag == IF f = "next" THEN <<Bit(w.dims # <<>>)>> ELSE <<>>
              rest == IF ~w.present THEN <<>>
                      ELSE (IF f = "next" THEN <<Bit(w.dims # <<>>)>> ELSE <<>>)
                           \o Lengths(w.dims) \o SliceTokens(w.slice)
  <2>1. FieldTokens(kind, f, w) = <<Bit(w.present)>> \o rest
    BY <1>6 DEF FieldTokens
  <2>2. <<Bit(w.present)>> \in Seq(Tokens) /\ flag \in Seq(Tokens)
    <3>1. (w.dims # <<>>) \in BOOLEAN
      OBVIOUS
    <3>. QED
      BY <1>1, <3>1, TokenTypes
  <2>3. rest \in Seq(Tokens)
    BY <1>3, <2>2, ConcatProperties, TokenTypes
  <2>. HIDE DEF rest
  <2>. QED
    BY <2>1, <2>2, <2>3, ConcatProperties
<1>7. CASE f # "polys" /\ ~Optional(kind, f)
  BY <1>4, <1>7 DEF FieldTokens
<1>. QED
  BY <1>5, <1>6, <1>7

\* The cells of a field.
LEMMA FieldCellsType ==
    ASSUME NEW f \in Fields, NEW w \in WireFields
    PROVE  FieldCells(f, w) \in Seq(WireCells)
<1>1. /\ w.present \in BOOLEAN /\ w.dims \in Seq(Int) /\ w.slice \in WireSlices
      /\ w.polys \in Seq(WirePolynomials)
  BY DEF WireFields
<1>2. CASE f = "polys"
  <2>. DEFINE n == Len(w.polys)
              coefficients == [i \in 1..n |-> PolynomialCells(w.polys[i])]
  <2>1. n \in Nat /\ DOMAIN w.polys = 1..n /\ \A i \in 1..n : w.polys[i] \in WirePolynomials
    BY <1>1, LenProperties, ElementOfSeq
  <2>2. \A p \in WirePolynomials : PolynomialCells(p) \in Seq(WireCells)
    <3>. TAKE p \in WirePolynomials
    <3>1. p.count \in Int /\ p.of \in Entry
      BY DEF WirePolynomials
    <3>2. PICK m \in Nat : 1..p.count = 1..m
      <4>1. CASE p.count \in Nat
        BY <4>1
      <4>2. CASE p.count \notin Nat
        <5>1. 1..p.count = 1..0 /\ 0 \in Nat
          BY <3>1, <4>2
        <5>. QED
          BY <5>1
      <4>. QED
        BY <4>1, <4>2
    <3>. DEFINE cell(i) == <<"polys", p.of, IF p.zeroTop /\ i = p.count THEN 0 ELSE i>>
    <3>3. \A i \in 1..m : cell(i) \in WireCells
      BY <3>1 DEF WireCells, Fields
    <3>4. PolynomialCells(p) = [i \in 1..m |-> cell(i)]
      BY <3>2 DEF PolynomialCells
    <3>. HIDE DEF cell
    <3>. QED
      BY <3>3, <3>4
  <2>3. FieldCells(f, w) = Seqs!FlattenSeq(coefficients)
    BY <1>2, <2>1 DEF FieldCells
  <2>4. coefficients \in Seq(Seq(WireCells))
    <3>. DEFINE T == Seq(WireCells)
    <3>1. \A i \in 1..n : PolynomialCells(w.polys[i]) \in T
      BY <2>1, <2>2
    <3>. HIDE DEF T, n
    <3>2. coefficients \in Seq(T)
      BY <2>1, <3>1
    <3>. QED
      BY <3>2 DEF T
  <2>. QED
    BY <2>3, <2>4, FlattenType
<1>3. CASE f # "polys"
  <2>. DEFINE n == Len(w.slice.data)
              cell(i) == <<f, w.slice.data[i].of,
                           IF w.slice.flip THEN "coefficients" ELSE "resident">>
  <2>1. n \in Nat /\ DOMAIN w.slice.data = 1..n /\ \A i \in 1..n : w.slice.data[i] \in Elements
    BY <1>1, LenProperties, ElementOfSeq DEF WireSlices
  <2>2. \A i \in 1..n : cell(i) \in WireCells
    BY <2>1 DEF WireCells, Elements
  <2>3. SliceCells(f, w.slice) = [i \in 1..n |-> cell(i)]
    BY <2>1 DEF SliceCells
  <2>. HIDE DEF n, cell
  <2>4. SliceCells(f, w.slice) \in Seq(WireCells)
    BY <2>1, <2>2, <2>3
  <2>. QED
    BY <1>3, <2>4, TokenTypes DEF FieldCells
<1>. QED
  BY <1>2, <1>3

-----------------------------------------------------------------------------
(***************************************************************************)
(* The sections of an encoded proof, field by field and round by round.    *)
(***************************************************************************)
Sections == {"shape", "cells"}
Alphabet(s) == IF s = "shape" THEN Tokens ELSE WireCells
Listed == Fields \cup {"fine", "descend"}

\* A round as it is decoded, and a chain of them.
DecodedRound(round) ==
    round.kind \in ProofKinds /\ \A f \in Fields : round.items[f] \in WireItems(f)
DecodedProof(proof) ==
    /\ Len(proof) \in Nat \ {0} /\ DOMAIN proof = 1..Len(proof)
    /\ \A r \in 1..Len(proof) : DecodedRound(proof[r])

\* A field that is written by itself.
Plain(proof, r, f) ==
    [shape |-> FieldTokens(proof[r].kind, f, Written(f, proof[r].items[f])),
     cells |-> FieldCells(f, Written(f, proof[r].items[f]))]

\* The fields of each kind of round.
LEMMA FieldsOfKind ==
    ASSUME NEW kind \in ProofKinds, NEW F, F = EncoderFields(kind)
    PROVE  /\ Len(F) \in Nat \ {0} /\ DOMAIN F = 1..Len(F)
           /\ \A i \in 1..Len(F) : F[i] \in Listed /\ F[i] # "constantTerm"
           /\ \A i, j \in 1..Len(F) : F[i] = F[j] => i = j
           /\ \A i \in 1..Len(F) : F[i] = "descend" => i = Len(F)
           /\ \A i \in 1..Len(F) : F[i] = "fine" => /\ kind = "Sumcheck"
                                                    /\ \A j \in 1..Len(F) : F[j] # "batched"
           /\ DecoderFields(kind) = F
<1>1. CASE kind = "Sumcheck"
  <2>1. F = <<"polys", "z0", "z1", "norm", "mostInnerNorm", "projectionNorm", "opening",
              "coarse", "fine", "constantTermClaims", "next", "descend">>
    BY <1>1 DEF EncoderFields
  <2>2. Len(F) = 12 /\ DOMAIN F = 1..12
    BY <2>1
  <2>3. \A i \in 1..12 : i \in {1, 2, 3, 4, 5, 6, 7, 8, 9, 10, 11, 12}
    OBVIOUS
  <2>4. DecoderFields(kind) = F
    BY <1>1, <2>1 DEF DecoderFields
  <2>5. \A i \in 1..12 : F[i] \in Listed /\ F[i] \notin {"constantTerm", "batched"}
    BY <2>1, <2>3 DEF Listed, Fields
  <2>6. \A i \in 1..12 : F[i] = "descend" => i = 12
    BY <2>1, <2>3
  <2>7. \A i, j \in 1..12 : F[i] = F[j] => i = j
    BY <2>1, <2>3
  <2>8. \A i \in 1..12 : F[i] = "fine" => kind = "Sumcheck" /\ \A j \in 1..12 : F[j] # "batched"
    BY <1>1, <2>5
  <2>9. \A i \in 1..12 : F[i] \in Listed /\ F[i] # "constantTerm"
    BY <2>5
  <2>. QED
    BY <2>2, <2>4, <2>6, <2>7, <2>8, <2>9
<1>2. CASE kind = "Simple"
  <2>1. F = <<"folded", "image", "batched", "opening">>
    BY <1>2 DEF EncoderFields
  <2>2. Len(F) = 4 /\ DOMAIN F = 1..4
    BY <2>1
  <2>3. \A i \in 1..4 : i \in {1, 2, 3, 4}
    OBVIOUS
  <2>4. DecoderFields(kind) = F
    BY <1>2, <2>1 DEF DecoderFields
  <2>5. \A i \in 1..4 : F[i] \in Listed /\ F[i] \notin {"constantTerm", "fine", "descend"}
    BY <2>1, <2>3 DEF Listed, Fields
  <2>6. \A i, j \in 1..4 : F[i] = F[j] => i = j
    BY <2>1, <2>3
  <2>. QED
    BY <2>2, <2>4, <2>5, <2>6
<1>3. CASE kind = "Intermediate"
  <2>1. F = <<"opening", "polys", "z0", "z1", "norm", "next", "image", "batched", "descend">>
    BY <1>3 DEF EncoderFields
  <2>2. Len(F) = 9 /\ DOMAIN F = 1..9
    BY <2>1
  <2>3. \A i \in 1..9 : i \in {1, 2, 3, 4, 5, 6, 7, 8, 9}
    OBVIOUS
  <2>4. DecoderFields(kind) = F
    BY <1>3, <2>1 DEF DecoderFields
  <2>5. \A i \in 1..9 : F[i] \in Listed /\ F[i] \notin {"constantTerm", "fine"}
    BY <2>1, <2>3 DEF Listed, Fields
  <2>6. \A i \in 1..9 : F[i] = "descend" => i = 9
    BY <2>1, <2>3
  <2>7. \A i, j \in 1..9 : F[i] = F[j] => i = j
    BY <2>1, <2>3
  <2>. QED
    BY <2>2, <2>4, <2>5, <2>6, <2>7
<1>4. CASE kind = "Claims"
  <2>1. F = <<"polys", "z0", "z1">>
    BY <1>4 DEF EncoderFields
  <2>2. Len(F) = 3 /\ DOMAIN F = 1..3
    BY <2>1
  <2>3. \A i \in 1..3 : i \in {1, 2, 3}
    OBVIOUS
  <2>4. DecoderFields(kind) = F
    BY <1>4, <2>1 DEF DecoderFields
  <2>5. \A i \in 1..3 : F[i] \in Listed /\ F[i] \notin {"constantTerm", "fine", "descend"}
    BY <2>1, <2>3 DEF Listed, Fields
  <2>6. \A i, j \in 1..3 : F[i] = F[j] => i = j
    BY <2>1, <2>3
  <2>. QED
    BY <2>2, <2>4, <2>5, <2>6
<1>. QED
  BY <1>1, <1>2, <1>3, <1>4 DEF ProofKinds, Kinds

LEMMA PlainType ==
    ASSUME NEW proof, DecodedProof(proof), NEW r \in 1..Len(proof), NEW f \in Fields
    PROVE  /\ Plain(proof, r, f).shape \in Seq(Tokens)
           /\ Plain(proof, r, f).cells \in Seq(WireCells)
<1>1. Written(f, proof[r].items[f]) \in WireFields
  BY WrittenType DEF DecodedProof, DecodedRound
<1>. QED
  BY <1>1, FieldTokensType, FieldCellsType DEF Plain

LEMMA PlainField ==
    ASSUME NEW proof, NEW r, NEW f, f \notin {"fine", "descend"}
    PROVE  FieldOf(proof, r, f) = Plain(proof, r, f)
BY DEF FieldOf, Plain

LEMMA FlattenPair ==
    ASSUME NEW S, NEW a \in Seq(S), NEW b \in Seq(S), NEW seqs, seqs = <<a, b>>
    PROVE  Seqs!FlattenSeq(seqs) = a \o b
<1>. DEFINE T == Seq(S)
<1>1. <<a>> \in Seq(T) /\ <<a, b>> \in Seq(T)
  <2>1. a \in T /\ b \in T
    OBVIOUS
  <2>. HIDE DEF T
  <2>. QED
    BY <2>1
<1>. DEFINE one == <<a>>
            two == <<a, b>>
<1>2. /\ Len(one) = 0 + 1 /\ one[0 + 1] = a
      /\ Len(two) = 1 + 1 /\ one = [i \in 1..1 |-> two[i]] /\ two[1 + 1] = b
      /\ one \in Seq(Seq(S)) /\ two \in Seq(Seq(S))
  <2>1. Len(one) = 0 + 1 /\ Len(two) = 1 + 1 /\ one[0 + 1] = a /\ two[1 + 1] = b
    OBVIOUS
  <2>2. one = [i \in 1..1 |-> two[i]]
    OBVIOUS
  <2>. QED
    BY <1>1, <2>1, <2>2
<1>. HIDE DEF one, two
<1>3. \A seqs_, front_, n : /\ seqs_ \in Seq(Seq(S)) /\ n \in Nat /\ Len(seqs_) = n + 1
                            /\ front_ = [i \in 1..n |-> seqs_[i]]
                            => Seqs!FlattenSeq(seqs_) = Seqs!FlattenSeq(front_) \o seqs_[n + 1]
  BY FlattenLast
<1>4. Seqs!FlattenSeq(one) = a
  <2>1. Len(one) = 1 /\ one[1] = a
    BY <1>2
  <2>2. PICK f \in [1..Len(one) -> Seq(S)] :
          Flattening(one, Len(one), f) /\ Seqs!FlattenSeq(one) = f[Len(one)]
    <3>1. one \in Seq(Seq(S)) /\ Len(one) # 0
      BY <1>2
    <3>. QED
      BY <3>1, Flattened
  <2>3. f[1] = one[1]
    BY <2>1, <2>2 DEF Flattening
  <2>. QED
    BY <2>1, <2>2, <2>3
<1>5. Seqs!FlattenSeq(two) = Seqs!FlattenSeq(one) \o two[1 + 1]
  BY <1>2, <1>3
<1>. QED
  BY <1>2, <1>4, <1>5 DEF two

\* A fine projection is a flag, and both its roots or neither.
LEMMA FineField ==
    ASSUME NEW proof, DecodedProof(proof), NEW r \in 1..Len(proof)
    PROVE  IF proof[r].items["constantTerm"].shape # NoShape
           THEN /\ FieldOf(proof, r, "fine").shape =
                     (<<Bit(TRUE)>> \o Plain(proof, r, "constantTerm").shape)
                     \o Plain(proof, r, "batched").shape
                /\ FieldOf(proof, r, "fine").cells =
                     Plain(proof, r, "constantTerm").cells \o Plain(proof, r, "batched").cells
           ELSE /\ FieldOf(proof, r, "fine").shape = <<Bit(FALSE)>>
                /\ FieldOf(proof, r, "fine").cells = <<>>
<1>1. "constantTerm" \in Fields /\ "batched" \in Fields
  BY DEF Fields
<1>2. Written("constantTerm", proof[r].items["constantTerm"]).present
        = (proof[r].items["constantTerm"].shape # NoShape)
  BY DEF Written
<1>3. CASE proof[r].items["constantTerm"].shape # NoShape
  <2>. DEFINE a == Plain(proof, r, "constantTerm")
              b == Plain(proof, r, "batched")
              both == <<"constantTerm", "batched">>
              written(g) == Written(g, proof[r].items[g])
              kind == proof[r].kind
  <2>1. a.shape \in Seq(Tokens) /\ a.cells \in Seq(WireCells)
        /\ b.shape \in Seq(Tokens) /\ b.cells \in Seq(WireCells)
    BY <1>1, PlainType
  <2>2. /\ [i \in 1..2 |-> FieldTokens(kind, both[i], written(both[i]))] = <<a.shape, b.shape>>
        /\ [i \in 1..2 |-> FieldCells(both[i], written(both[i]))] = <<a.cells, b.cells>>
    <3>1. both[1] = "constantTerm" /\ both[2] = "batched"
      OBVIOUS
    <3>2. /\ FieldTokens(kind, "constantTerm", written("constantTerm")) = a.shape
          /\ FieldTokens(kind, "batched", written("batched")) = b.shape
          /\ FieldCells("constantTerm", written("constantTerm")) = a.cells
          /\ FieldCells("batched", written("batched")) = b.cells
      BY DEF Plain
    <3>. HIDE DEF both, a, b, written, kind
    <3>3. \A i \in 1..2 : i = 1 \/ i = 2
      OBVIOUS
    <3>. QED
      BY <3>1, <3>2, <3>3
  <2>3. /\ FieldOf(proof, r, "fine").shape =
             <<Bit(TRUE)>> \o Seqs!FlattenSeq([i \in 1..2 |->
                                 FieldTokens(kind, both[i], written(both[i]))])
        /\ FieldOf(proof, r, "fine").cells =
             Seqs!FlattenSeq([i \in 1..2 |-> FieldCells(both[i], written(both[i]))])
    BY <1>2, <1>3 DEF FieldOf
  <2>. HIDE DEF a, b, both, written, kind
  <2>4. /\ Seqs!FlattenSeq(<<a.shape, b.shape>>) = a.shape \o b.shape
        /\ Seqs!FlattenSeq(<<a.cells, b.cells>>) = a.cells \o b.cells
    BY <2>1, FlattenPair
  <2>5. <<Bit(TRUE)>> \in Seq(Tokens)
    BY TokenTypes
  <2>6. <<Bit(TRUE)>> \o (a.shape \o b.shape) = (<<Bit(TRUE)>> \o a.shape) \o b.shape
    <3>1. \A x, y, z \in Seq(Tokens) : (x \o y) \o z = x \o (y \o z)
      BY Associative, SMTT(60)
    <3>. QED
      BY <2>1, <2>5, <3>1
  <2>. QED
    BY <1>3, <2>2, <2>3, <2>4, <2>6 DEF a, b
<1>4. CASE proof[r].items["constantTerm"].shape = NoShape
  BY <1>2, <1>4 DEF FieldOf
<1>. QED
  BY <1>3, <1>4

\* The flag of the next round, and its tag.
LEMMA DescendField ==
    ASSUME NEW proof, DecodedProof(proof), NEW r \in 1..Len(proof)
    PROVE  /\ r = Len(proof) => FieldOf(proof, r, "descend").shape = <<Bit(FALSE)>>
           /\ r # Len(proof) => FieldOf(proof, r, "descend").shape =
                                   <<Bit(TRUE), <<"round", proof[r + 1].kind>>>>
           /\ FieldOf(proof, r, "descend").cells = <<>>
BY DEF FieldOf

\* Every field of a section is a sequence over its alphabet.
LEMMA FieldOfType ==
    ASSUME NEW proof, DecodedProof(proof), NEW r \in 1..Len(proof), NEW f \in Listed,
           NEW s \in Sections
    PROVE  FieldOf(proof, r, f)[s] \in Seq(Alphabet(s))
<1>1. \/ s = "shape" /\ Alphabet(s) = Tokens
      \/ s = "cells" /\ Alphabet(s) = WireCells
  <2>1. s = "shape" \/ s = "cells"
    BY DEF Sections
  <2>2. Alphabet("shape") = Tokens /\ Alphabet("cells") = WireCells
    BY DEF Alphabet
  <2>. QED
    BY <2>1, <2>2
<1>2. SUFFICES /\ FieldOf(proof, r, f).shape \in Seq(Tokens)
               /\ FieldOf(proof, r, f).cells \in Seq(WireCells)
  BY <1>1
<1>3. /\ <<Bit(TRUE)>> \in Seq(Tokens) /\ <<Bit(FALSE)>> \in Seq(Tokens)
      /\ <<>> \in Seq(WireCells)
  BY TokenTypes
<1>4. CASE f = "fine"
  <2>1. "constantTerm" \in Fields /\ "batched" \in Fields
    BY DEF Fields
  <2>. DEFINE a == Plain(proof, r, "constantTerm")
              b == Plain(proof, r, "batched")
  <2>2. a.shape \in Seq(Tokens) /\ a.cells \in Seq(WireCells)
        /\ b.shape \in Seq(Tokens) /\ b.cells \in Seq(WireCells)
    BY <2>1, PlainType
  <2>3. /\ (<<Bit(TRUE)>> \o a.shape) \o b.shape \in Seq(Tokens)
        /\ a.cells \o b.cells \in Seq(WireCells)
    BY <1>3, <2>2, ConcatProperties
  <2>4. CASE proof[r].items["constantTerm"].shape # NoShape
    <3>1. /\ FieldOf(proof, r, "fine").shape = (<<Bit(TRUE)>> \o a.shape) \o b.shape
          /\ FieldOf(proof, r, "fine").cells = a.cells \o b.cells
      BY <2>4, FineField
    <3>. QED
      BY <1>4, <2>3, <3>1
  <2>5. CASE proof[r].items["constantTerm"].shape = NoShape
    <3>1. FieldOf(proof, r, f).shape = <<Bit(FALSE)>> /\ FieldOf(proof, r, f).cells = <<>>
      BY <1>4, <2>5, FineField
    <3>. QED
      BY <1>3, <3>1
  <2>. QED
    BY <2>4, <2>5
<1>5. CASE f = "descend"
  <2>. DEFINE n == Len(proof)
  <2>1. r # n => r + 1 \in 1..n
    <3>1. n \in Nat /\ r \in 1..n
      BY DEF DecodedProof
    <3>. HIDE DEF n
    <3>. QED
      BY <3>1
  <2>2. r # Len(proof) => <<"round", proof[r + 1].kind>> \in Tokens
    BY <2>1, TokenTypes DEF DecodedProof, DecodedRound
  <2>3. \A t, u \in Tokens : <<t, u>> \in Seq(Tokens)
    OBVIOUS
  <2>4. Bit(TRUE) \in Tokens
    BY TokenTypes
  <2>5. r # Len(proof) => <<Bit(TRUE), <<"round", proof[r + 1].kind>>>> \in Seq(Tokens)
    BY <2>2, <2>3, <2>4
  <2>6. CASE r = Len(proof)
    <3>1. FieldOf(proof, r, f).shape = <<Bit(FALSE)>> /\ FieldOf(proof, r, f).cells = <<>>
      BY <1>5, <2>6, DescendField
    <3>. QED
      BY <1>3, <3>1
  <2>7. CASE r # Len(proof)
    <3>1. /\ FieldOf(proof, r, f).shape = <<Bit(TRUE), <<"round", proof[r + 1].kind>>>>
          /\ FieldOf(proof, r, f).cells = <<>>
      BY <1>5, <2>7, DescendField
    <3>. QED
      BY <1>3, <2>5, <2>7, <3>1
  <2>. QED
    BY <2>6, <2>7
<1>6. CASE f \notin {"fine", "descend"}
  <2>1. f \in Fields
    BY <1>6 DEF Listed
  <2>. QED
    BY <1>6, <2>1, PlainField, PlainType
<1>. QED
  BY <1>4, <1>5, <1>6

\* What a field is written as depends on the items it is about.
LEMMA PlainSame ==
    ASSUME NEW p, NEW q, NEW r, NEW f, f \notin {"fine", "descend"},
           p[r].kind = q[r].kind, p[r].items[f] = q[r].items[f]
    PROVE  FieldOf(p, r, f) = FieldOf(q, r, f)
BY PlainField DEF Plain

LEMMA FineSame ==
    ASSUME NEW p, NEW q, NEW r, p[r].kind = q[r].kind,
           p[r].items["constantTerm"] = q[r].items["constantTerm"],
           p[r].items["batched"] = q[r].items["batched"]
    PROVE  FieldOf(p, r, "fine") = FieldOf(q, r, "fine")
<1>. DEFINE both == <<"constantTerm", "batched">>
<1>1. \A i \in 1..2 : p[r].items[both[i]] = q[r].items[both[i]]
  <2>1. \A i \in 1..2 : i = 1 \/ i = 2
    OBVIOUS
  <2>. QED
    BY <2>1
<1>. HIDE DEF both
<1>2. /\ [i \in 1..2 |-> FieldTokens(p[r].kind, both[i], Written(both[i], p[r].items[both[i]]))]
           = [i \in 1..2 |-> FieldTokens(q[r].kind, both[i], Written(both[i], q[r].items[both[i]]))]
      /\ [i \in 1..2 |-> FieldCells(both[i], Written(both[i], p[r].items[both[i]]))]
           = [i \in 1..2 |-> FieldCells(both[i], Written(both[i], q[r].items[both[i]]))]
  BY <1>1
<1>3. Written("constantTerm", p[r].items["constantTerm"])
        = Written("constantTerm", q[r].items["constantTerm"])
  OBVIOUS
<1>. QED
  BY <1>2, <1>3 DEF FieldOf, both

LEMMA DescendSame ==
    ASSUME NEW p, NEW q, NEW r \in Nat, (r = Len(p) <=> r = Len(q)),
           r # Len(p) => p[r + 1].kind = q[r + 1].kind
    PROVE  FieldOf(p, r, "descend") = FieldOf(q, r, "descend")
BY DEF FieldOf

\* The first fields of a round, and the first rounds.
RoundSection(proof, r, k, s) ==
    Seqs!FlattenSeq([i \in 1..k |-> FieldOf(proof, r, EncoderFields(proof[r].kind)[i])[s]])
WholeRound(proof, r, s) == RoundSection(proof, r, Len(EncoderFields(proof[r].kind)), s)
AboveSection(proof, n, s) == Seqs!FlattenSeq([r \in 1..n |-> WholeRound(proof, r, s)])

\* An encoding is its rounds, one after another.
LEMMA EncodeIs ==
    ASSUME NEW proof, DecodedProof(proof), NEW s \in Sections
    PROVE  Encode(proof)[s] = AboveSection(proof, Len(proof), s)
<1>. DEFINE fields(r) == EncoderFields(proof[r].kind)
            section(t) ==
              Seqs!FlattenSeq([r \in DOMAIN proof |->
                  Seqs!FlattenSeq([i \in DOMAIN fields(r) |-> FieldOf(proof, r, fields(r)[i])[t]])])
<1>1. Encode(proof) = [shape |-> section("shape"), cells |-> section("cells")]
  BY DEF Encode
<1>2. Encode(proof)[s] = section(s)
  <2>. HIDE DEF section
  <2>. QED
    BY <1>1 DEF Sections
<1>3. DOMAIN proof = 1..Len(proof) /\ \A r \in 1..Len(proof) : DOMAIN fields(r) = 1..Len(fields(r))
  BY FieldsOfKind DEF DecodedProof, DecodedRound
<1>4. \A r \in 1..Len(proof) :
        Seqs!FlattenSeq([i \in DOMAIN fields(r) |-> FieldOf(proof, r, fields(r)[i])[s]])
          = WholeRound(proof, r, s)
  BY <1>3 DEF WholeRound, RoundSection
<1>5. [r \in DOMAIN proof |->
         Seqs!FlattenSeq([i \in DOMAIN fields(r) |-> FieldOf(proof, r, fields(r)[i])[s]])]
        = [r \in 1..Len(proof) |-> WholeRound(proof, r, s)]
  BY <1>3, <1>4
<1>. QED
  BY <1>2, <1>5 DEF AboveSection

LEMMA SectionTypes ==
    ASSUME NEW proof, DecodedProof(proof), NEW s \in Sections
    PROVE  /\ \A r \in 1..Len(proof) : \A k \in 0..Len(EncoderFields(proof[r].kind)) :
                /\ [i \in 1..k |-> FieldOf(proof, r, EncoderFields(proof[r].kind)[i])[s]]
                     \in Seq(Seq(Alphabet(s)))
                /\ RoundSection(proof, r, k, s) \in Seq(Alphabet(s))
           /\ \A n \in 0..Len(proof) :
                /\ [r \in 1..n |-> WholeRound(proof, r, s)] \in Seq(Seq(Alphabet(s)))
                /\ AboveSection(proof, n, s) \in Seq(Alphabet(s))
<1>. DEFINE F(r) == EncoderFields(proof[r].kind)
            T == Seq(Alphabet(s))
            Part(r, i) == FieldOf(proof, r, F(r)[i])[s]
<1>1. \A r \in 1..Len(proof) : /\ Len(F(r)) \in Nat
                               /\ \A i \in 1..Len(F(r)) : F(r)[i] \in Listed
  BY FieldsOfKind DEF DecodedProof, DecodedRound
<1>. HIDE DEF F
<1>2. \A r \in 1..Len(proof) : \A i \in 1..Len(F(r)) : Part(r, i) \in T
  BY <1>1, FieldOfType
<1>. HIDE DEF T, Part
<1>3. \A r \in 1..Len(proof) : \A k \in 0..Len(F(r)) : [i \in 1..k |-> Part(r, i)] \in Seq(T)
  <2>. TAKE r \in 1..Len(proof)
  <2>. TAKE k \in 0..Len(F(r))
  <2>1. k \in Nat /\ \A i \in 1..k : Part(r, i) \in T
    BY <1>1, <1>2
  <2>. QED
    BY <2>1
<1>4. \A r \in 1..Len(proof) : \A k \in 0..Len(F(r)) : RoundSection(proof, r, k, s) \in T
  BY <1>3, FlattenType DEF RoundSection, Part, F, T
<1>5. \A r \in 1..Len(proof) : WholeRound(proof, r, s) \in T
  BY <1>1, <1>4 DEF WholeRound, F
<1>6. \A n \in 0..Len(proof) : [r \in 1..n |-> WholeRound(proof, r, s)] \in Seq(T)
  <2>. TAKE n \in 0..Len(proof)
  <2>1. n \in Nat /\ \A r \in 1..n : WholeRound(proof, r, s) \in T
    BY <1>5 DEF DecodedProof
  <2>. QED
    BY <2>1
<1>7. \A n \in 0..Len(proof) : AboveSection(proof, n, s) \in T
  BY <1>6, FlattenType DEF AboveSection, T
<1>. QED
  BY <1>3, <1>4, <1>6, <1>7 DEF Part, F, T

\* One field, and one round, more.
LEMMA RoundGrows ==
    ASSUME NEW proof, DecodedProof(proof), NEW s \in Sections, NEW r \in 1..Len(proof),
           NEW k \in Nat, k < Len(EncoderFields(proof[r].kind))
    PROVE  RoundSection(proof, r, k + 1, s) =
             RoundSection(proof, r, k, s) \o FieldOf(proof, r, EncoderFields(proof[r].kind)[k + 1])[s]
<1>. DEFINE F == EncoderFields(proof[r].kind)
            seqs == [i \in 1..(k + 1) |-> FieldOf(proof, r, F[i])[s]]
            front == [i \in 1..k |-> FieldOf(proof, r, F[i])[s]]
<1>1. k + 1 \in 0..Len(F) /\ k + 1 \in Nat
  BY FieldsOfKind DEF DecodedProof, DecodedRound
<1>2. seqs \in Seq(Seq(Alphabet(s)))
  BY <1>1, SectionTypes
<1>3. Len(seqs) = k + 1 /\ front = [i \in 1..k |-> seqs[i]] /\ seqs[k + 1] = FieldOf(proof, r, F[k + 1])[s]
  BY <1>1
<1>4. RoundSection(proof, r, k + 1, s) = Seqs!FlattenSeq(seqs)
      /\ RoundSection(proof, r, k, s) = Seqs!FlattenSeq(front)
  BY DEF RoundSection
<1>. HIDE DEF seqs, front
<1>5. Seqs!FlattenSeq(seqs) = Seqs!FlattenSeq(front) \o seqs[k + 1]
  BY <1>2, <1>3, FlattenLast, ZenonT(60)
<1>. QED
  BY <1>3, <1>4, <1>5

LEMMA AboveGrows ==
    ASSUME NEW proof, DecodedProof(proof), NEW s \in Sections, NEW n \in Nat, n < Len(proof)
    PROVE  AboveSection(proof, n + 1, s) = AboveSection(proof, n, s) \o WholeRound(proof, n + 1, s)
<1>. DEFINE seqs == [r \in 1..(n + 1) |-> WholeRound(proof, r, s)]
            front == [r \in 1..n |-> WholeRound(proof, r, s)]
<1>1. n + 1 \in 0..Len(proof) /\ n + 1 \in Nat
  BY DEF DecodedProof
<1>2. seqs \in Seq(Seq(Alphabet(s)))
  BY <1>1, SectionTypes
<1>3. Len(seqs) = n + 1 /\ front = [i \in 1..n |-> seqs[i]] /\ seqs[n + 1] = WholeRound(proof, n + 1, s)
  BY <1>1
<1>4. AboveSection(proof, n + 1, s) = Seqs!FlattenSeq(seqs)
      /\ AboveSection(proof, n, s) = Seqs!FlattenSeq(front)
  BY DEF AboveSection
<1>. HIDE DEF seqs, front
<1>5. Seqs!FlattenSeq(seqs) = Seqs!FlattenSeq(front) \o seqs[n + 1]
  BY <1>2, <1>3, FlattenLast
<1>. QED
  BY <1>3, <1>4, <1>5

\* Before the first field, and above the first round, nothing is written.
LEMMA NothingYet ==
    ASSUME NEW proof, NEW r, NEW s
    PROVE  RoundSection(proof, r, 0, s) = <<>> /\ AboveSection(proof, 0, s) = <<>>
BY DEF RoundSection, AboveSection, Seqs!FlattenSeq

\* Sections are the same where their fields are.
LEMMA RoundSame ==
    ASSUME NEW p, NEW q, NEW r, NEW k, NEW s, p[r].kind = q[r].kind,
           \A i \in 1..k : FieldOf(p, r, EncoderFields(p[r].kind)[i])
                             = FieldOf(q, r, EncoderFields(p[r].kind)[i])
    PROVE  RoundSection(p, r, k, s) = RoundSection(q, r, k, s)
<1>1. [i \in 1..k |-> FieldOf(p, r, EncoderFields(p[r].kind)[i])[s]]
        = [i \in 1..k |-> FieldOf(q, r, EncoderFields(q[r].kind)[i])[s]]
  OBVIOUS
<1>. QED
  BY <1>1 DEF RoundSection

LEMMA AboveSame ==
    ASSUME NEW p, NEW q, NEW n, NEW s,
           \A r \in 1..n : /\ p[r].kind = q[r].kind
                           /\ \A i \in 1..Len(EncoderFields(p[r].kind)) :
                                FieldOf(p, r, EncoderFields(p[r].kind)[i])
                                  = FieldOf(q, r, EncoderFields(p[r].kind)[i])
    PROVE  AboveSection(p, n, s) = AboveSection(q, n, s)
<1>1. \A r \in 1..n : WholeRound(p, r, s) = WholeRound(q, r, s)
  BY RoundSame DEF WholeRound
<1>2. [r \in 1..n |-> WholeRound(p, r, s)] = [r \in 1..n |-> WholeRound(q, r, s)]
  BY <1>1
<1>. QED
  BY <1>2 DEF AboveSection

-----------------------------------------------------------------------------
(***************************************************************************)
(* The inductive invariant: what has been read of the stream is what the   *)
(* encoder would write for what has been decoded.                          *)
(***************************************************************************)
Stream(s) == IF s = "shape" THEN shape ELSE cells

\* What the encoder writes for the rounds above the last one, and for the first
\* k fields of that.
WrittenSoFar(k, s) ==
    AboveSection(out, Len(out) - 1, s) \o RoundSection(out, Len(out), k, s)

\* Between two fields.  Until the flag of a fine projection is read, nothing of
\* the projection has been.
Between(k) ==
    LET F == EncoderFields(Round.kind)
    IN /\ Len(todo) = Len(F) - k
       /\ \A i \in 1..Len(todo) : todo[i] = F[k + i]
       /\ \A i \in 1..Len(todo) :
            todo[i] = "fine" => Round.items["constantTerm"].shape = NoShape
       /\ \A s \in Sections : Stream(s) = WrittenSoFar(k, s)

\* Past the flag of a fine projection, with both of its roots still to be read.
PairOpen(k) ==
    LET F == EncoderFields(Round.kind)
    IN /\ k < Len(F) /\ F[k + 1] = "fine"
       /\ Len(todo) = Len(F) - k + 1
       /\ todo[1] = "constantTerm" /\ todo[2] = "batched"
       /\ \A i \in 3..Len(todo) : todo[i] = F[k + i - 1]
       /\ shape = Append(WrittenSoFar(k, "shape"), Bit(TRUE))
       /\ cells = WrittenSoFar(k, "cells")

\* Between the two roots of a fine projection.
PairHalf(k) ==
    LET F == EncoderFields(Round.kind)
        constantTerm == Plain(out, Len(out), "constantTerm")
    IN /\ k < Len(F) /\ F[k + 1] = "fine"
       /\ Len(todo) = Len(F) - k
       /\ todo[1] = "batched"
       /\ \A i \in 2..Len(todo) : todo[i] = F[k + i]
       /\ Round.items["constantTerm"].shape # NoShape
       /\ shape = Append(WrittenSoFar(k, "shape"), Bit(TRUE)) \o constantTerm.shape
       /\ cells = WrittenSoFar(k, "cells") \o constantTerm.cells

DecodedRounds ==
    {round \in [kind : ProofKinds,
                items : [Fields -> [shape : Seq(Int), data : Seq(Polynomials) \cup Seq(Elements)]]] :
        DecodedRound(round)}

WireType ==
    /\ SenderProof(source)
    /\ out \in Seq(DecodedRounds) /\ Len(out) # 0
    /\ todo \in Seq(Listed)
    /\ roundsLeft \in Nat
    /\ status \in {"reading", "accepted", "malformed"}

WireInv ==
    /\ WireType
    /\ status = "reading" =>
         \E k \in 0..Len(EncoderFields(Round.kind)) : Between(k) \/ PairOpen(k) \/ PairHalf(k)
    /\ AcceptsOnlyTheEncoding

\* What the encoder writes for a round depends on nothing below it but the tag.
LEMMA RoundUnchanged ==
    ASSUME NEW p, NEW q, NEW r \in Nat, p[r] = q[r], (r = Len(p) <=> r = Len(q)),
           r # Len(p) => p[r + 1].kind = q[r + 1].kind
    PROVE  \A g : FieldOf(p, r, g) = FieldOf(q, r, g)
<1>. TAKE g
<1>1. CASE g = "fine"
  BY <1>1, FineSame
<1>2. CASE g = "descend"
  BY <1>2, DescendSame
<1>3. CASE g \notin {"fine", "descend"}
  BY <1>3, PlainSame
<1>. QED
  BY <1>1, <1>2, <1>3

LEMMA AboveUnchanged ==
    ASSUME NEW p, NEW q, NEW n \in Nat, NEW s, Len(p) \in Nat, Len(q) \in Nat,
           n < Len(p), n < Len(q), \A r \in 1..n : p[r] = q[r], p[n + 1].kind = q[n + 1].kind
    PROVE  AboveSection(p, n, s) = AboveSection(q, n, s)
<1>1. \A r \in 1..n : /\ p[r] = q[r] /\ r # Len(p) /\ r # Len(q)
                      /\ p[r + 1].kind = q[r + 1].kind
  <2>. TAKE r \in 1..n
  <2>1. r + 1 \in 1..n \/ r = n
    OBVIOUS
  <2>2. r # Len(p) /\ r # Len(q)
    OBVIOUS
  <2>. QED
    BY <2>1, <2>2
<1>2. \A r \in 1..n : \A g : FieldOf(p, r, g) = FieldOf(q, r, g)
  <2>. TAKE r \in 1..n
  <2>1. /\ p[r] = q[r] /\ (r = Len(p) <=> r = Len(q))
        /\ r # Len(p) => p[r + 1].kind = q[r + 1].kind
    BY <1>1
  <2>2. r \in Nat
    OBVIOUS
  <2>. QED
    BY <2>1, <2>2, RoundUnchanged
<1>. QED
  BY <1>1, <1>2, AboveSame, SMTT(60)

\* A field that has not been written yet may change.
Untouched(F, f, k) ==
    /\ \A i \in 1..k : F[i] # f
    /\ f \in {"constantTerm", "batched"} => \A i \in 1..k : F[i] # "fine"

LEMMA SectionUnchanged ==
    ASSUME NEW p, NEW q, NEW r \in Nat, NEW f \in Fields, NEW k, NEW s, NEW F,
           p[r].kind = q[r].kind, F = EncoderFields(p[r].kind),
           \A g \in Fields : g # f => p[r].items[g] = q[r].items[g],
           (r = Len(p) <=> r = Len(q)), r # Len(p) => p[r + 1].kind = q[r + 1].kind,
           \A i \in 1..k : F[i] \in Listed, Untouched(F, f, k)
    PROVE  RoundSection(p, r, k, s) = RoundSection(q, r, k, s)
<1>1. \A i \in 1..k : FieldOf(p, r, F[i]) = FieldOf(q, r, F[i])
  <2>. TAKE i \in 1..k
  <2>1. CASE F[i] = "fine"
    <3>1. /\ "constantTerm" \in Fields /\ "constantTerm" # f
          /\ "batched" \in Fields /\ "batched" # f
      BY <2>1 DEF Fields, Untouched
    <3>. QED
      BY <2>1, <3>1, FineSame
  <2>2. CASE F[i] = "descend"
    BY <2>2, DescendSame
  <2>3. CASE F[i] \notin {"fine", "descend"}
    <3>1. F[i] \in Fields /\ F[i] # f
      BY <2>3 DEF Listed, Untouched
    <3>. QED
      BY <2>3, <3>1, PlainSame
  <2>. QED
    BY <2>1, <2>2, <2>3
<1>. QED
  BY <1>1, RoundSame

\* The decoded rounds are a proof.
LEMMA DecodedRoundsType ==
    ASSUME NEW o \in Seq(DecodedRounds), Len(o) # 0
    PROVE  /\ DecodedProof(o)
           /\ \A r \in 1..Len(o) : o[r] \in DecodedRounds
<1>1. /\ Len(o) \in Nat \ {0} /\ DOMAIN o = 1..Len(o)
      /\ \A r \in 1..Len(o) : o[r] \in DecodedRounds
  BY LenProperties, ElementOfSeq
<1>2. \A x \in DecodedRounds : DecodedRound(x)
  BY DEF DecodedRounds
<1>. QED
  BY <1>1, <1>2 DEF DecodedProof

\* A round starts with nothing in it.
LEMMA NewRound ==
    ASSUME NEW kind \in ProofKinds
    PROVE  /\ [kind |-> kind, items |-> NoItems] \in DecodedRounds
           /\ NoItems["constantTerm"].shape = NoShape
<1>. DEFINE Any == [shape : Seq(Int), data : Seq(Polynomials) \cup Seq(Elements)]
<1>1. \A f \in Fields : AbsentItem \in WireItems(f) /\ AbsentItem \in Any
  <2>1. \A f \in Fields : AbsentItem \in WireItems(f)
    BY AbsentItemType DEF SenderItems
  <2>2. \A f : WireItems(f) \subseteq Any
    BY DEF WireItems
  <2>. QED
    BY <2>1, <2>2
<1>2. NoItems \in [Fields -> Any] /\ \A f \in Fields : NoItems[f] = AbsentItem
  BY <1>1 DEF NoItems
<1>3. AbsentItem.shape = NoShape /\ "constantTerm" \in Fields
  BY DEF AbsentItem, WireItem, Absent, Fields
<1>. HIDE DEF NoItems, AbsentItem, Any
<1>4. DecodedRound([kind |-> kind, items |-> NoItems])
  BY <1>1, <1>2 DEF DecodedRound
<1>. QED
  BY <1>2, <1>3, <1>4 DEF DecodedRounds, Any

\* The last round, with one of its items read.
Alters(o, p, f, item) ==
    /\ p \in Seq(DecodedRounds) /\ Len(p) = Len(o)
    /\ \A r \in 1..(Len(o) - 1) : p[r] = o[r]
    /\ p[Len(o)].kind = o[Len(o)].kind
    /\ \A g \in Fields : p[Len(o)].items[g] = IF g = f THEN item ELSE o[Len(o)].items[g]

\* Reading a field alters one item of the last round.
LEMMA ItemRead ==
    ASSUME NEW o \in Seq(DecodedRounds), Len(o) # 0, NEW f \in Fields,
           NEW item \in WireItems(f), NEW p, p = [o EXCEPT ![Len(o)].items[f] = item]
    PROVE  Alters(o, p, f, item)
<1>. DEFINE n == Len(o)
            Any == [shape : Seq(Int), data : Seq(Polynomials) \cup Seq(Elements)]
            items == [o[n].items EXCEPT ![f] = item]
            round == [o[n] EXCEPT !.items = items]
<1>1. /\ n \in Nat \ {0} /\ DOMAIN o = 1..n /\ n \in 1..n
      /\ \A r \in 1..n : o[r] \in DecodedRounds
  BY LenProperties, ElementOfSeq
<1>2. p = [o EXCEPT ![n] = round]
  OBVIOUS
<1>3. o[n].kind \in ProofKinds /\ o[n].items \in [Fields -> Any]
      /\ o[n] = [kind |-> o[n].kind, items |-> o[n].items]
      /\ \A g \in Fields : o[n].items[g] \in WireItems(g)
  <2>1. o[n] \in DecodedRounds
    BY <1>1
  <2>. QED
    BY <2>1 DEF DecodedRounds, DecodedRound
<1>4. item \in Any
  BY DEF WireItems
<1>. HIDE DEF Any
<1>5. items \in [Fields -> Any] /\ \A g \in Fields : items[g] = IF g = f THEN item ELSE o[n].items[g]
  BY <1>3, <1>4
<1>. HIDE DEF items
<1>6. round = [kind |-> o[n].kind, items |-> items]
  BY <1>3
<1>. HIDE DEF round
<1>7. round \in DecodedRounds
  <2>1. \A g \in Fields : items[g] \in WireItems(g)
    BY <1>3, <1>5
  <2>. QED
    BY <1>3, <1>5, <1>6, <2>1 DEF DecodedRounds, DecodedRound, Any
<1>. HIDE DEF n
<1>8. o \in [1..n -> DecodedRounds]
  BY <1>1 DEF n
<1>9. p \in [1..n -> DecodedRounds] /\ \A r \in 1..n : p[r] = IF r = n THEN round ELSE o[r]
  BY <1>2, <1>7, <1>8
<1>10. p \in Seq(DecodedRounds) /\ Len(p) = n
  BY <1>1, <1>9
<1>11. \A r \in 1..(n - 1) : r \in 1..n /\ r # n
  BY <1>1
<1>. QED
  BY <1>1, <1>5, <1>6, <1>9, <1>10, <1>11 DEF n, Alters

\* And leaves what the encoder writes for the fields read before.
LEMMA AltersSections ==
    ASSUME NEW o \in Seq(DecodedRounds), Len(o) # 0, NEW f \in Fields, NEW item, NEW p,
           Alters(o, p, f, item), NEW F, F = EncoderFields(o[Len(o)].kind)
    PROVE  /\ DecodedProof(p) /\ F = EncoderFields(p[Len(o)].kind)
           /\ \A s : AboveSection(p, Len(o) - 1, s) = AboveSection(o, Len(o) - 1, s)
           /\ \A k \in 0..Len(F) :
                Untouched(F, f, k) => \A s : RoundSection(p, Len(o), k, s) = RoundSection(o, Len(o), k, s)
<1>1. PICK n \in Nat : n + 1 = Len(o) /\ Len(o) - 1 = n /\ Len(o) = n + 1
  <2>1. Len(o) \in Nat \ {0}
    BY DecodedRoundsType DEF DecodedProof
  <2>2. \A l \in Nat \ {0} : \E n \in Nat : n + 1 = l /\ l - 1 = n /\ l = n + 1
    <3>. TAKE l \in Nat \ {0}
    <3>. WITNESS l - 1 \in Nat
    <3>. QED
      OBVIOUS
  <2>. QED
    BY <2>1, <2>2
<1>2. /\ p \in Seq(DecodedRounds) /\ Len(p) = n + 1 /\ Len(o) = n + 1
      /\ \A r \in 1..n : p[r] = o[r]
      /\ p[n + 1].kind = o[n + 1].kind
      /\ \A g \in Fields : p[n + 1].items[g] = IF g = f THEN item ELSE o[n + 1].items[g]
  BY <1>1 DEF Alters
<1>3. DecodedProof(p) /\ DecodedProof(o)
  BY <1>1, <1>2, DecodedRoundsType
<1>4. \A s : AboveSection(p, n, s) = AboveSection(o, n, s)
  <2>. TAKE s
  <2>1. n < Len(o) /\ n < Len(p) /\ Len(o) \in Nat /\ Len(p) \in Nat
    BY <1>2
  <2>2. (\A r \in 1..n : p[r] = o[r]) /\ p[n + 1].kind = o[n + 1].kind
    BY <1>2
  <2>. QED
    BY <2>1, <2>2, AboveUnchanged
<1>5. F = EncoderFields(p[n + 1].kind) /\ F = EncoderFields(o[n + 1].kind)
  BY <1>1, <1>2
<1>6. \A i \in 1..Len(F) : F[i] \in Listed
  <2>1. o[n + 1].kind \in ProofKinds
    BY <1>2, <1>3 DEF DecodedProof, DecodedRound
  <2>. QED
    BY <1>5, <2>1, FieldsOfKind
<1>7. ASSUME NEW k \in 0..Len(F), Untouched(F, f, k), NEW s
      PROVE  RoundSection(p, n + 1, k, s) = RoundSection(o, n + 1, k, s)
  <2>1. \A i \in 1..k : F[i] \in Listed
    <3>1. Len(F) \in Nat
      <4>1. o[n + 1].kind \in ProofKinds
        BY <1>2, <1>3 DEF DecodedProof, DecodedRound
      <4>. QED
        BY <1>5, <4>1, FieldsOfKind
    <3>. QED
      BY <1>6, <1>7, <3>1
  <2>2. /\ (n + 1 = Len(p) <=> n + 1 = Len(o)) /\ ~(n + 1 # Len(p)) /\ n + 1 \in Nat
        /\ \A g \in Fields : g # f => p[n + 1].items[g] = o[n + 1].items[g]
    BY <1>2
  <2>. QED
    BY <1>2, <1>5, <1>7, <2>1, <2>2, SectionUnchanged
<1>. QED
  BY <1>1, <1>3, <1>4, <1>5, <1>7

\* What is known of the round that is being read.
LEMMA ReadingRound ==
    ASSUME WireInv, NEW F, F = EncoderFields(Round.kind)
    PROVE  /\ Len(out) \in Nat \ {0} /\ Len(out) \in 1..Len(out) /\ DecodedProof(out)
           /\ out \in Seq(DecodedRounds) /\ Round = out[Len(out)] /\ Round.kind \in ProofKinds
           /\ Len(F) \in Nat \ {0}
           /\ \A i \in 1..Len(F) : F[i] \in Listed /\ F[i] # "constantTerm"
           /\ \A i, j \in 1..Len(F) : F[i] = F[j] => i = j
           /\ \A i \in 1..Len(F) : F[i] = "descend" => i = Len(F)
           /\ \A i \in 1..Len(F) : F[i] = "fine" => \A j \in 1..Len(F) : F[j] # "batched"
           /\ \A k \in 0..Len(F) : \A s \in Sections : WrittenSoFar(k, s) \in Seq(Alphabet(s))
<1>. DEFINE n == Len(out)
<1>1. n \in Nat \ {0} /\ DecodedProof(out) /\ out \in Seq(DecodedRounds)
  BY DecodedRoundsType DEF WireInv, WireType, DecodedProof
<1>2. n \in 1..n /\ n - 1 \in 0..n
  <2>. HIDE DEF n
  <2>. QED
    BY <1>1
<1>3. Round = out[n] /\ Round.kind \in ProofKinds
  BY <1>1, <1>2 DEF Round, DecodedProof, DecodedRound
<1>4. \A k \in 0..Len(F) : \A s \in Sections : WrittenSoFar(k, s) \in Seq(Alphabet(s))
  BY <1>1, <1>2, <1>3, SectionTypes, ConcatProperties DEF WrittenSoFar
<1>. QED
  BY <1>1, <1>2, <1>3, <1>4, FieldsOfKind

\* The next field, and those that follow it.
LEMMA TodoFacts ==
    ASSUME WireType, todo # <<>>
    PROVE  /\ Len(todo) \in Nat \ {0} /\ Field = todo[1]
           /\ Tail(todo) \in Seq(Listed) /\ Len(Tail(todo)) = Len(todo) - 1
           /\ \A i \in 1..(Len(todo) - 1) : Tail(todo)[i] = todo[i + 1]
<1>1. todo \in Seq(Listed)
  BY DEF WireType
<1>2. Len(todo) \in Nat \ {0}
  BY <1>1, EmptySeq, LenProperties
<1>3. Head(todo) = todo[1]
  BY <1>1
<1>4. /\ Tail(todo) \in Seq(Listed) /\ Len(Tail(todo)) = Len(todo) - 1
      /\ \A i \in 1..Len(Tail(todo)) : Tail(todo)[i] = todo[i + 1]
  BY <1>1, HeadTailProperties
<1>. QED
  BY <1>2, <1>3, <1>4 DEF Field

\* One field more of the round being read.
LEMMA SoFarGrows ==
    ASSUME NEW p, DecodedProof(p), NEW s \in Sections, NEW F, F = EncoderFields(p[Len(p)].kind),
           NEW k \in Nat, k < Len(F)
    PROVE  AboveSection(p, Len(p) - 1, s) \o RoundSection(p, Len(p), k + 1, s)
             = (AboveSection(p, Len(p) - 1, s) \o RoundSection(p, Len(p), k, s))
               \o FieldOf(p, Len(p), F[k + 1])[s]
<1>. DEFINE n == Len(p)
            above == AboveSection(p, n - 1, s)
            before == RoundSection(p, n, k, s)
            field == FieldOf(p, n, F[k + 1])[s]
<1>1. n \in Nat \ {0}
  BY DEF DecodedProof
<1>. HIDE DEF n
<1>2. n \in 1..n /\ n - 1 \in 0..n
  BY <1>1
<1>3. p[n].kind \in ProofKinds
  BY <1>2 DEF DecodedProof, DecodedRound, n
<1>4. Len(F) \in Nat /\ k \in 0..Len(F) /\ k + 1 \in 1..Len(F) /\ F[k + 1] \in Listed
  <2>1. F = EncoderFields(p[n].kind)
    BY DEF n
  <2>2. Len(F) \in Nat /\ \A i \in 1..Len(F) : F[i] \in Listed
    BY <1>3, <2>1, FieldsOfKind
  <2>. QED
    BY <2>2
<1>5. above \in Seq(Alphabet(s)) /\ before \in Seq(Alphabet(s)) /\ field \in Seq(Alphabet(s))
  BY <1>2, <1>4, SectionTypes, FieldOfType DEF n
<1>6. RoundSection(p, n, k + 1, s) = before \o field
  BY <1>2, RoundGrows DEF n
<1>. HIDE DEF above, before, field
<1>7. (above \o before) \o field = above \o (before \o field)
  BY <1>5, ConcatAssociative, SMTT(60)
<1>. QED
  BY <1>6, <1>7 DEF n, above, before, field

\* The ways the pieces of a pair are put together.
Cat(a, b) == a \o b

LEMMA Joined ==
    ASSUME NEW S, NEW a \in Seq(S), NEW b \in Seq(S), NEW c \in Seq(S), NEW d \in Seq(S)
    PROVE  Cat(Cat(Cat(a, b), c), d) = Cat(a, Cat(Cat(b, c), d))
<1>. DEFINE bc == b \o c
<1>1. (a \o b) \o c = a \o bc
  BY ConcatAssociative, SMTT(60)
<1>2. bc \in Seq(S)
  BY ConcatProperties
<1>. HIDE DEF bc
<1>3. (a \o bc) \o d = a \o (bc \o d)
  BY <1>2, ConcatAssociative, SMTT(60)
<1>. QED
  BY <1>1, <1>3 DEF bc, Cat

\* What reading a field takes off the stream.
Consumes(w) ==
    /\ todo' = Tail(todo)
    /\ shape' = shape \o FieldTokens(Round.kind, Field, w)
    /\ cells' = cells \o FieldCells(Field, w)

\* The invariant of the reading, after a field: it was the next of the round,
\* or a root of an open pair.
LEMMA FieldRead ==
    ASSUME WireInv, status = "reading", todo # <<>>, Field \in Fields,
           NEW w, Arrival(Round.kind, Field, w), SliceAdmitted(Field, w.slice),
           \A i \in DOMAIN w.polys : PolynomialAdmitted(w.polys[i]),
           Alters(out, out', Field, Decoded(Field, w)),
           Consumes(w)
    PROVE  \E k \in 0..Len(EncoderFields(Round'.kind)) :
             Between(k)' \/ PairOpen(k)' \/ PairHalf(k)'
<1>. DEFINE n == Len(out)
            F == EncoderFields(Round.kind)
            f == Field
            item == Decoded(f, w)
            read == Plain(out', n, f)
<1>1. /\ n \in Nat \ {0} /\ n \in 1..n /\ DecodedProof(out) /\ out \in Seq(DecodedRounds)
      /\ Round = out[n] /\ Round.kind \in ProofKinds /\ Len(F) \in Nat \ {0}
      /\ \A i \in 1..Len(F) : F[i] \in Listed /\ F[i] # "constantTerm"
      /\ \A i, j \in 1..Len(F) : F[i] = F[j] => i = j
      /\ \A i \in 1..Len(F) : F[i] = "fine" => \A j \in 1..Len(F) : F[j] # "batched"
      /\ \A k \in 0..Len(F) : \A s \in Sections : WrittenSoFar(k, s) \in Seq(Alphabet(s))
  BY ReadingRound
<1>2. /\ Len(todo) \in Nat \ {0} /\ f = todo[1] /\ Len(todo') = Len(todo) - 1
      /\ \A i \in 1..(Len(todo) - 1) : todo'[i] = todo[i + 1]
  BY TodoFacts DEF WireInv, Consumes
<1>3. /\ item \in WireItems(f) /\ Written(f, item) = w
      /\ (item.shape # NoShape) = w.present
  BY Reencoded
<1>4. /\ out' \in Seq(DecodedRounds) /\ Len(out') = n /\ out'[n].kind = out[n].kind
      /\ \A g \in Fields : out'[n].items[g] = IF g = f THEN item ELSE out[n].items[g]
  BY DEF Alters
<1>5. /\ DecodedProof(out')
      /\ \A s : AboveSection(out', n - 1, s) = AboveSection(out, n - 1, s)
      /\ \A k \in 0..Len(F) :
           Untouched(F, f, k) => \A s : RoundSection(out', n, k, s) = RoundSection(out, n, k, s)
  <2>1. Len(out) # 0 /\ F = EncoderFields(out[Len(out)].kind) /\ out \in Seq(DecodedRounds)
    BY <1>1
  <2>2. Alters(out, out', f, item) /\ f \in Fields
    OBVIOUS
  <2>. HIDE DEF F, f, item
  <2>3. DecodedProof(out')
    BY <2>1, <2>2, AltersSections
  <2>4. \A s : AboveSection(out', Len(out) - 1, s) = AboveSection(out, Len(out) - 1, s)
    BY <2>1, <2>2, AltersSections
  <2>5. \A k \in 0..Len(F) :
           Untouched(F, f, k) => \A s : RoundSection(out', Len(out), k, s) = RoundSection(out, Len(out), k, s)
    BY <2>1, <2>2, AltersSections
  <2>. QED
    BY <2>3, <2>4, <2>5
<1>6. Round' = out'[n] /\ Round'.kind = Round.kind /\ EncoderFields(Round'.kind) = F
  BY <1>1, <1>4 DEF Round
<1>7. \A k \in 0..Len(F) :
        Untouched(F, f, k) => \A s : WrittenSoFar(k, s)' = WrittenSoFar(k, s)
  BY <1>4, <1>5 DEF WrittenSoFar
<1>8. /\ read.shape = FieldTokens(Round.kind, f, w) /\ read.cells = FieldCells(f, w)
      /\ read.shape \in Seq(Tokens) /\ read.cells \in Seq(WireCells)
  <2>1. out'[n].kind = Round.kind /\ out'[n].items[f] = item
    BY <1>1, <1>4
  <2>2. read.shape = FieldTokens(Round.kind, f, w) /\ read.cells = FieldCells(f, w)
    BY <1>3, <2>1 DEF Plain
  <2>3. read.shape \in Seq(Tokens) /\ read.cells \in Seq(WireCells)
    BY <1>1, <1>4, <1>5, PlainType
  <2>. QED
    BY <2>2, <2>3
<1>9. \A k \in Nat : k < Len(F) =>
        \A s \in Sections :
          WrittenSoFar(k + 1, s)' = WrittenSoFar(k, s)' \o FieldOf(out', n, F[k + 1])[s]
  <2>1. F = EncoderFields(out'[Len(out')].kind)
    BY <1>1, <1>4
  <2>. HIDE DEF F, n
  <2>. QED
    BY <1>4, <1>5, <2>1, SoFarGrows, ZenonT(60) DEF WrittenSoFar
<1>10. shape' = shape \o read.shape /\ cells' = cells \o read.cells
  BY <1>8 DEF Consumes
<1>11. f \notin {"fine", "descend"}
  BY DEF Fields
<1>12. \A k \in 0..Len(F) : /\ WrittenSoFar(k, "shape") \in Seq(Tokens)
                            /\ WrittenSoFar(k, "cells") \in Seq(WireCells)
  BY <1>1 DEF Sections, Alphabet
<1>13. PICK k \in 0..Len(F) : Between(k) \/ PairOpen(k) \/ PairHalf(k)
  BY DEF WireInv
<1>. HIDE DEF n, F, f, item, read
<1>14. CASE Between(k)
  <2>1. /\ Len(todo) = Len(F) - k
        /\ \A i \in 1..Len(todo) : todo[i] = F[k + i]
        /\ \A i \in 1..Len(todo) : todo[i] = "fine" => Round.items["constantTerm"].shape = NoShape
        /\ shape = WrittenSoFar(k, "shape") /\ cells = WrittenSoFar(k, "cells")
    BY <1>14 DEF Between, Stream, Sections, F
  <2>2. k \in Nat /\ k < Len(F) /\ k + 1 \in 1..Len(F) /\ f = F[k + 1]
    BY <1>1, <1>2, <2>1
  <2>3. f # "constantTerm" /\ Untouched(F, f, k)
    <3>1. \A i \in 1..k : i \in 1..Len(F) /\ i # k + 1
      BY <1>1, <2>2
    <3>2. \A i \in 1..k : F[i] # f
      BY <1>1, <2>2, <3>1
    <3>3. f # "constantTerm" /\ (f = "batched" => \A i \in 1..k : F[i] # "fine")
      BY <1>1, <2>2, <3>1
    <3>. QED
      BY <3>2, <3>3 DEF Untouched
  <2>4. WrittenSoFar(k, "shape")' = WrittenSoFar(k, "shape")
        /\ WrittenSoFar(k, "cells")' = WrittenSoFar(k, "cells")
    BY <1>7, <2>3
  <2>5. FieldOf(out', n, F[k + 1]) = read
    BY <1>11, <2>2, PlainField DEF read
  <2>6. /\ WrittenSoFar(k + 1, "shape")' = shape'
        /\ WrittenSoFar(k + 1, "cells")' = cells'
    BY <1>9, <1>10, <2>1, <2>2, <2>4, <2>5 DEF Sections
  <2>7. Between(k + 1)'
    <3>1. Len(todo') = Len(F) - (k + 1)
      BY <1>1, <1>2, <2>1
    <3>2. \A i \in 1..Len(todo') : todo'[i] = todo[i + 1] /\ todo'[i] = F[(k + 1) + i]
      BY <1>1, <1>2, <2>1
    <3>3. \A i \in 1..Len(todo') : i + 1 \in 1..Len(todo)
      BY <1>2
    <3>4. Round'.items["constantTerm"] = Round.items["constantTerm"]
      BY <1>1, <1>4, <1>6, <2>3 DEF Fields
    <3>5. \A i \in 1..Len(todo') : todo'[i] = "fine" => Round'.items["constantTerm"].shape = NoShape
      BY <2>1, <3>2, <3>3, <3>4
    <3>6. \A s \in Sections : Stream(s)' = WrittenSoFar(k + 1, s)'
      BY <2>6 DEF Sections, Stream
    <3>. QED
      BY <1>6, <3>1, <3>2, <3>5, <3>6 DEF Between
  <2>. QED
    BY <1>6, <2>2, <2>7
<1>15. CASE PairOpen(k)
  <2>1. /\ k < Len(F) /\ F[k + 1] = "fine" /\ Len(todo) = Len(F) - k + 1
        /\ todo[1] = "constantTerm" /\ todo[2] = "batched"
        /\ \A i \in 3..Len(todo) : todo[i] = F[k + i - 1]
        /\ shape = Append(WrittenSoFar(k, "shape"), Bit(TRUE))
        /\ cells = WrittenSoFar(k, "cells")
    BY <1>15 DEF PairOpen, F
  <2>2. f = "constantTerm" /\ k \in Nat /\ k + 1 \in 1..Len(F)
    BY <1>1, <1>2, <2>1
  <2>3. Untouched(F, f, k)
    BY <1>1, <2>1, <2>2 DEF Untouched
  <2>4. WrittenSoFar(k, "shape")' = WrittenSoFar(k, "shape")
        /\ WrittenSoFar(k, "cells")' = WrittenSoFar(k, "cells")
    BY <1>7, <2>3
  <2>5. PairHalf(k)'
    <3>1. Len(todo') = Len(F) - k /\ todo'[1] = "batched"
      BY <1>1, <1>2, <2>1
    <3>2. \A i \in 2..Len(todo') : todo'[i] = F[k + i]
      BY <1>1, <1>2, <2>1
    <3>3. Round'.items["constantTerm"].shape # NoShape
      <4>1. w.present
        BY <2>2 DEF Arrival, Optional, f
      <4>2. item.shape # NoShape
        BY <1>3, <4>1
      <4>. QED
        BY <1>4, <1>6, <2>2, <4>2 DEF Fields
    <3>4. read = Plain(out', Len(out'), "constantTerm")
      BY <1>4, <2>2 DEF read
    <3>5. /\ shape' = Append(WrittenSoFar(k, "shape")', Bit(TRUE)) \o read.shape
          /\ cells' = WrittenSoFar(k, "cells")' \o read.cells
      BY <1>10, <2>1, <2>4
    <3>. QED
      BY <1>6, <2>1, <3>1, <3>2, <3>3, <3>4, <3>5 DEF PairHalf
  <2>. QED
    BY <1>6, <2>5
<1>16. CASE PairHalf(k)
  <2>. DEFINE first == Plain(out, n, "constantTerm")
              flag == <<Bit(TRUE)>>
              before(s) == WrittenSoFar(k, s)
  <2>1. /\ k < Len(F) /\ F[k + 1] = "fine" /\ Len(todo) = Len(F) - k
        /\ todo[1] = "batched"
        /\ \A i \in 2..Len(todo) : todo[i] = F[k + i]
        /\ Round.items["constantTerm"].shape # NoShape
        /\ shape = Append(before("shape"), Bit(TRUE)) \o first.shape
        /\ cells = before("cells") \o first.cells
    BY <1>16 DEF PairHalf, F, n
  <2>2. f = "batched" /\ k \in Nat /\ k + 1 \in 1..Len(F)
    BY <1>1, <1>2, <2>1
  <2>3. Untouched(F, f, k)
    BY <1>1, <2>1, <2>2 DEF Untouched
  <2>4. WrittenSoFar(k, "shape")' = before("shape")
        /\ WrittenSoFar(k, "cells")' = before("cells")
    BY <1>7, <2>3
  <2>5. /\ out'[n].items["constantTerm"] = out[n].items["constantTerm"]
        /\ out'[n].items["constantTerm"].shape # NoShape
    BY <1>1, <1>4, <2>1, <2>2 DEF Fields
  <2>6. Plain(out', n, "constantTerm") = first
    BY <1>4, <2>5 DEF Plain
  <2>7. /\ FieldOf(out', n, "fine").shape = (flag \o first.shape) \o read.shape
        /\ FieldOf(out', n, "fine").cells = first.cells \o read.cells
    <3>1. n \in 1..Len(out')
      BY <1>1, <1>4
    <3>2. Plain(out', n, "batched") = read
      BY <2>2 DEF read
    <3>. QED
      BY <1>5, <2>5, <2>6, <3>1, <3>2, FineField
  <2>8. /\ first.shape \in Seq(Tokens) /\ first.cells \in Seq(WireCells)
        /\ flag \in Seq(Tokens)
        /\ before("shape") \in Seq(Tokens) /\ before("cells") \in Seq(WireCells)
    <3>1. "constantTerm" \in Fields
      BY DEF Fields
    <3>. QED
      BY <1>1, <1>12, <3>1, PlainType, TokenTypes DEF n
  <2>9. Append(before("shape"), Bit(TRUE)) = before("shape") \o flag
    BY <2>8, TokenTypes, AppendIsConcat
  <2>. HIDE DEF first, flag, before
  <2>10. ((before("shape") \o flag) \o first.shape) \o read.shape
           = before("shape") \o ((flag \o first.shape) \o read.shape)
    <3>. DEFINE a == before("shape")
                c == first.shape
                d == read.shape
    <3>1. a \in Seq(Tokens) /\ flag \in Seq(Tokens) /\ c \in Seq(Tokens) /\ d \in Seq(Tokens)
      BY <1>8, <2>8
    <3>. HIDE DEF a, c, d
    <3>2. Cat(Cat(Cat(a, flag), c), d) = Cat(a, Cat(Cat(flag, c), d))
      BY <3>1, Joined
    <3>. QED
      BY <3>2 DEF a, c, d, Cat
  <2>11. (before("cells") \o first.cells) \o read.cells = before("cells") \o (first.cells \o read.cells)
    <3>. DEFINE a == before("cells")
                c == first.cells
                d == read.cells
    <3>1. a \in Seq(WireCells) /\ c \in Seq(WireCells) /\ d \in Seq(WireCells)
      BY <1>8, <2>8
    <3>. HIDE DEF a, c, d
    <3>2. (a \o c) \o d = a \o (c \o d)
      BY <3>1, ConcatAssociative
    <3>. QED
      BY <3>2 DEF a, c, d
  <2>12. /\ WrittenSoFar(k + 1, "shape")' = before("shape") \o FieldOf(out', n, "fine").shape
         /\ WrittenSoFar(k + 1, "cells")' = before("cells") \o FieldOf(out', n, "fine").cells
    BY <1>9, <2>1, <2>2, <2>4 DEF Sections
  <2>13. /\ shape' = WrittenSoFar(k + 1, "shape")'
         /\ cells' = WrittenSoFar(k + 1, "cells")'
    BY <1>10, <2>1, <2>7, <2>9, <2>10, <2>11, <2>12
  <2>14. Between(k + 1)'
    <3>1. Len(todo') = Len(F) - (k + 1)
      BY <1>1, <1>2, <2>1
    <3>2. \A i \in 1..Len(todo') : todo'[i] = F[(k + 1) + i]
      BY <1>1, <1>2, <2>1
    <3>3. \A i \in 1..Len(todo') : todo'[i] # "fine"
      <4>1. \A i \in 1..Len(todo') : (k + 1) + i \in 1..Len(F) /\ (k + 1) + i # k + 1
        BY <1>1, <2>2, <3>1
      <4>. QED
        BY <1>1, <2>1, <2>2, <3>2, <4>1
    <3>4. \A s \in Sections : Stream(s)' = WrittenSoFar(k + 1, s)'
      BY <2>13 DEF Sections, Stream
    <3>. QED
      BY <1>6, <3>1, <3>2, <3>3, <3>4 DEF Between
  <2>. QED
    BY <1>6, <2>2, <2>14
<1>. QED
  BY <1>13, <1>14, <1>15, <1>16

\* A field is read, or the stream is refused there.
Accepts(w) ==
    /\ out' = [out EXCEPT ![Len(out)].items[Field] = Decoded(Field, w)]
    /\ todo' = Tail(todo)
    /\ shape' = shape \o FieldTokens(Round.kind, Field, w)
    /\ cells' = cells \o FieldCells(Field, w)
    /\ SliceAdmitted(Field, w.slice)
    /\ \A i \in DOMAIN w.polys : PolynomialAdmitted(w.polys[i])
    /\ UNCHANGED <<source, roundsLeft, status>>

Refuses ==
    /\ status' = "malformed"
    /\ UNCHANGED <<source, out, todo, roundsLeft>>

\* A refusal ends the reading.
LEMMA RefusedKeeps ==
    ASSUME WireInv, Refuses
    PROVE  WireInv'
BY DEF WireInv, WireType, Refuses, SenderProof, AcceptsOnlyTheEncoding

\* A field that is taken keeps the invariant.
LEMMA AcceptedKeeps ==
    ASSUME WireInv, status = "reading", todo # <<>>, Field \in Fields,
           NEW w, Arrival(Round.kind, Field, w), Accepts(w)
    PROVE  WireInv'
<1>1. Decoded(Field, w) \in WireItems(Field)
  BY Reencoded DEF Accepts
<1>2. out \in Seq(DecodedRounds) /\ Len(out) # 0
  BY DEF WireInv, WireType
<1>3. Alters(out, out', Field, Decoded(Field, w))
  <2>1. out' = [out EXCEPT ![Len(out)].items[Field] = Decoded(Field, w)]
    BY DEF Accepts
  <2>. QED
    BY <1>1, <1>2, <2>1, ItemRead
<1>4. /\ SliceAdmitted(Field, w.slice) /\ \A i \in DOMAIN w.polys : PolynomialAdmitted(w.polys[i])
      /\ todo' = Tail(todo) /\ shape' = shape \o FieldTokens(Round.kind, Field, w)
      /\ cells' = cells \o FieldCells(Field, w)
      /\ source' = source /\ roundsLeft' = roundsLeft /\ status' = status
  BY DEF Accepts
<1>5. \E k \in 0..Len(EncoderFields(Round'.kind)) : Between(k)' \/ PairOpen(k)' \/ PairHalf(k)'
  BY <1>3, <1>4, FieldRead DEF Consumes
<1>6. out' \in Seq(DecodedRounds) /\ Len(out') # 0
  BY <1>2, <1>3 DEF Alters
<1>7. todo' \in Seq(Listed)
  BY <1>4, TodoFacts DEF WireInv
<1>8. WireType'
  BY <1>4, <1>6, <1>7 DEF WireInv, WireType, SenderProof
<1>9. AcceptsOnlyTheEncoding'
  BY <1>4 DEF AcceptsOnlyTheEncoding
<1>. QED
  BY <1>4, <1>5, <1>8, <1>9 DEF WireInv

\* What a field does not hold is admitted with it.
LEMMA ArrivalAdmitted ==
    ASSUME NEW kind, NEW f, NEW w, Arrival(kind, f, w)
    PROVE  /\ f = "polys" => SliceAdmitted(f, w.slice)
           /\ f # "polys" => \A i \in DOMAIN w.polys : PolynomialAdmitted(w.polys[i])
<1>1. f = "polys" => w.slice.data = <<>>
  BY DEF Arrival, WrittenSlice
<1>2. f # "polys" => w.polys = <<>>
  BY DEF Arrival
<1>. QED
  BY <1>1, <1>2 DEF SliceAdmitted

\* Each action that reads a field.
LEMMA FieldKeeps ==
    ASSUME WireInv,
           ReadPolys \/ ReadRing \/ ReadSlice \/ ReadMatrix \/ ReadNextCommitment
    PROVE  WireInv'
<1>1. SenderProof(source) /\ Len(out) \in Nat \ {0}
  BY ReadingRound DEF WireInv, WireType
<1>2. ASSUME todo # <<>>, status = "reading", Field \in Fields, NEW a \in Arrivals(Field),
             Accepts(a.written) \/ Refuses
      PROVE  WireInv'
  <2>1. Arrival(Round.kind, Field, a.written)
    BY <1>1, <1>2, ArrivalsType
  <2>. QED
    BY <1>2, <2>1, AcceptedKeeps, RefusedKeeps
<1>3. \A a \in Arrivals(Field) : Field \in Fields =>
        /\ Field = "polys" => SliceAdmitted(Field, a.written.slice)
        /\ Field # "polys" => \A i \in DOMAIN a.written.polys : PolynomialAdmitted(a.written.polys[i])
  BY <1>1, ArrivalsType, ArrivalAdmitted
<1>4. CASE ReadPolys
  <2>1. PICK a \in Arrivals(Field) :
          Take(a, \A i \in DOMAIN a.written.polys : PolynomialAdmitted(a.written.polys[i]))
    BY <1>4 DEF ReadPolys
  <2>2. todo # <<>> /\ status = "reading" /\ Field = "polys" /\ Field \in Fields
    BY <1>4 DEF ReadPolys, Reading, Fields
  <2>3. Accepts(a.written) \/ Refuses
    BY <1>3, <2>1, <2>2 DEF Take, Accepts, Refuses
  <2>. QED
    BY <1>2, <2>2, <2>3
<1>5. CASE ReadRing
  <2>1. PICK a \in Arrivals(Field) :
          Take(a, /\ SliceAdmitted(Field, a.written.slice)
                  /\ a.written.present => Len(a.written.slice.data) = 1)
    BY <1>5 DEF ReadRing
  <2>2. todo # <<>> /\ status = "reading" /\ Field # "polys" /\ Field \in Fields
    BY <1>5 DEF ReadRing, Reading, Fields, SingleRings
  <2>3. Accepts(a.written) \/ Refuses
    BY <1>3, <2>1, <2>2 DEF Take, Accepts, Refuses
  <2>. QED
    BY <1>2, <2>2, <2>3
<1>6. CASE ReadSlice
  <2>1. PICK a \in Arrivals(Field) : Take(a, SliceAdmitted(Field, a.written.slice))
    BY <1>6 DEF ReadSlice
  <2>2. todo # <<>> /\ status = "reading" /\ Field # "polys" /\ Field \in Fields
    BY <1>6 DEF ReadSlice, Reading, Fields, Slices
  <2>3. Accepts(a.written) \/ Refuses
    BY <1>3, <2>1, <2>2 DEF Take, Accepts, Refuses
  <2>. QED
    BY <1>2, <2>2, <2>3
<1>7. CASE ReadMatrix
  <2>1. PICK a \in Arrivals(Field) :
          Take(a, /\ SliceAdmitted(Field, a.written.slice)
                  /\ MatrixAdmitted(a.written.dims, a.written.slice.data))
    BY <1>7 DEF ReadMatrix
  <2>2. todo # <<>> /\ status = "reading" /\ Field # "polys" /\ Field \in Fields
    BY <1>7 DEF ReadMatrix, Reading, Fields, Verticals, Horizontals
  <2>3. Accepts(a.written) \/ Refuses
    BY <1>3, <2>1, <2>2 DEF Take, Accepts, Refuses
  <2>. QED
    BY <1>2, <2>2, <2>3
<1>8. CASE ReadNextCommitment
  <2>1. PICK a \in Arrivals(Field) :
          Take(a, /\ SliceAdmitted(Field, a.written.slice)
                  /\ a.written.dims # <<>>
                       => MatrixAdmitted(a.written.dims, a.written.slice.data))
    BY <1>8 DEF ReadNextCommitment
  <2>2. todo # <<>> /\ status = "reading" /\ Field # "polys" /\ Field \in Fields
    BY <1>8 DEF ReadNextCommitment, Reading, Fields
  <2>3. Accepts(a.written) \/ Refuses
    BY <1>3, <2>1, <2>2 DEF Take, Accepts, Refuses
  <2>. QED
    BY <1>2, <2>2, <2>3
<1>. QED
  BY <1>4, <1>5, <1>6, <1>7, <1>8

\* Two elements put before a sequence.
LEMMA PairBefore ==
    ASSUME NEW S, NEW rest \in Seq(S), NEW x \in S, NEW y \in S, NEW n \in Nat, Len(rest) = n,
           NEW both, both = <<x, y>> \o rest
    PROVE  /\ Len(both) = n + 2 /\ both[1] = x /\ both[2] = y
           /\ \A i \in 3..(n + 2) : both[i] = rest[i - 2]
OBVIOUS

\* The flag of a fine projection opens a pair, or closes the field.
LEMMA FineKeeps ==
    ASSUME WireInv, ReadFinePair
    PROVE  WireInv'
<1>. DEFINE n == Len(out)
            F == EncoderFields(Round.kind)
<1>1. /\ n \in Nat \ {0} /\ n \in 1..n /\ DecodedProof(out)
      /\ Round = out[n] /\ Round.kind \in ProofKinds /\ Len(F) \in Nat \ {0}
      /\ \A i, j \in 1..Len(F) : F[i] = F[j] => i = j
      /\ \A k \in 0..Len(F) : \A s \in Sections : WrittenSoFar(k, s) \in Seq(Alphabet(s))
  BY ReadingRound
<1>2. PICK present \in BOOLEAN :
        /\ shape' = Append(shape, Bit(present))
        /\ todo' = IF present THEN <<"constantTerm", "batched">> \o Tail(todo) ELSE Tail(todo)
  BY DEF ReadFinePair
<1>3. /\ todo # <<>> /\ status = "reading" /\ Field = "fine" /\ WireType
      /\ out' = out /\ cells' = cells /\ status' = status /\ source' = source
      /\ roundsLeft' = roundsLeft
  BY DEF ReadFinePair, Reading, WireInv
<1>4. /\ Len(todo) \in Nat \ {0} /\ Field = todo[1]
      /\ Tail(todo) \in Seq(Listed) /\ Len(Tail(todo)) = Len(todo) - 1
      /\ \A i \in 1..(Len(todo) - 1) : Tail(todo)[i] = todo[i + 1]
  BY <1>3, TodoFacts
<1>5. PICK k \in 0..Len(F) : Between(k)
  <2>1. PICK k \in 0..Len(F) : Between(k) \/ PairOpen(k) \/ PairHalf(k)
    BY <1>3 DEF WireInv
  <2>2. ~PairOpen(k) /\ ~PairHalf(k)
    BY <1>3, <1>4 DEF PairOpen, PairHalf
  <2>. QED
    BY <2>1, <2>2
<1>6. Round' = Round /\ Round'.kind = Round.kind /\ F = EncoderFields(Round'.kind)
      /\ \A s : /\ WrittenSoFar(k, s)' = WrittenSoFar(k, s)
               /\ WrittenSoFar(k + 1, s)' = WrittenSoFar(k + 1, s)
  BY <1>3 DEF Round, WrittenSoFar
<1>. HIDE DEF n, F
<1>7. /\ Len(todo) = Len(F) - k
      /\ \A i \in 1..Len(todo) : todo[i] = F[k + i]
      /\ \A i \in 1..Len(todo) : todo[i] = "fine" => Round.items["constantTerm"].shape = NoShape
      /\ shape = WrittenSoFar(k, "shape") /\ cells = WrittenSoFar(k, "cells")
  BY <1>5 DEF Between, Stream, Sections, F
<1>8. /\ k \in Nat /\ k < Len(F) /\ k + 1 \in 1..Len(F) /\ F[k + 1] = "fine"
      /\ Round.items["constantTerm"].shape = NoShape
  BY <1>1, <1>3, <1>4, <1>7
<1>9. WireType' /\ AcceptsOnlyTheEncoding'
  <2>1. todo' \in Seq(Listed)
    <3>1. <<"constantTerm", "batched">> \in Seq(Listed)
      BY DEF Listed, Fields
    <3>2. <<"constantTerm", "batched">> \o Tail(todo) \in Seq(Listed)
      BY <1>4, <3>1, ConcatProperties
    <3>. QED
      BY <1>2, <1>4, <3>2
  <2>. QED
    BY <1>3, <2>1 DEF WireType, SenderProof, AcceptsOnlyTheEncoding
<1>10. CASE present
  <2>1. /\ Len(todo') = Len(todo) + 1 /\ todo'[1] = "constantTerm" /\ todo'[2] = "batched"
        /\ \A i \in 3..Len(todo') : todo'[i] = todo[i - 1]
    <3>. DEFINE l == Len(todo) - 1
    <3>1. todo' = <<"constantTerm", "batched">> \o Tail(todo)
      BY <1>2, <1>10
    <3>2. l \in Nat /\ Len(Tail(todo)) = l /\ Len(todo) = l + 1
      BY <1>4
    <3>3. "constantTerm" \in Listed /\ "batched" \in Listed
      BY DEF Listed, Fields
    <3>. HIDE DEF l
    <3>4. /\ Len(todo') = l + 2 /\ todo'[1] = "constantTerm" /\ todo'[2] = "batched"
          /\ \A i \in 3..(l + 2) : todo'[i] = Tail(todo)[i - 2]
      BY <1>4, <3>1, <3>2, <3>3, PairBefore
    <3>5. \A i \in 3..(l + 2) : i - 2 \in 1..(Len(todo) - 1) /\ (i - 2) + 1 = i - 1
      BY <3>2
    <3>6. \A i \in 3..(l + 2) : todo'[i] = todo[i - 1]
      BY <1>4, <3>4, <3>5
    <3>7. l + 2 = Len(todo) + 1
      BY <3>2
    <3>. QED
      BY <3>4, <3>6, <3>7
  <2>2. PairOpen(k)'
    <3>1. Len(todo') = Len(F) - k + 1
      BY <1>1, <1>7, <2>1
    <3>2. \A i \in 3..Len(todo') : todo'[i] = F[k + i - 1]
      <4>1. \A i \in 3..Len(todo') : i - 1 \in 1..Len(todo) /\ k + (i - 1) = k + i - 1
        BY <1>4, <2>1
      <4>. QED
        BY <1>7, <2>1, <4>1
    <3>3. shape' = Append(WrittenSoFar(k, "shape")', Bit(TRUE)) /\ cells' = WrittenSoFar(k, "cells")'
      <4>1. present = TRUE
        BY <1>10
      <4>. QED
        BY <1>2, <1>3, <1>6, <1>7, <4>1
    <3>. QED
      BY <1>6, <1>8, <2>1, <3>1, <3>2, <3>3 DEF PairOpen
  <2>. QED
    BY <1>3, <1>6, <1>9, <2>2 DEF WireInv
<1>11. CASE ~present
  <2>1. todo' = Tail(todo) /\ shape' = Append(shape, Bit(FALSE))
    <3>1. present = FALSE
      BY <1>11
    <3>. QED
      BY <1>2, <3>1
  <2>2. /\ FieldOf(out, n, "fine").shape = <<Bit(FALSE)>>
        /\ FieldOf(out, n, "fine").cells = <<>>
    BY <1>1, <1>8, FineField DEF n
  <2>3. /\ WrittenSoFar(k + 1, "shape") = WrittenSoFar(k, "shape") \o <<Bit(FALSE)>>
        /\ WrittenSoFar(k + 1, "cells") = WrittenSoFar(k, "cells") \o <<>>
    <3>1. F = EncoderFields(out[Len(out)].kind)
      BY <1>1 DEF F, n
    <3>2. \A s \in Sections :
            AboveSection(out, Len(out) - 1, s) \o RoundSection(out, Len(out), k + 1, s)
              = (AboveSection(out, Len(out) - 1, s) \o RoundSection(out, Len(out), k, s))
                \o FieldOf(out, Len(out), F[k + 1])[s]
      <4>1. DecodedProof(out) /\ k \in Nat /\ k < Len(F)
        BY <1>1, <1>8
      <4>. QED
        BY <3>1, <4>1, SoFarGrows
    <3>3. \A s \in Sections : WrittenSoFar(k + 1, s) = WrittenSoFar(k, s) \o FieldOf(out, Len(out), "fine")[s]
      BY <1>8, <3>2 DEF WrittenSoFar
    <3>4. "shape" \in Sections /\ "cells" \in Sections
      BY DEF Sections
    <3>. QED
      BY <2>2, <3>3, <3>4 DEF n
  <2>4. WrittenSoFar(k, "shape") \in Seq(Tokens) /\ WrittenSoFar(k, "cells") \in Seq(WireCells)
    BY <1>1 DEF Sections, Alphabet
  <2>5. shape' = WrittenSoFar(k + 1, "shape") /\ cells' = WrittenSoFar(k + 1, "cells")
    <3>1. shape' = WrittenSoFar(k, "shape") \o <<Bit(FALSE)>>
      BY <1>7, <2>1, <2>4, TokenTypes, AppendIsConcat
    <3>2. cells' = WrittenSoFar(k, "cells") \o <<>>
      BY <1>3, <1>7, <2>4, ConcatEmptySeq
    <3>. QED
      BY <2>3, <3>1, <3>2
  <2>6. Between(k + 1)'
    <3>1. Len(todo') = Len(F) - (k + 1)
      BY <1>1, <1>4, <1>7, <2>1
    <3>2. \A i \in 1..Len(todo') : todo'[i] = F[(k + 1) + i]
      <4>1. \A i \in 1..Len(todo') : i + 1 \in 1..Len(todo) /\ k + (i + 1) = (k + 1) + i
                                     /\ i \in 1..(Len(todo) - 1)
        BY <1>4, <2>1
      <4>. QED
        BY <1>4, <1>7, <2>1, <4>1
    <3>3. \A s \in Sections : Stream(s)' = WrittenSoFar(k + 1, s)'
      BY <1>6, <2>5 DEF Sections, Stream
    <3>. QED
      BY <1>6, <1>8, <3>1, <3>2, <3>3 DEF Between
  <2>. QED
    BY <1>3, <1>6, <1>8, <1>9, <2>6 DEF WireInv
<1>. QED
  BY <1>10, <1>11

\* A round more is read.
Deepens(o, p, kind) ==
    /\ p \in Seq(DecodedRounds) /\ Len(p) = Len(o) + 1 /\ \A r \in 1..Len(o) : p[r] = o[r]
    /\ p[Len(o) + 1].kind = kind
    /\ p[Len(o) + 1].items["constantTerm"].shape = NoShape

LEMMA RoundRead ==
    ASSUME NEW o \in Seq(DecodedRounds), NEW kind \in ProofKinds,
           NEW p, p = Append(o, [kind |-> kind, items |-> NoItems])
    PROVE  Deepens(o, p, kind)
<1>. DEFINE round == [kind |-> kind, items |-> NoItems]
<1>1. round \in DecodedRounds /\ round.kind = kind /\ round.items["constantTerm"].shape = NoShape
  BY NewRound
<1>2. p = Append(o, round)
  OBVIOUS
<1>. HIDE DEF round, DecodedRounds
<1>3. Append(o, round) \in Seq(DecodedRounds) /\ Len(Append(o, round)) = Len(o) + 1
      /\ \A i \in 1..Len(o) : Append(o, round)[i] = o[i]
      /\ Append(o, round)[Len(o) + 1] = round
  BY <1>1, AppendProperties
<1>. QED
  BY <1>1, <1>2, <1>3 DEF Deepens

\* Then the round above is whole.
LEMMA RoundAdded ==
    ASSUME NEW o \in Seq(DecodedRounds), Len(o) # 0, NEW kind,
           NEW F, F = EncoderFields(o[Len(o)].kind), NEW k \in Nat, k < Len(F), F[k + 1] = "descend",
           NEW p, Deepens(o, p, kind)
    PROVE  \A s \in Sections :
             AboveSection(p, Len(p) - 1, s)
               = (AboveSection(o, Len(o) - 1, s) \o RoundSection(o, Len(o), k, s))
                 \o (IF s = "shape" THEN <<Bit(TRUE), <<"round", kind>>>> ELSE <<>>)
<1>. DEFINE n == Len(o)
<1>1. n \in Nat \ {0} /\ DecodedProof(o)
  BY DecodedRoundsType DEF DecodedProof
<1>2. PICK m \in Nat : n = m + 1
  <2>1. \A l \in Nat \ {0} : \E m \in Nat : l = m + 1
    <3>. TAKE l \in Nat \ {0}
    <3>. WITNESS l - 1 \in Nat
    <3>. QED
      OBVIOUS
  <2>. HIDE DEF n
  <2>. QED
    BY <1>1, <2>1
<1>4. /\ p \in Seq(DecodedRounds) /\ Len(p) = n + 1 /\ p[n + 1].kind = kind
      /\ \A i \in 1..n : p[i] = o[i]
  BY DEF Deepens
<1>5. DecodedProof(p)
  <2>1. Len(p) # 0
    <3>. HIDE DEF n
    <3>. QED
      BY <1>1, <1>4
  <2>. QED
    BY <1>4, <2>1, DecodedRoundsType
<1>6. n = Len(o)
  OBVIOUS
<1>. HIDE DEF n
<1>7. /\ n \in 1..n /\ n \in 1..Len(p) /\ n # Len(p) /\ m < Len(p) /\ m < n /\ m \in Nat
      /\ Len(p) - 1 = n /\ n - 1 = m /\ n \in Nat /\ Len(p) \in Nat
      /\ \A r \in 1..m : p[r] = o[r]
  BY <1>1, <1>2, <1>4
<1>8. p[n] = o[n] /\ F = EncoderFields(p[n].kind) /\ o[n].kind \in ProofKinds
  BY <1>1, <1>4, <1>6, <1>7 DEF DecodedProof, DecodedRound
<1>9. /\ Len(F) = k + 1
      /\ \A i \in 1..k : F[i] \in Listed /\ F[i] # "descend"
  <2>1. /\ Len(F) \in Nat /\ \A i \in 1..Len(F) : F[i] \in Listed
        /\ \A i \in 1..Len(F) : F[i] = "descend" => i = Len(F)
    BY <1>6, <1>8, FieldsOfKind
  <2>. QED
    BY <2>1
<1>10. \A s : AboveSection(p, m, s) = AboveSection(o, m, s)
  <2>1. p[m + 1].kind = o[m + 1].kind
    BY <1>2, <1>8
  <2>. QED
    BY <1>6, <1>7, <2>1, AboveUnchanged
<1>11. \A s : RoundSection(p, n, k, s) = RoundSection(o, n, k, s)
  <2>1. \A i \in 1..k : FieldOf(p, n, F[i]) = FieldOf(o, n, F[i])
    <3>. TAKE i \in 1..k
    <3>1. CASE F[i] = "fine"
      BY <1>8, <3>1, FineSame
    <3>2. CASE F[i] # "fine"
      BY <1>8, <1>9, <3>2, PlainSame
    <3>. QED
      BY <3>1, <3>2
  <2>2. F = EncoderFields(p[n].kind) /\ p[n].kind = o[n].kind
    BY <1>8
  <2>3. \A i \in 1..k : FieldOf(p, n, EncoderFields(p[n].kind)[i])
                          = FieldOf(o, n, EncoderFields(p[n].kind)[i])
    BY <2>1, <2>2
  <2>. QED
    BY <2>2, <2>3, RoundSame
<1>12. ASSUME NEW s \in Sections
       PROVE  AboveSection(p, n, s)
                = (AboveSection(o, m, s) \o RoundSection(o, n, k, s))
                  \o (IF s = "shape" THEN <<Bit(TRUE), <<"round", kind>>>> ELSE <<>>)
  <2>. DEFINE above == AboveSection(p, m, s)
              before == RoundSection(p, n, k, s)
              field == FieldOf(p, n, "descend")[s]
  <2>1. AboveSection(p, n, s) = above \o WholeRound(p, n, s)
    <3>1. AboveSection(p, m + 1, s) = AboveSection(p, m, s) \o WholeRound(p, m + 1, s)
      BY <1>5, <1>7, AboveGrows
    <3>. QED
      BY <1>2, <3>1
  <2>2. WholeRound(p, n, s) = before \o field
    <3>1. k < Len(EncoderFields(p[n].kind))
      BY <1>8
    <3>2. RoundSection(p, n, k + 1, s)
            = RoundSection(p, n, k, s) \o FieldOf(p, n, EncoderFields(p[n].kind)[k + 1])[s]
      BY <1>5, <1>7, <3>1, RoundGrows, ZenonT(60)
    <3>3. WholeRound(p, n, s) = RoundSection(p, n, k + 1, s)
      BY <1>8, <1>9 DEF WholeRound
    <3>. QED
      BY <1>8, <3>2, <3>3
  <2>3. above \in Seq(Alphabet(s)) /\ before \in Seq(Alphabet(s)) /\ field \in Seq(Alphabet(s))
    <3>1. m \in 0..Len(p) /\ k \in 0..Len(EncoderFields(p[n].kind)) /\ "descend" \in Listed
      BY <1>7, <1>8, <1>9 DEF Listed
    <3>2. above \in Seq(Alphabet(s))
      BY <1>5, <3>1, SectionTypes
    <3>3. before \in Seq(Alphabet(s))
      BY <1>5, <1>7, <3>1, SectionTypes
    <3>4. field \in Seq(Alphabet(s))
      BY <1>5, <1>7, <3>1, FieldOfType
    <3>. QED
      BY <3>2, <3>3, <3>4
  <2>4. field = IF s = "shape" THEN <<Bit(TRUE), <<"round", kind>>>> ELSE <<>>
    <3>1. p[n + 1].kind = kind
      BY <1>4, <1>6
    <3>2. /\ FieldOf(p, n, "descend").shape = <<Bit(TRUE), <<"round", kind>>>>
          /\ FieldOf(p, n, "descend").cells = <<>>
      BY <1>5, <1>7, <3>1, DescendField
    <3>. QED
      BY <3>2 DEF Sections
  <2>5. above = AboveSection(o, m, s) /\ before = RoundSection(o, n, k, s)
    BY <1>10, <1>11
  <2>. HIDE DEF above, before, field
  <2>6. above \o (before \o field) = (above \o before) \o field
    <3>1. \A x, y, z \in Seq(Alphabet(s)) : (x \o y) \o z = x \o (y \o z)
      BY Associative, SMTT(60)
    <3>. QED
      BY <2>3, <3>1
  <2>. QED
    BY <2>1, <2>2, <2>4, <2>5, <2>6
<1>14. Len(p) - 1 = n /\ Len(o) - 1 = m
  BY <1>6, <1>7
<1>15. \A s \in Sections :
         AboveSection(p, Len(p) - 1, s)
           = (AboveSection(o, Len(o) - 1, s) \o RoundSection(o, Len(o), k, s))
             \o (IF s = "shape" THEN <<Bit(TRUE), <<"round", kind>>>> ELSE <<>>)
  BY <1>6, <1>12, <1>14
<1>. QED
  BY <1>15

\* A pair of tokens, and the sequence it comes from.
LEMMA Two ==
    ASSUME NEW S, NEW x \in S, NEW y \in S
    PROVE  Cat(<<x>>, <<y>>) = <<x, y>> /\ <<x, y>> \in Seq(S)
<1>1. <<x>> \in Seq(S) /\ <<x, y>> \in Seq(S)
  OBVIOUS
<1>2. Append(<<x>>, y) = <<x, y>>
  <2>. DEFINE one == <<x>>
              two == <<x, y>>
  <2>1. one \in Seq(S) /\ Len(one) = 1 /\ one[1] = x
    BY <1>1
  <2>2. two \in Seq(S) /\ Len(two) = 2 /\ two[1] = x /\ two[2] = y
    BY <1>1
  <2>. HIDE DEF one, two
  <2>. DEFINE appended == Append(one, y)
  <2>3. \A s \in Seq(S) : /\ Append(s, y) \in Seq(S) /\ Len(Append(s, y)) = Len(s) + 1
                          /\ \A i \in 1..Len(s) : Append(s, y)[i] = s[i]
                          /\ Append(s, y)[Len(s) + 1] = y
    BY AppendProperties
  <2>4. /\ appended \in Seq(S) /\ Len(appended) = Len(one) + 1
        /\ \A i \in 1..Len(one) : appended[i] = one[i]
        /\ appended[Len(one) + 1] = y
    BY <2>1, <2>3, Zenon
  <2>. HIDE DEF appended
  <2>5. Len(appended) = 2 /\ appended[1] = x /\ appended[2] = y
    BY <2>1, <2>4
  <2>6. \A i \in 1..2 : appended[i] = two[i]
    <3>1. \A i \in 1..2 : i = 1 \/ i = 2
      OBVIOUS
    <3>. QED
      BY <2>2, <2>5, <3>1
  <2>7. appended = two
    BY <2>2, <2>4, <2>5, <2>6, SeqEqual
  <2>. QED
    BY <2>7 DEF one, two, appended
<1>3. Append(<<x>>, y) = <<x>> \o <<y>>
  BY <1>1, AppendIsConcat
<1>. QED
  BY <1>1, <1>2, <1>3 DEF Cat

\* The fields of a round are a sequence of fields.
LEMMA FieldsListed ==
    ASSUME NEW kind \in ProofKinds
    PROVE  EncoderFields(kind) \in Seq(Listed)
<1>1. \A f \in Fields : f \in Listed
  BY DEF Listed
<1>2. "fine" \in Listed /\ "descend" \in Listed
  BY DEF Listed
<1>3. /\ "polys" \in Fields /\ "z0" \in Fields /\ "z1" \in Fields /\ "norm" \in Fields
      /\ "mostInnerNorm" \in Fields /\ "projectionNorm" \in Fields /\ "opening" \in Fields
      /\ "coarse" \in Fields /\ "constantTermClaims" \in Fields /\ "next" \in Fields
      /\ "folded" \in Fields /\ "image" \in Fields /\ "batched" \in Fields
  BY DEF Fields
<1>. QED
  BY <1>1, <1>2, <1>3 DEF EncoderFields, ProofKinds, Kinds

\* The flag of the next round ends the last one, or opens another.
LEMMA NextKeeps ==
    ASSUME WireInv, ReadNext
    PROVE  WireInv'
<1>. DEFINE n == Len(out)
            F == EncoderFields(Round.kind)
<1>1. /\ n \in Nat \ {0} /\ n \in 1..n /\ DecodedProof(out) /\ out \in Seq(DecodedRounds)
      /\ Round = out[n] /\ Round.kind \in ProofKinds /\ Len(F) \in Nat \ {0}
      /\ \A i \in 1..Len(F) : F[i] = "descend" => i = Len(F)
      /\ \A k \in 0..Len(F) : \A s \in Sections : WrittenSoFar(k, s) \in Seq(Alphabet(s))
  BY ReadingRound
<1>2. PICK present \in BOOLEAN, kind \in Kinds \cup {"none"} :
        /\ shape' = shape \o NextFlag(present, kind)
        /\ IF ~present
           THEN todo' = <<>> /\ UNCHANGED <<out, roundsLeft, status>>
           ELSE IF RoundRefused \/ kind = "none"
           THEN status' = "malformed" /\ UNCHANGED <<out, roundsLeft, todo>>
           ELSE /\ roundsLeft' = roundsLeft - 1
                /\ out' = Append(out, [kind |-> kind, items |-> NoItems])
                /\ todo' = DecoderFields(kind)
                /\ UNCHANGED status
  BY DEF ReadNext
<1>3. /\ todo # <<>> /\ status = "reading" /\ Field = "descend" /\ WireType
      /\ cells' = cells /\ source' = source
  BY DEF ReadNext, Reading, WireInv
<1>4. Len(todo) \in Nat \ {0} /\ Field = todo[1]
  BY <1>3, TodoFacts
<1>5. PICK k \in 0..Len(F) : Between(k)
  <2>1. PICK k \in 0..Len(F) : Between(k) \/ PairOpen(k) \/ PairHalf(k)
    BY <1>3 DEF WireInv
  <2>2. ~PairOpen(k) /\ ~PairHalf(k)
    BY <1>3, <1>4 DEF PairOpen, PairHalf
  <2>. QED
    BY <2>1, <2>2
<1>6. F = EncoderFields(out[Len(out)].kind)
  BY <1>1
<1>. HIDE DEF n, F
<1>7. /\ Len(todo) = Len(F) - k
      /\ \A i \in 1..Len(todo) : todo[i] = F[k + i]
      /\ shape = WrittenSoFar(k, "shape") /\ cells = WrittenSoFar(k, "cells")
  BY <1>5 DEF Between, Stream, Sections, F
<1>8. k \in Nat /\ k < Len(F) /\ k + 1 = Len(F) /\ F[k + 1] = "descend"
  BY <1>1, <1>3, <1>4, <1>7
<1>9. WrittenSoFar(k, "shape") \in Seq(Tokens) /\ WrittenSoFar(k, "cells") \in Seq(WireCells)
  BY <1>1 DEF Sections, Alphabet
<1>10. CASE ~present
  <2>1. todo' = <<>> /\ out' = out /\ roundsLeft' = roundsLeft /\ status' = status
    BY <1>2, <1>10
  <2>2. shape' = shape \o <<Bit(FALSE)>>
    <3>1. present = FALSE
      BY <1>10
    <3>2. NextFlag(FALSE, kind) = <<Bit(FALSE)>> \o <<>>
      BY DEF NextFlag
    <3>3. <<Bit(FALSE)>> \o <<>> = <<Bit(FALSE)>>
      OBVIOUS
    <3>. QED
      BY <1>2, <3>1, <3>2, <3>3
  <2>3. /\ WrittenSoFar(k + 1, "shape") = WrittenSoFar(k, "shape") \o <<Bit(FALSE)>>
        /\ WrittenSoFar(k + 1, "cells") = WrittenSoFar(k, "cells") \o <<>>
    <3>1. \A s \in Sections :
            AboveSection(out, Len(out) - 1, s) \o RoundSection(out, Len(out), k + 1, s)
              = (AboveSection(out, Len(out) - 1, s) \o RoundSection(out, Len(out), k, s))
                \o FieldOf(out, Len(out), F[k + 1])[s]
      <4>1. DecodedProof(out) /\ k \in Nat /\ k < Len(F)
        BY <1>1, <1>8
      <4>. QED
        BY <1>6, <4>1, SoFarGrows
    <3>2. \A s \in Sections :
            WrittenSoFar(k + 1, s) = WrittenSoFar(k, s) \o FieldOf(out, Len(out), "descend")[s]
      BY <1>8, <3>1 DEF WrittenSoFar
    <3>3. /\ FieldOf(out, n, "descend").shape = <<Bit(FALSE)>>
          /\ FieldOf(out, n, "descend").cells = <<>>
      BY <1>1, DescendField DEF n
    <3>4. "shape" \in Sections /\ "cells" \in Sections
      BY DEF Sections
    <3>. QED
      BY <3>2, <3>3, <3>4 DEF n
  <2>4. shape' = WrittenSoFar(k + 1, "shape") /\ cells' = WrittenSoFar(k + 1, "cells")
    <3>1. cells' = WrittenSoFar(k, "cells") \o <<>>
      BY <1>3, <1>7, <1>9, ConcatEmptySeq
    <3>. QED
      BY <1>7, <2>2, <2>3, <3>1
  <2>5. Round' = Round /\ F = EncoderFields(Round'.kind)
        /\ \A s : WrittenSoFar(k + 1, s)' = WrittenSoFar(k + 1, s)
    BY <2>1 DEF Round, WrittenSoFar, F
  <2>6. Between(k + 1)'
    <3>1. Len(todo') = 0
      BY <2>1
    <3>2. Len(todo') = Len(F) - (k + 1)
      BY <1>8, <3>1
    <3>3. \A s \in Sections : Stream(s)' = WrittenSoFar(k + 1, s)'
      BY <2>4, <2>5 DEF Sections, Stream
    <3>. QED
      BY <2>5, <3>1, <3>2, <3>3 DEF Between
  <2>7. WireType'
    <3>1. todo' \in Seq(Listed)
      BY <2>1
    <3>. QED
      BY <1>3, <2>1, <3>1 DEF WireType, SenderProof
  <2>8. AcceptsOnlyTheEncoding'
    BY <1>3, <2>1 DEF AcceptsOnlyTheEncoding
  <2>9. k + 1 \in 0..Len(F)
    BY <1>8
  <2>. QED
    BY <2>5, <2>6, <2>7, <2>8, <2>9 DEF WireInv
<1>11. CASE present /\ (RoundRefused \/ kind = "none")
  <2>1. Refuses
    BY <1>2, <1>3, <1>11 DEF Refuses
  <2>. QED
    BY <2>1, RefusedKeeps
<1>12. CASE present /\ ~RoundRefused /\ kind # "none"
  <2>. DEFINE G == EncoderFields(kind)
  <2>1. /\ roundsLeft' = roundsLeft - 1 /\ out' = Append(out, [kind |-> kind, items |-> NoItems])
        /\ todo' = DecoderFields(kind) /\ status' = status
    BY <1>2, <1>12
  <2>2. kind \in ProofKinds /\ roundsLeft \in Nat /\ roundsLeft > 0 /\ roundsLeft' \in Nat
    <3>1. roundsLeft \in Nat /\ roundsLeft # 0
      BY <1>3, <1>12 DEF WireType, RoundRefused
    <3>. QED
      BY <1>12, <2>1, <3>1 DEF ProofKinds
  <2>3. Deepens(out, out', kind)
    BY <1>1, <2>1, <2>2, RoundRead
  <2>4. /\ out' \in Seq(DecodedRounds) /\ Len(out') = n + 1 /\ out'[n + 1].kind = kind
        /\ out'[n + 1].items["constantTerm"].shape = NoShape
    BY <2>3 DEF Deepens, n
  <2>5. Len(out') # 0 /\ Round' = out'[n + 1]
    BY <1>1, <2>4 DEF Round
  <2>6. shape' = shape \o <<Bit(TRUE), <<"round", kind>>>>
    <3>1. present = TRUE
      BY <1>12
    <3>2. NextFlag(TRUE, kind) = <<Bit(TRUE)>> \o <<<<"round", kind>>>>
      BY <2>2 DEF NextFlag
    <3>3. Bit(TRUE) \in Tokens /\ <<"round", kind>> \in Tokens
      BY <2>2, TokenTypes
    <3>4. Cat(<<Bit(TRUE)>>, <<<<"round", kind>>>>) = <<Bit(TRUE), <<"round", kind>>>>
      <4>. DEFINE flag == Bit(TRUE)
                  tag == <<"round", kind>>
      <4>1. flag \in Tokens /\ tag \in Tokens
        BY <3>3
      <4>. HIDE DEF flag, tag
      <4>2. Cat(<<flag>>, <<tag>>) = <<flag, tag>>
        BY <4>1, Two
      <4>. QED
        BY <4>2 DEF flag, tag
    <3>. QED
      BY <1>2, <3>1, <3>2, <3>4 DEF Cat
  <2>7. \A s \in Sections :
          AboveSection(out', Len(out') - 1, s)
            = WrittenSoFar(k, s) \o (IF s = "shape" THEN <<Bit(TRUE), <<"round", kind>>>> ELSE <<>>)
    <3>1. Len(out) # 0
      BY <1>1 DEF n
    <3>2. out \in Seq(DecodedRounds) /\ k \in Nat /\ k < Len(F) /\ F[k + 1] = "descend"
      BY <1>1, <1>8
    <3>3. \A s \in Sections :
            AboveSection(out', Len(out') - 1, s)
              = (AboveSection(out, Len(out) - 1, s) \o RoundSection(out, Len(out), k, s))
                \o (IF s = "shape" THEN <<Bit(TRUE), <<"round", kind>>>> ELSE <<>>)
      BY <1>6, <2>3, <3>1, <3>2, RoundAdded, ZenonT(60)
    <3>. QED
      BY <3>3 DEF WrittenSoFar
  <2>8. /\ AboveSection(out', Len(out') - 1, "shape") = shape'
        /\ AboveSection(out', Len(out') - 1, "cells") = cells'
    <3>1. /\ AboveSection(out', Len(out') - 1, "shape")
               = WrittenSoFar(k, "shape") \o <<Bit(TRUE), <<"round", kind>>>>
          /\ AboveSection(out', Len(out') - 1, "cells") = WrittenSoFar(k, "cells") \o <<>>
      BY <2>7 DEF Sections
    <3>2. WrittenSoFar(k, "cells") \o <<>> = WrittenSoFar(k, "cells")
      BY <1>9, ConcatEmptySeq
    <3>. QED
      BY <1>3, <1>7, <2>6, <3>1, <3>2
  <2>9. WrittenSoFar(0, "shape")' = shape' /\ WrittenSoFar(0, "cells")' = cells'
    <3>1. \A s : WrittenSoFar(0, s)' = AboveSection(out', Len(out') - 1, s) \o <<>>
      BY NothingYet DEF WrittenSoFar
    <3>2. shape' \in Seq(Tokens)
      <4>1. <<Bit(TRUE), <<"round", kind>>>> \in Seq(Tokens)
        <5>1. Bit(TRUE) \in Tokens /\ <<"round", kind>> \in Tokens
          BY <2>2, TokenTypes
        <5>. QED
          BY <5>1, Two
      <4>. QED
        BY <1>7, <1>9, <2>6, <4>1, ConcatProperties
    <3>3. cells' \in Seq(WireCells)
      BY <1>3, <1>7, <1>9
    <3>. QED
      BY <2>8, <3>1, <3>2, <3>3, ConcatEmptySeq
  <2>10. todo' = G /\ G \in Seq(Listed) /\ Len(G) \in Nat
    <3>1. /\ Len(G) \in Nat /\ DOMAIN G = 1..Len(G) /\ \A i \in 1..Len(G) : G[i] \in Listed
          /\ DecoderFields(kind) = G
      BY <2>2, FieldsOfKind
    <3>2. G \in Seq(Listed)
      BY <2>2, FieldsListed
    <3>. QED
      BY <2>1, <3>1, <3>2
  <2>11. Round'.kind = kind /\ Round'.items["constantTerm"].shape = NoShape
    BY <2>4, <2>5
  <2>. HIDE DEF G
  <2>12. Between(0)'
    <3>1. \A s \in Sections : Stream(s)' = WrittenSoFar(0, s)'
      BY <2>9 DEF Stream, Sections
    <3>2. Len(todo') = Len(G) - 0 /\ \A i \in 1..Len(todo') : todo'[i] = G[0 + i]
      BY <2>10
    <3>. QED
      BY <2>11, <3>1, <3>2 DEF Between, G
  <2>13. WireType'
    BY <1>3, <2>1, <2>2, <2>4, <2>5, <2>10 DEF WireType, SenderProof
  <2>14. AcceptsOnlyTheEncoding'
    BY <1>3, <2>1 DEF AcceptsOnlyTheEncoding
  <2>15. 0 \in 0..Len(EncoderFields(Round'.kind))
    BY <2>10, <2>11 DEF G
  <2>. QED
    BY <2>12, <2>13, <2>14, <2>15 DEF WireInv
<1>. QED
  BY <1>10, <1>11, <1>12

\* The reading ends where the encoding does.
LEMMA FinishKeeps ==
    ASSUME WireInv, Finish
    PROVE  WireInv'
<1>. DEFINE n == Len(out)
            F == EncoderFields(Round.kind)
<1>1. /\ n \in Nat \ {0} /\ DecodedProof(out) /\ Round = out[n] /\ Len(F) \in Nat \ {0}
  BY ReadingRound
<1>2. /\ status = "reading" /\ todo = <<>> /\ WireType
      /\ shape' = shape /\ cells' = cells /\ todo' = todo /\ out' = out
      /\ roundsLeft' = roundsLeft /\ source' = source
      /\ status' \in {"malformed", "accepted"}
  BY DEF Finish, WireInv
<1>3. PICK k \in 0..Len(F) : Between(k)
  <2>1. PICK k \in 0..Len(F) : Between(k) \/ PairOpen(k) \/ PairHalf(k)
    BY <1>2 DEF WireInv
  <2>2. Len(todo) = 0
    BY <1>2
  <2>. HIDE DEF F, n
  <2>3. ~PairOpen(k) /\ ~PairHalf(k)
    <3>1. k \in Nat
      BY <2>1
    <3>2. PairOpen(k) => Len(todo) = Len(F) - k + 1 /\ k < Len(F)
      BY DEF PairOpen, F
    <3>3. PairHalf(k) => Len(todo) = Len(F) - k /\ k < Len(F)
      BY DEF PairHalf, F
    <3>. QED
      BY <1>1, <2>2, <3>1, <3>2, <3>3
  <2>. QED
    BY <2>1, <2>3
<1>4. k = Len(F) /\ \A s \in Sections : Stream(s) = WrittenSoFar(Len(F), s)
  <2>1. Len(todo) = Len(F) - k /\ Len(todo) = 0
    BY <1>2, <1>3 DEF Between
  <2>2. \A s \in Sections : Stream(s) = WrittenSoFar(k, s)
    BY <1>3 DEF Between
  <2>. HIDE DEF F, n
  <2>3. k = Len(F)
    BY <1>1, <1>3, <2>1
  <2>. QED
    BY <2>2, <2>3
<1>5. \A s \in Sections : Encode(out)[s] = Stream(s)
  <2>. TAKE s \in Sections
  <2>1. PICK m \in Nat : n = m + 1 /\ n - 1 = m
    <3>1. \A l \in Nat \ {0} : \E m \in Nat : l = m + 1 /\ l - 1 = m
      <4>. TAKE l \in Nat \ {0}
      <4>. WITNESS l - 1 \in Nat
      <4>. QED
        OBVIOUS
    <3>. HIDE DEF n
    <3>. QED
      BY <1>1, <3>1
  <2>2. AboveSection(out, m + 1, s) = AboveSection(out, m, s) \o WholeRound(out, m + 1, s)
    <3>1. m < Len(out)
      <4>1. n = Len(out)
        OBVIOUS
      <4>. HIDE DEF n
      <4>. QED
        BY <2>1, <4>1
    <3>. QED
      BY <1>1, <3>1, AboveGrows
  <2>3. WholeRound(out, n, s) = RoundSection(out, n, Len(F), s)
    BY <1>1 DEF WholeRound
  <2>4. WrittenSoFar(Len(F), s) = AboveSection(out, n - 1, s) \o RoundSection(out, n, Len(F), s)
    BY DEF WrittenSoFar
  <2>5. Encode(out)[s] = AboveSection(out, n, s)
    BY <1>1, EncodeIs
  <2>. HIDE DEF n, F
  <2>. QED
    BY <1>4, <2>1, <2>2, <2>3, <2>4, <2>5
<1>6. Encode(out) = [shape |-> shape, cells |-> cells]
  <2>1. Encode(out).shape = shape /\ Encode(out).cells = cells
    BY <1>5 DEF Sections, Stream
  <2>2. \E a, b : Encode(out) = [shape |-> a, cells |-> b]
    BY DEF Encode
  <2>. QED
    BY <2>1, <2>2
<1>7. AcceptsOnlyTheEncoding'
  <2>1. Encode(out)' = Encode(out)
    BY <1>2 DEF Encode, FieldOf
  <2>. QED
    BY <1>2, <1>6, <2>1 DEF AcceptsOnlyTheEncoding
<1>8. WireType'
  BY <1>2 DEF WireType, SenderProof
<1>9. status' # "reading"
  BY <1>2
<1>. QED
  BY <1>7, <1>8, <1>9 DEF WireInv

\* Before anything is read the invariant holds.
LEMMA InitInv ==
    ASSUME WireInit
    PROVE  WireInv
<1>. DEFINE kind == source[1].kind
            round == [kind |-> kind, items |-> NoItems]
            F == EncoderFields(kind)
<1>1. SenderProof(source)
  BY SourcesType DEF WireInit
<1>2. kind \in ProofKinds
  BY <1>1 DEF SenderProof
<1>3. round \in DecodedRounds /\ NoItems["constantTerm"].shape = NoShape
  BY <1>2, NewRound
<1>4. out = <<round>> /\ todo = DecoderFields(kind) /\ shape = <<>> /\ cells = <<>>
      /\ roundsLeft = Allowance.rounds - 1 /\ status = "reading"
  BY DEF WireInit
<1>5. Allowance.rounds \in Nat \ {0}
  <2>1. Len(chain) \in Nat \ {0}
    <3>1. chain \in Chains
      BY DEF WireInit
    <3>2. chain \in Seq(RoundConfigs) /\ chain # <<>>
      BY <3>1, ChainsAssumption DEF WellFormed
    <3>. QED
      BY <3>2, EmptySeq, LenProperties
  <2>2. ClaimsAllowance.rounds = 1 /\ AllowanceOf(chain).rounds = Len(chain)
    BY DEF ClaimsAllowance, AllowanceOf
  <2>. QED
    BY <2>1, <2>2 DEF Allowance
<1>6. todo = F /\ F \in Seq(Listed) /\ Len(F) \in Nat \ {0}
  BY <1>2, <1>4, FieldsOfKind, FieldsListed
<1>7. /\ round.kind = kind /\ round.items["constantTerm"].shape = NoShape
  BY <1>3
<1>. HIDE DEF round, F, DecodedRounds
<1>8. out \in Seq(DecodedRounds) /\ Len(out) = 1 /\ out[1] = round
  BY <1>3, <1>4
<1>9. Len(out) # 0 /\ Round = round /\ Len(out) - 1 = 0
  BY <1>8 DEF Round
<1>10. roundsLeft \in Nat
  BY <1>4, <1>5
<1>11. WireType
  BY <1>1, <1>4, <1>6, <1>8, <1>9, <1>10 DEF WireType
<1>12. Between(0)
  <2>1. \A s \in Sections : Stream(s) = WrittenSoFar(0, s)
    <3>1. \A s : WrittenSoFar(0, s) = <<>> \o <<>>
      BY <1>9, NothingYet DEF WrittenSoFar
    <3>2. <<>> \o <<>> = <<>>
      OBVIOUS
    <3>. QED
      BY <1>4, <3>1, <3>2 DEF Stream, Sections
  <2>2. Len(todo) = Len(F) - 0 /\ \A i \in 1..Len(todo) : todo[i] = F[0 + i]
    BY <1>6
  <2>3. EncoderFields(Round.kind) = F
    BY <1>7, <1>9 DEF F
  <2>. QED
    BY <1>7, <1>9, <2>1, <2>2, <2>3 DEF Between
<1>13. 0 \in 0..Len(EncoderFields(Round.kind))
  BY <1>6, <1>7, <1>9 DEF F
<1>14. AcceptsOnlyTheEncoding
  BY <1>4 DEF AcceptsOnlyTheEncoding
<1>. QED
  BY <1>11, <1>12, <1>13, <1>14 DEF WireInv

\* And every step keeps it.
LEMMA NextInv ==
    ASSUME WireInv, [WireNext]_wireVars
    PROVE  WireInv'
<1>1. CASE UNCHANGED wireVars
  <2>1. /\ source' = source /\ shape' = shape /\ cells' = cells /\ todo' = todo /\ out' = out
        /\ roundsLeft' = roundsLeft /\ status' = status
    BY <1>1 DEF wireVars
  <2>2. WireType'
    BY <2>1 DEF WireInv, WireType, SenderProof
  <2>3. \A k : (Between(k) <=> Between(k)') /\ (PairOpen(k) <=> PairOpen(k)') /\ (PairHalf(k) <=> PairHalf(k)')
    BY <2>1 DEF Between, PairOpen, PairHalf, Round, Stream, WrittenSoFar
  <2>4. EncoderFields(Round.kind)' = EncoderFields(Round.kind)
    BY <2>1 DEF Round
  <2>5. AcceptsOnlyTheEncoding'
    <3>1. Encode(out)' = Encode(out)
      BY <2>1
    <3>. QED
      BY <2>1, <3>1 DEF WireInv, AcceptsOnlyTheEncoding
  <2>. QED
    BY <2>1, <2>2, <2>3, <2>4, <2>5 DEF WireInv
<1>2. CASE Decided
  BY <1>1, <1>2 DEF Decided
<1>3. CASE ReadPolys \/ ReadRing \/ ReadSlice \/ ReadMatrix \/ ReadNextCommitment
  BY <1>3, FieldKeeps
<1>4. CASE ReadFinePair
  BY <1>4, FineKeeps
<1>5. CASE ReadNext
  BY <1>5, NextKeeps
<1>6. CASE Finish
  BY <1>6, FinishKeeps
<1>. QED
  BY <1>1, <1>2, <1>3, <1>4, <1>5, <1>6 DEF WireNext

\* from_bytes_for accepts exactly the bytes to_bytes writes for the proof they
\* decode to, whatever the stream, the chain of rounds and the sizes of a ring:
\* no coding choice is the sender's, and nothing of the stream is left unread.
THEOREM DecoderAcceptsOnlyTheEncoding ==
    WireSpec => []AcceptsOnlyTheEncoding
<1>1. WireInit => WireInv
  BY InitInv
<1>2. WireInv /\ [WireNext]_wireVars => WireInv'
  BY NextInv
<1>3. WireInv => AcceptsOnlyTheEncoding
  BY DEF WireInv
<1>. QED
  BY <1>1, <1>2, <1>3, PTL DEF WireSpec

-----------------------------------------------------------------------------
(***************************************************************************)
(* Sums over a finite set, element by element.                             *)
(***************************************************************************)
Chosen(s) == CHOOSE x \in s : TRUE

\* A function that satisfies the equation by which MapThenSumSet is defined.
Summing(h, S, g) ==
    g = [s \in SUBSET S |-> IF s = {} THEN 0 ELSE h[Chosen(s)] + g[s \ {Chosen(s)}]]

\* A set without its chosen element is smaller.
LEMMA Smaller ==
    ASSUME NEW S, IsFiniteSet(S), NEW s \in SUBSET S
    PROVE  /\ Cardinality(s) \in Nat /\ Cardinality(s) \in 0..Cardinality(S)
           /\ s # {} => /\ Chosen(s) \in s /\ Chosen(s) \in S
                        /\ s \ {Chosen(s)} \in SUBSET S
                        /\ Cardinality(s) # 0
                        /\ Cardinality(s \ {Chosen(s)}) = Cardinality(s) - 1
<1>1. IsFiniteSet(s) /\ Cardinality(s) <= Cardinality(S)
  BY FS_Subset
<1>2. Cardinality(s) \in Nat /\ Cardinality(S) \in Nat
  BY <1>1, FS_CardinalityType
<1>3. ASSUME s # {}
      PROVE  /\ Chosen(s) \in s /\ Chosen(s) \in S /\ s \ {Chosen(s)} \in SUBSET S
             /\ Cardinality(s) # 0
             /\ Cardinality(s \ {Chosen(s)}) = Cardinality(s) - 1
  <2>1. Chosen(s) \in s
    BY <1>3 DEF Chosen
  <2>2. Cardinality(s) # 0
    BY <1>1, <1>3, FS_EmptySet
  <2>3. Cardinality(s \ {Chosen(s)}) = Cardinality(s) - 1
    BY <1>1, <2>1, FS_RemoveElement
  <2>. QED
    BY <2>1, <2>2, <2>3
<1>. QED
  BY <1>1, <1>2, <1>3

\* Such a function exists, by induction over the sizes of the subsets.
LEMMA SummingExists ==
    ASSUME NEW S, IsFiniteSet(S), NEW h, \A x \in S : h[x] \in Nat
    PROVE  \E g \in [SUBSET S -> Nat] : Summing(h, S, g)
<1>. DEFINE Upto(k) == {s \in SUBSET S : Cardinality(s) <= k}
            Rest(s) == s \ {Chosen(s)}
            Sums(g, k) == /\ g \in [Upto(k) -> Nat]
                          /\ \A s \in Upto(k) :
                               g[s] = IF s = {} THEN 0 ELSE h[Chosen(s)] + g[Rest(s)]
            Wrong == {k \in 0..Cardinality(S) : ~ \E g : Sums(g, k)}
<1>1. Cardinality(S) \in Nat /\ \A s \in SUBSET S : Cardinality(s) \in 0..Cardinality(S)
  <2>1. \A s \in SUBSET S : Cardinality(s) \in 0..Cardinality(S)
    BY Smaller
  <2>. QED
    BY <2>1, FS_CardinalityType
<1>. HIDE DEF Sums
<1>2. ASSUME Wrong # {} PROVE FALSE
  <2>1. Wrong \subseteq Nat
    BY <1>1
  <2>. HIDE DEF Wrong
  <2>2. PICK k \in Wrong : \A j \in Wrong : k <= j
    BY <1>2, <2>1, LeastNatural
  <2>3. k \in 0..Cardinality(S) /\ k \in Nat /\ ~ \E g : Sums(g, k)
    BY <1>1, <2>2 DEF Wrong
  <2>4. CASE k = 0
    <3>1. \A s \in Upto(0) : s = {}
      <4>. TAKE s \in Upto(0)
      <4>1. s \in SUBSET S /\ Cardinality(s) <= 0
        OBVIOUS
      <4>2. Cardinality(s) = 0
        BY <1>1, <4>1
      <4>3. IsFiniteSet(s)
        BY <4>1, FS_Subset
      <4>. QED
        BY <4>2, <4>3, FS_EmptySet
    <3>. DEFINE g == [s \in Upto(0) |-> 0]
    <3>2. g \in [Upto(0) -> Nat] /\ \A s \in Upto(0) : g[s] = 0
      OBVIOUS
    <3>3. Sums(g, 0)
      BY <3>1, <3>2 DEF Sums
    <3>. QED
      BY <2>3, <2>4, <3>3
  <2>5. CASE k # 0
    <3>1. PICK j \in Nat : k = j + 1
      <4>1. \A l \in Nat : l # 0 => \E j \in Nat : l = j + 1
        <5>. TAKE l \in Nat
        <5>1. ASSUME l # 0 PROVE \E j \in Nat : l = j + 1
          <6>1. l - 1 \in Nat /\ l = (l - 1) + 1
            BY <5>1
          <6>. QED
            BY <6>1
        <5>. QED
          BY <5>1
      <4>. QED
        BY <2>3, <2>5, <4>1
    <3>2. j \in 0..Cardinality(S) /\ j \notin Wrong
      BY <1>1, <2>2, <2>3, <3>1
    <3>3. PICK g : Sums(g, j)
      BY <3>2 DEF Wrong
    <3>. DEFINE next == [s \in Upto(k) |-> IF s = {} THEN 0 ELSE h[Chosen(s)] + g[Rest(s)]]
    <3>4. \A s \in Upto(k) : s # {} => Chosen(s) \in S /\ Rest(s) \in Upto(j) /\ Rest(s) \in Upto(k)
      <4>. TAKE s \in Upto(k)
      <4>1. ASSUME s # {} PROVE Chosen(s) \in S /\ Rest(s) \in Upto(j) /\ Rest(s) \in Upto(k)
        <5>1. s \in SUBSET S /\ Cardinality(s) <= k
          OBVIOUS
        <5>2. /\ Cardinality(s) \in Nat /\ Chosen(s) \in S /\ Rest(s) \in SUBSET S
              /\ Cardinality(Rest(s)) = Cardinality(s) - 1
          BY <4>1, <5>1, Smaller
        <5>3. Cardinality(Rest(s)) <= j /\ Cardinality(Rest(s)) <= k
          BY <3>1, <5>1, <5>2
        <5>. QED
          BY <5>2, <5>3
      <4>. QED
        BY <4>1
    <3>. HIDE DEF Rest
    <3>5. \A s \in Upto(j) : g[s] \in Nat /\ g[s] = IF s = {} THEN 0 ELSE h[Chosen(s)] + g[Rest(s)]
      BY <3>3 DEF Sums
    <3>6. \A s \in Upto(j) : s \in Upto(k)
      <4>1. \A s \in SUBSET S : Cardinality(s) <= j => Cardinality(s) <= k
        BY <1>1, <3>1
      <4>. QED
        BY <4>1
    <3>7. next \in [Upto(k) -> Nat]
      <4>1. \A s \in Upto(k) : (IF s = {} THEN 0 ELSE h[Chosen(s)] + g[Rest(s)]) \in Nat
        BY <3>4, <3>5
      <4>. QED
        BY <4>1
    <3>8. \A s \in Upto(k) : next[s] = IF s = {} THEN 0 ELSE h[Chosen(s)] + g[Rest(s)]
      OBVIOUS
    <3>. HIDE DEF next, Upto
    <3>9. \A s \in Upto(j) : next[s] = g[s]
      BY <3>5, <3>6, <3>8
    <3>10. \A s \in Upto(k) : next[s] = IF s = {} THEN 0 ELSE h[Chosen(s)] + next[Rest(s)]
      BY <3>4, <3>8, <3>9
    <3>. QED
      BY <2>3, <3>7, <3>10 DEF Sums
  <2>. QED
    BY <2>4, <2>5
<1>3. PICK g : Sums(g, Cardinality(S))
  <2>1. Cardinality(S) \in 0..Cardinality(S)
    BY <1>1
  <2>. QED
    BY <1>2, <2>1
<1>4. Upto(Cardinality(S)) = SUBSET S
  <2>1. \A s \in SUBSET S : Cardinality(s) <= Cardinality(S)
    BY <1>1
  <2>. QED
    BY <2>1
<1>5. /\ g \in [SUBSET S -> Nat]
      /\ \A s \in SUBSET S : g[s] = IF s = {} THEN 0 ELSE h[Chosen(s)] + g[s \ {Chosen(s)}]
  BY <1>3, <1>4 DEF Sums
<1>. QED
  BY <1>5 DEF Summing

\* And there is one only: two agree on every set on which their summands do.
LEMMA SummingAgrees ==
    ASSUME NEW S, IsFiniteSet(S), NEW h, NEW f, Summing(h, S, f),
           NEW U, IsFiniteSet(U), NEW k, NEW g, Summing(k, U, g),
           NEW T, T \subseteq S, T \subseteq U, \A x \in T : h[x] = k[x]
    PROVE  f[T] = g[T]
<1>. DEFINE Wrong == {n \in 0..Cardinality(T) : \E s \in SUBSET T : Cardinality(s) = n /\ f[s] # g[s]}
<1>1. IsFiniteSet(T) /\ Cardinality(T) \in Nat
  BY FS_Subset, FS_CardinalityType
<1>2. \A s \in SUBSET T :
        /\ f[s] = IF s = {} THEN 0 ELSE h[Chosen(s)] + f[s \ {Chosen(s)}]
        /\ g[s] = IF s = {} THEN 0 ELSE k[Chosen(s)] + g[s \ {Chosen(s)}]
  BY DEF Summing
<1>3. ASSUME Wrong # {} PROVE FALSE
  <2>1. Wrong \subseteq Nat
    BY <1>1
  <2>. HIDE DEF Wrong
  <2>2. PICK n \in Wrong : \A j \in Wrong : n <= j
    BY <1>3, <2>1, LeastNatural
  <2>3. PICK s \in SUBSET T : Cardinality(s) = n /\ f[s] # g[s]
    BY <2>2 DEF Wrong
  <2>4. s # {}
    BY <1>2, <2>3
  <2>. DEFINE rest == s \ {Chosen(s)}
  <2>5. /\ rest \in SUBSET T /\ Cardinality(s) \in Nat /\ Cardinality(s) # 0
        /\ Cardinality(s) \in 0..Cardinality(T) /\ Cardinality(rest) = Cardinality(s) - 1
        /\ Chosen(s) \in T
    BY <1>1, <2>3, <2>4, Smaller
  <2>6. f[rest] # g[rest]
    BY <1>2, <2>3, <2>4, <2>5
  <2>. HIDE DEF rest
  <2>7. Cardinality(rest) \in 0..Cardinality(T) /\ Cardinality(rest) < n
    BY <1>1, <2>3, <2>5
  <2>8. Cardinality(rest) \in Wrong
    BY <2>5, <2>6, <2>7 DEF Wrong
  <2>. QED
    BY <2>1, <2>2, <2>7, <2>8
<1>4. T \in SUBSET T /\ Cardinality(T) \in 0..Cardinality(T)
  BY <1>1
<1>. QED
  BY <1>3, <1>4

\* The order in which elements are taken does not matter.
Splitting(h, S, g) ==
    \A s \in SUBSET S : \A x \in s : g[s] = h[x] + g[s \ {x}]

LEMMA SummingSplits ==
    ASSUME NEW S, NEW h, NEW g, Summing(h, S, g), IsFiniteSet(S),
           g \in [SUBSET S -> Nat], \A x \in S : h[x] \in Nat
    PROVE  Splitting(h, S, g)
<1>. DEFINE Good(s) == \A x \in s : g[s] = h[x] + g[s \ {x}]
            Wrong == {n \in 0..Cardinality(S) : \E s \in SUBSET S : Cardinality(s) = n /\ ~Good(s)}
<1>1. Cardinality(S) \in Nat
  BY FS_CardinalityType
<1>2. \A s \in SUBSET S : s # {} => g[s] = h[Chosen(s)] + g[s \ {Chosen(s)}]
  BY DEF Summing
<1>3. \A s \in SUBSET S : g[s] \in Nat
  OBVIOUS
<1>. HIDE DEF Good
<1>4. ASSUME Wrong # {} PROVE FALSE
  <2>1. Wrong \subseteq Nat
    BY <1>1
  <2>. HIDE DEF Wrong
  <2>2. PICK n \in Wrong : \A j \in Wrong : n <= j
    BY <1>4, <2>1, LeastNatural
  <2>3. PICK s \in SUBSET S : Cardinality(s) = n /\ ~Good(s)
    BY <2>2 DEF Wrong
  <2>4. PICK x \in s : g[s] # h[x] + g[s \ {x}]
    BY <2>3 DEF Good
  <2>. DEFINE y == Chosen(s)
              rest == s \ {y}
  <2>5. /\ rest \in SUBSET S /\ Cardinality(s) \in Nat /\ Cardinality(s) # 0
        /\ Cardinality(s) \in 0..Cardinality(S) /\ Cardinality(rest) = Cardinality(s) - 1
        /\ y \in s /\ y \in S
    BY <2>3, <2>4, Smaller
  <2>6. g[s] = h[y] + g[rest]
    BY <1>2, <2>4
  <2>7. x # y
    BY <2>4, <2>6
  <2>. HIDE DEF y
  <2>8. Cardinality(rest) \in 0..Cardinality(S) /\ Cardinality(rest) < n
    <3>. HIDE DEF rest
    <3>. QED
      BY <1>1, <2>3, <2>5
  <2>9. Good(rest)
    <3>. HIDE DEF rest
    <3>1. Cardinality(rest) \notin Wrong
      BY <2>1, <2>2, <2>8
    <3>. QED
      BY <2>5, <2>8, <3>1 DEF Wrong
  <2>10. g[rest] = h[x] + g[rest \ {x}]
    BY <2>7, <2>9 DEF Good
  <2>. DEFINE other == s \ {x}
  <2>11. IsFiniteSet(s) /\ Cardinality(other) = n - 1 /\ other \in SUBSET S
    <3>1. IsFiniteSet(s)
      BY FS_Subset
    <3>2. Cardinality(other) = Cardinality(s) - 1
      BY <3>1, FS_RemoveElement
    <3>. QED
      BY <2>3, <3>1, <3>2
  <2>12. Good(other)
    <3>. HIDE DEF other
    <3>1. Cardinality(other) \in 0..Cardinality(S) /\ Cardinality(other) < n
      BY <1>1, <2>3, <2>5, <2>11
    <3>2. Cardinality(other) \notin Wrong
      BY <2>1, <2>2, <3>1
    <3>. QED
      BY <2>11, <3>1, <3>2 DEF Wrong
  <2>13. g[other] = h[y] + g[other \ {y}]
    BY <2>5, <2>7, <2>12 DEF Good
  <2>14. other \ {y} = rest \ {x} /\ rest \ {x} \in SUBSET S
    BY <2>5
  <2>15. h[x] \in Nat /\ h[y] \in Nat /\ g[rest \ {x}] \in Nat
    BY <1>3, <2>5, <2>14
  <2>. DEFINE both == g[rest \ {x}]
  <2>16. g[s] = h[y] + (h[x] + both) /\ g[other] = h[y] + both
    BY <2>6, <2>10, <2>13, <2>14
  <2>17. g[s] # h[x] + g[other]
    BY <2>4
  <2>. HIDE DEF both, other, rest
  <2>. QED
    BY <2>15, <2>16, <2>17 DEF both
<1>5. \A s \in SUBSET S : Cardinality(s) \in 0..Cardinality(S)
  BY Smaller
<1>. QED
  BY <1>4, <1>5 DEF Good, Splitting

\* The sum of the values of a function over a finite set.
Total(h, S) == (CHOOSE g : Summing(h, S, g))[S]

\* A function that sums over S holds the totals of its subsets.
LEMMA TotalIs ==
    ASSUME NEW S, IsFiniteSet(S), NEW h, \A x \in S : h[x] \in Nat, NEW g, Summing(h, S, g),
           NEW T, T \subseteq S
    PROVE  Total(h, T) = g[T] /\ Total(h, T) \in Nat
<1>1. IsFiniteSet(T) /\ \A x \in T : h[x] \in Nat
  BY FS_Subset
<1>2. PICK f \in [SUBSET T -> Nat] : Summing(h, T, f)
  BY <1>1, SummingExists
<1>. DEFINE chosen == CHOOSE f1 : Summing(h, T, f1)
<1>3. Summing(h, T, chosen)
  BY <1>2
<1>. HIDE DEF chosen
<1>4. chosen[T] = g[T]
  BY <1>1, <1>3, SummingAgrees
<1>5. chosen[T] = f[T]
  BY <1>1, <1>2, <1>3, SummingAgrees
<1>6. f[T] \in Nat
  BY <1>2
<1>7. Total(h, T) = chosen[T]
  BY DEF Total, chosen
<1>. QED
  BY <1>4, <1>5, <1>6, <1>7

LEMMA TotalEmpty ==
    ASSUME NEW h
    PROVE  Total(h, {}) = 0
<1>1. IsFiniteSet({})
  BY FS_EmptySet
<1>2. PICK g \in [SUBSET {} -> Nat] : Summing(h, {}, g)
  BY <1>1, SummingExists
<1>3. Total(h, {}) = g[{}]
  BY <1>1, <1>2, TotalIs
<1>4. g[{}] = 0
  <2>1. {} \in SUBSET {}
    OBVIOUS
  <2>. QED
    BY <1>2, <2>1 DEF Summing
<1>. QED
  BY <1>3, <1>4

\* One element more.
LEMMA TotalSplits ==
    ASSUME NEW S, IsFiniteSet(S), NEW h, \A x \in S : h[x] \in Nat
    PROVE  /\ Total(h, S) \in Nat
           /\ \A x \in S : Total(h, S) = h[x] + Total(h, S \ {x}) /\ Total(h, S \ {x}) \in Nat
<1>1. PICK g \in [SUBSET S -> Nat] : Summing(h, S, g)
  BY SummingExists
<1>2. \A T \in SUBSET S : Total(h, T) = g[T] /\ Total(h, T) \in Nat
  BY <1>1, TotalIs
<1>3. Splitting(h, S, g)
  BY <1>1, SummingSplits
<1>. QED
  BY <1>2, <1>3 DEF Splitting

LEMMA TotalSame ==
    ASSUME NEW S, IsFiniteSet(S), NEW h, NEW k, \A x \in S : h[x] \in Nat /\ h[x] = k[x]
    PROVE  Total(h, S) = Total(k, S)
<1>1. PICK f \in [SUBSET S -> Nat] : Summing(h, S, f)
  BY SummingExists
<1>2. PICK g \in [SUBSET S -> Nat] : Summing(k, S, g)
  BY SummingExists
<1>3. Total(h, S) = f[S] /\ Total(k, S) = g[S]
  BY <1>1, <1>2, TotalIs
<1>4. f[S] = g[S]
  BY <1>1, <1>2, SummingAgrees
<1>. QED
  BY <1>3, <1>4

-----------------------------------------------------------------------------
(***************************************************************************)
(* The allowance.                                                          *)
(***************************************************************************)
LEMMA RoundAllowanceType ==
    ASSUME NEW c \in Chains, NEW r \in 1..Len(c)
    PROVE  RoundAllowance(c[r]) \in Nat /\ CommitmentAllowance(c[r]) \in Nat
<1>. DEFINE cfg == c[r]
<1>1. /\ cfg.kind \in Kinds /\ cfg.projection \in Projections
      /\ \A f \in Roots : cfg.rank[f] \in Nat
      /\ cfg.vars \in Nat /\ cfg.image \in Nat
      /\ Width(cfg) \in Nat /\ Height(cfg) \in Nat
      /\ NextPowerOfTwo(cfg.rank["commitment"]) \in Nat
  BY ConfigType
<1>2. /\ cfg.rank["commitment"] \in Nat /\ cfg.rank["opening"] \in Nat /\ cfg.rank["coarse"] \in Nat
      /\ cfg.rank["constantTerm"] \in Nat /\ cfg.rank["batched"] \in Nat
  BY <1>1 DEF Roots
<1>3. NofBatches \in Nat
  BY NofBatchesAssumption
<1>. HIDE DEF cfg
<1>4. \A m, n \in Nat : m * n \in Nat /\ m + n \in Nat
  OBVIOUS
<1>5. \A n \in Nat : Rings(n) \in Nat /\ Polys(n) \in Nat
  BY WireFormatAssumption, <1>4 DEF Rings, Polys
<1>6. Images(cfg) \in Nat
  BY <1>1, <1>3, <1>4, <1>5 DEF Images
<1>. HIDE DEF Rings, Polys, Images
<1>7. CASE cfg.kind = "Sumcheck"
  <2>. DEFINE norms == 4 + (IF HasProjectionNorm(cfg) THEN 1 ELSE 0)
              roots == cfg.rank["constantTerm"] + cfg.rank["batched"] + NofBatches
              projected == CASE cfg.projection = "Coarse" -> Rings(cfg.rank["coarse"])
                             [] cfg.projection = "Fine" -> Rings(roots)
                             [] OTHER -> 0
  <2>1. norms \in Nat /\ roots \in Nat
    <3>1. norms = 5 \/ norms = 4
      OBVIOUS
    <3>2. roots \in Nat
      <4>1. cfg.rank["constantTerm"] + cfg.rank["batched"] \in Nat
        BY <1>2, <1>4
      <4>. QED
        BY <1>3, <1>4, <4>1, Zenon
    <3>. QED
      BY <3>1, <3>2
  <2>2. RoundAllowance(cfg) = Polys(cfg.vars) + Rings(norms) + Rings(cfg.rank["opening"]) + projected
    BY <1>7 DEF RoundAllowance
  <2>. HIDE DEF norms, roots
  <2>3. projected \in Nat
    BY <1>2, <1>5, <2>1
  <2>4. Polys(cfg.vars) \in Nat /\ Rings(norms) \in Nat /\ Rings(cfg.rank["opening"]) \in Nat
    BY <1>1, <1>2, <1>5, <2>1
  <2>. HIDE DEF projected
  <2>5. RoundAllowance(cfg) \in Nat
    BY <2>2, <2>3, <2>4
  <2>6. CommitmentAllowance(cfg) \in Nat
    BY <1>2, <1>5, <1>7 DEF CommitmentAllowance
  <2>. QED
    BY <2>5, <2>6 DEF cfg
<1>8. CASE cfg.kind # "Sumcheck"
  <2>1. 2 * Width(cfg) \in Nat /\ Height(cfg) + 2 * Width(cfg) \in Nat
        /\ NextPowerOfTwo(cfg.rank["commitment"]) * Width(cfg) \in Nat
    BY <1>1, <1>4
  <2>2. CommitmentAllowance(cfg) \in Nat
    BY <1>5, <1>8, <2>1 DEF CommitmentAllowance
  <2>3. CASE cfg.kind = "Intermediate"
    <3>1. RoundAllowance(cfg) = Rings(2 * Width(cfg)) + Polys(cfg.vars) + Rings(3) + Images(cfg)
      BY <2>3 DEF RoundAllowance
    <3>2. /\ Rings(2 * Width(cfg)) \in Nat /\ Polys(cfg.vars) \in Nat /\ Rings(3) \in Nat
      BY <1>1, <1>5, <2>1
    <3>. QED
      BY <1>6, <2>2, <3>1, <3>2 DEF cfg
  <2>4. CASE cfg.kind = "Simple"
    <3>1. RoundAllowance(cfg) = Rings(Height(cfg) + 2 * Width(cfg)) + Images(cfg)
      BY <2>4 DEF RoundAllowance
    <3>2. Rings(Height(cfg) + 2 * Width(cfg)) \in Nat
      BY <1>5, <2>1
    <3>. QED
      BY <1>6, <2>2, <3>1, <3>2 DEF cfg
  <2>. QED
    BY <1>1, <1>8, <2>3, <2>4 DEF Kinds
<1>. QED
  BY <1>7, <1>8

\* The two sums of an allowance.
LEMMA RoundsSum ==
    ASSUME NEW c \in Chains
    PROVE  /\ Seqs!MapThenSumSet(LAMBDA r : RoundAllowance(c[r]), DOMAIN c)
                = Total([r \in DOMAIN c |-> RoundAllowance(c[r])], DOMAIN c)
           /\ Total([r \in DOMAIN c |-> RoundAllowance(c[r])], DOMAIN c) \in Nat
<1>. DEFINE S == DOMAIN c
            h == [r \in S |-> RoundAllowance(c[r])]
            Equation(g) == g = [s \in SUBSET S |->
                                  IF s = {} THEN 0
                                  ELSE RoundAllowance(c[CHOOSE x \in s : TRUE])
                                       + g[s \ {CHOOSE x \in s : TRUE}]]
            iter == CHOOSE g : Equation(g)
<1>1. S = 1..Len(c) /\ Len(c) \in Nat
  BY ChainType, LenProperties
<1>2. IsFiniteSet(S)
  BY <1>1, FS_Interval
<1>3. \A r \in S : h[r] \in Nat
  BY <1>1, RoundAllowanceType
<1>4. \A g : Equation(g) <=> Summing(h, S, g)
  <2>. TAKE g
  <2>1. \A s \in SUBSET S : s # {} => h[Chosen(s)] = RoundAllowance(c[Chosen(s)])
    <3>1. \A s \in SUBSET S : s # {} => Chosen(s) \in S
      BY DEF Chosen
    <3>. QED
      BY <3>1
  <2>. HIDE DEF h, S
  <2>2. [s \in SUBSET S |-> IF s = {} THEN 0 ELSE h[Chosen(s)] + g[s \ {Chosen(s)}]]
          = [s \in SUBSET S |-> IF s = {} THEN 0
                                ELSE RoundAllowance(c[Chosen(s)]) + g[s \ {Chosen(s)}]]
    BY <2>1
  <2>. QED
    BY <2>2 DEF Summing, Chosen
<1>5. Seqs!MapThenSumSet(LAMBDA r : RoundAllowance(c[r]), DOMAIN c) = iter[S]
  BY DEF Seqs!MapThenSumSet, Seqs!MapThenFoldSet
<1>. HIDE DEF h, S, Equation
<1>6. PICK g \in [SUBSET S -> Nat] : Summing(h, S, g)
  BY <1>2, <1>3, SummingExists
<1>7. Summing(h, S, iter)
  BY <1>4, <1>6
<1>. HIDE DEF iter
<1>8. Total(h, S) = iter[S] /\ Total(h, S) \in Nat
  BY <1>2, <1>3, <1>7, TotalIs
<1>. QED
  BY <1>5, <1>8 DEF h, S

LEMMA CommitmentsSum ==
    ASSUME NEW c \in Chains
    PROVE  /\ Seqs!MapThenSumSet(LAMBDA r : CommitmentAllowance(c[r]), 2..Len(c))
                = Total([r \in 2..Len(c) |-> CommitmentAllowance(c[r])], 2..Len(c))
           /\ Total([r \in 2..Len(c) |-> CommitmentAllowance(c[r])], 2..Len(c)) \in Nat
<1>. DEFINE S == 2..Len(c)
            h == [r \in S |-> CommitmentAllowance(c[r])]
            Equation(g) == g = [s \in SUBSET S |->
                                  IF s = {} THEN 0
                                  ELSE CommitmentAllowance(c[CHOOSE x \in s : TRUE])
                                       + g[s \ {CHOOSE x \in s : TRUE}]]
            iter == CHOOSE g : Equation(g)
<1>1. S \subseteq 1..Len(c) /\ Len(c) \in Nat
  BY ChainType, LenProperties
<1>2. IsFiniteSet(S)
  BY <1>1, FS_Interval
<1>3. \A r \in S : h[r] \in Nat
  BY <1>1, RoundAllowanceType
<1>4. \A g : Equation(g) <=> Summing(h, S, g)
  <2>. TAKE g
  <2>1. \A s \in SUBSET S : s # {} => h[Chosen(s)] = CommitmentAllowance(c[Chosen(s)])
    <3>1. \A s \in SUBSET S : s # {} => Chosen(s) \in S
      BY DEF Chosen
    <3>. QED
      BY <3>1
  <2>. HIDE DEF h, S
  <2>2. [s \in SUBSET S |-> IF s = {} THEN 0 ELSE h[Chosen(s)] + g[s \ {Chosen(s)}]]
          = [s \in SUBSET S |-> IF s = {} THEN 0
                                ELSE CommitmentAllowance(c[Chosen(s)]) + g[s \ {Chosen(s)}]]
    BY <2>1
  <2>. QED
    BY <2>2 DEF Summing, Chosen
<1>5. Seqs!MapThenSumSet(LAMBDA r : CommitmentAllowance(c[r]), 2..Len(c)) = iter[S]
  BY DEF Seqs!MapThenSumSet, Seqs!MapThenFoldSet
<1>. HIDE DEF h, S, Equation
<1>6. PICK g \in [SUBSET S -> Nat] : Summing(h, S, g)
  BY <1>2, <1>3, SummingExists
<1>7. Summing(h, S, iter)
  BY <1>4, <1>6
<1>. HIDE DEF iter
<1>8. Total(h, S) = iter[S] /\ Total(h, S) \in Nat
  BY <1>2, <1>3, <1>7, TotalIs
<1>. QED
  BY <1>5, <1>8 DEF h, S

\* An allowance is a natural number of coefficients and of rounds.
LEMMA AllowanceType ==
    ASSUME chain \in Chains
    PROVE  Allowance.cells \in Nat /\ Allowance.rounds \in Nat \ {0}
<1>1. AllowanceOf(chain).cells \in Nat
  <2>. DEFINE rounds == Seqs!MapThenSumSet(LAMBDA r : RoundAllowance(chain[r]), DOMAIN chain)
              commitments == Seqs!MapThenSumSet(LAMBDA r : CommitmentAllowance(chain[r]), 2..Len(chain))
  <2>1. rounds \in Nat
    BY RoundsSum
  <2>2. commitments \in Nat
    BY CommitmentsSum
  <2>3. AllowanceOf(chain).cells = rounds + commitments
    BY DEF AllowanceOf
  <2>. HIDE DEF rounds, commitments
  <2>. QED
    BY <2>1, <2>2, <2>3
<1>2. AllowanceOf(chain).rounds \in Nat \ {0}
  BY ChainType DEF AllowanceOf
<1>3. ClaimsAllowance.cells \in Nat /\ ClaimsAllowance.rounds \in Nat \ {0}
  BY WireFormatAssumption DEF ClaimsAllowance, Polys, Rings
<1>. QED
  BY <1>1, <1>2, <1>3 DEF Allowance

\* Whatever is declared, what is spent was left.
AllowanceInv ==
    /\ chain \in Chains
    /\ left \in Nat /\ allocated \in Nat
    /\ AllowanceHolds

\* A field costs what its lengths say.
LEMMA CostType ==
    ASSUME NEW w \in WireFields
    PROVE  Cost(w) \in Nat /\ Allocates(w) = Cost(w)
<1>1. Len(w.slice.data) \in Nat /\ Len(w.polys) \in Nat
  <2>1. w.slice.data \in Seq(Elements) /\ w.polys \in Seq(WirePolynomials)
    BY DEF WireFields, WireSlices
  <2>. QED
    BY <2>1, LenProperties
<1>2. \A m, n \in Nat : m * n \in Nat /\ m + n \in Nat
  OBVIOUS
<1>3. \A n \in Nat : Rings(n) \in Nat /\ Polys(n) \in Nat
  BY WireFormatAssumption, <1>2 DEF Rings, Polys
<1>. HIDE DEF Rings, Polys
<1>. QED
  BY <1>1, <1>2, <1>3 DEF Cost, Allocates

\* A field that is read is paid for before it is allocated.
LEMMA TakeSpends ==
    ASSUME WireInv, AllowanceInv, Field \in Fields, NEW a \in Arrivals(Field), NEW admitted,
           Take(a, admitted)
    PROVE  AllowanceInv'
<1>. DEFINE w == a.written
<1>1. SenderProof(source) /\ Len(out) \in Nat \ {0} /\ out \in Seq(DecodedRounds)
  BY ReadingRound DEF WireInv, WireType
<1>2. w \in WireFields
  BY <1>1, ArrivalsType DEF Arrival
<1>3. Cost(w) \in Nat /\ Allocates(w) = Cost(w)
  BY <1>2, CostType
<1>4. /\ left' = IF Cost(w) <= left THEN left - Cost(w) ELSE left
      /\ allocated' = IF Cost(w) <= left THEN allocated + Cost(w) ELSE allocated
      /\ chain' = chain /\ source' = source /\ roundsLeft' = roundsLeft
  BY <1>3 DEF Take, Charged
<1>5. Len(out') = Len(out)
  <2>1. \A x : Len([out EXCEPT ![Len(out)].items[Field] = x]) = Len(out)
    BY <1>1
  <2>. QED
    BY <2>1 DEF Take
<1>6. Allowance' = Allowance
  BY <1>4 DEF Allowance
<1>7. left \in Nat /\ allocated \in Nat /\ allocated + left = Allowance.cells
  BY DEF AllowanceInv, AllowanceHolds
<1>8. left' \in Nat /\ allocated' \in Nat /\ allocated' + left' = allocated + left
  <2>. HIDE DEF w
  <2>1. CASE Cost(w) <= left
    BY <1>3, <1>4, <1>7, <2>1
  <2>2. CASE ~(Cost(w) <= left)
    BY <1>3, <1>4, <1>7, <2>2
  <2>. QED
    BY <2>1, <2>2
<1>. QED
  BY <1>4, <1>5, <1>6, <1>7, <1>8 DEF AllowanceInv, AllowanceHolds

\* Every step keeps the account.
LEMMA AllowanceKept ==
    ASSUME WireInv, AllowanceInv, [WireNext]_wireVars
    PROVE  AllowanceInv'
<1>1. ASSUME UNCHANGED <<chain, source, left, allocated>>,
             Len(out') + roundsLeft' = Len(out) + roundsLeft, roundsLeft' >= 0
      PROVE  AllowanceInv'
  <2>1. Allowance' = Allowance
    BY <1>1 DEF Allowance
  <2>. QED
    BY <1>1, <2>1 DEF AllowanceInv, AllowanceHolds
<1>2. /\ out \in Seq(DecodedRounds) /\ Len(out) \in Nat /\ roundsLeft \in Nat
      /\ todo # <<>> => Field = Head(todo)
  BY LenProperties DEF WireInv, WireType, Field
<1>3. CASE ReadPolys
  BY <1>3, TakeSpends DEF ReadPolys, Reading, Fields
<1>4. CASE ReadRing
  BY <1>4, TakeSpends DEF ReadRing, Reading, Fields, SingleRings
<1>5. CASE ReadSlice
  BY <1>5, TakeSpends DEF ReadSlice, Reading, Fields, Slices
<1>6. CASE ReadMatrix
  BY <1>6, TakeSpends DEF ReadMatrix, Reading, Fields, Verticals, Horizontals
<1>7. CASE ReadNextCommitment
  BY <1>7, TakeSpends DEF ReadNextCommitment, Reading, Fields
<1>8. CASE ReadFinePair
  BY <1>1, <1>2, <1>8 DEF ReadFinePair
<1>9. CASE ReadNext
  <2>1. UNCHANGED <<chain, source, left, allocated>>
    BY <1>9 DEF ReadNext
  <2>2. \/ out' = out /\ roundsLeft' = roundsLeft
        \/ /\ ~RoundRefused /\ roundsLeft' = roundsLeft - 1
           /\ \E kind \in Kinds : out' = Append(out, [kind |-> kind, items |-> NoItems])
    BY <1>9 DEF ReadNext
  <2>3. CASE out' = out /\ roundsLeft' = roundsLeft
    BY <1>1, <1>2, <2>1, <2>3
  <2>4. CASE /\ ~RoundRefused /\ roundsLeft' = roundsLeft - 1
             /\ \E kind \in Kinds : out' = Append(out, [kind |-> kind, items |-> NoItems])
    <3>1. PICK kind \in Kinds : out' = Append(out, [kind |-> kind, items |-> NoItems])
      BY <2>4
    <3>2. Deepens(out, out', kind)
      BY <1>2, <3>1, RoundRead DEF ProofKinds
    <3>3. Len(out') = Len(out) + 1
      BY <3>2 DEF Deepens
    <3>4. roundsLeft # 0 /\ roundsLeft' = roundsLeft - 1
      BY <2>4 DEF RoundRefused
    <3>5. Len(out') + roundsLeft' = Len(out) + roundsLeft /\ roundsLeft' >= 0
      BY <1>2, <3>3, <3>4
    <3>. QED
      BY <1>1, <2>1, <3>5
  <2>. QED
    BY <2>2, <2>3, <2>4
<1>10. CASE Finish
  BY <1>1, <1>2, <1>10 DEF Finish
<1>11. CASE UNCHANGED wireVars
  BY <1>1, <1>2, <1>11 DEF wireVars
<1>12. CASE Decided
  BY <1>11, <1>12 DEF Decided
<1>. QED
  BY <1>3, <1>4, <1>5, <1>6, <1>7, <1>8, <1>9, <1>10, <1>11, <1>12 DEF WireNext

\* Whatever the stream declares, the decoder allocates no more coefficients
\* than the allowance of the configured chain, which is a number, and recurses
\* into no more rounds.
THEOREM DecoderKeepsItsAllowance ==
    WireSpec => []AllowanceHolds
<1>1. WireInit => WireInv /\ AllowanceInv
  <2>1. ASSUME WireInit PROVE AllowanceInv
    <3>1. chain \in Chains /\ left = Allowance.cells /\ roundsLeft = Allowance.rounds - 1
          /\ allocated = 0 /\ Len(out) = 1
      BY <2>1 DEF WireInit
    <3>2. Allowance.cells \in Nat /\ Allowance.rounds \in Nat \ {0}
      BY <3>1, AllowanceType
    <3>. QED
      BY <3>1, <3>2 DEF AllowanceInv, AllowanceHolds
  <2>. QED
    BY <2>1, InitInv
<1>2. WireInv /\ AllowanceInv /\ [WireNext]_wireVars => WireInv' /\ AllowanceInv'
  BY NextInv, AllowanceKept
<1>3. AllowanceInv => AllowanceHolds
  BY DEF AllowanceInv
<1>. QED
  BY <1>1, <1>2, <1>3, PTL DEF WireSpec

-----------------------------------------------------------------------------
(***************************************************************************)
(* What a proof declares, and what of it has been read.                    *)
(***************************************************************************)
\* What the data of a field costs, and what a round declares in all its fields.
Costs(f, n) == IF f = "polys" THEN Polys(n) ELSE Rings(n)
FieldCosts(round) == [f \in Fields |-> Costs(f, Len(round.items[f].data))]
RoundDeclares(round) == Total(FieldCosts(round), Fields)
RoundsDeclare(proof) == [r \in DOMAIN proof |-> RoundDeclares(proof[r])]

\* A round or a proof whose lengths are numbers.
Measured(round) == \A f \in Fields : Len(round.items[f].data) \in Nat

LEMMA CostsType ==
    /\ \A n \in Nat : Rings(n) \in Nat /\ Polys(n) \in Nat
    /\ \A f : \A n \in Nat : Costs(f, n) \in Nat
    /\ \A f : Costs(f, 0) = 0
<1>1. \A m, n \in Nat : m * n \in Nat
  OBVIOUS
<1>2. \A n \in Nat : Rings(n) \in Nat /\ Polys(n) \in Nat
  BY WireFormatAssumption, <1>1 DEF Rings, Polys
<1>3. Rings(0) = 0 /\ Polys(0) = 0
  BY WireFormatAssumption DEF Rings, Polys
<1>. QED
  BY <1>2, <1>3 DEF Costs

LEMMA FieldsFinite ==
    IsFiniteSet(Fields)
<1>. DEFINE S1 == {"opening", "coarse", "constantTerm", "batched", "norm", "mostInnerNorm",
                   "projectionNorm"}
            S2 == {"constantTermClaims", "polys", "z0", "z1", "next", "image", "folded"}
<1>1. IsFiniteSet(S1) /\ IsFiniteSet(S2)
  <2>1. \A S, x : IsFiniteSet(S) => IsFiniteSet(S \cup {x})
    BY FS_AddElement
  <2>2. IsFiniteSet({})
    BY FS_EmptySet
  <2>3. IsFiniteSet({} \cup {"opening"} \cup {"coarse"} \cup {"constantTerm"} \cup {"batched"}
                    \cup {"norm"} \cup {"mostInnerNorm"} \cup {"projectionNorm"})
    BY <2>1, <2>2, Zenon
  <2>4. IsFiniteSet({} \cup {"constantTermClaims"} \cup {"polys"} \cup {"z0"} \cup {"z1"}
                    \cup {"next"} \cup {"image"} \cup {"folded"})
    BY <2>1, <2>2, Zenon
  <2>5. S1 = {} \cup {"opening"} \cup {"coarse"} \cup {"constantTerm"} \cup {"batched"}
             \cup {"norm"} \cup {"mostInnerNorm"} \cup {"projectionNorm"}
    OBVIOUS
  <2>6. S2 = {} \cup {"constantTermClaims"} \cup {"polys"} \cup {"z0"} \cup {"z1"}
             \cup {"next"} \cup {"image"} \cup {"folded"}
    OBVIOUS
  <2>. QED
    BY <2>3, <2>4, <2>5, <2>6
<1>2. Fields = S1 \cup S2
  BY DEF Fields
<1>. QED
  BY <1>1, <1>2, FS_Union

\* What a proof declares, in terms of sums over sets of fields and of rounds.
LEMMA RoundDeclaresType ==
    ASSUME NEW round, Measured(round)
    PROVE  /\ RoundDeclares(round) \in Nat
           /\ \A f \in Fields : FieldCosts(round)[f] \in Nat
           /\ Seqs!MapThenSumSet(LAMBDA f : IF f = "polys" THEN Polys(Len(round.items[f].data))
                                            ELSE Rings(Len(round.items[f].data)), Fields)
                = RoundDeclares(round)
<1>. DEFINE S == Fields
            h == FieldCosts(round)
            Equation(g) == g = [s \in SUBSET S |->
                                  IF s = {} THEN 0
                                  ELSE (IF (CHOOSE x \in s : TRUE) = "polys"
                                        THEN Polys(Len(round.items[CHOOSE x \in s : TRUE].data))
                                        ELSE Rings(Len(round.items[CHOOSE x \in s : TRUE].data)))
                                       + g[s \ {CHOOSE x \in s : TRUE}]]
            iter == CHOOSE g : Equation(g)
<1>1. IsFiniteSet(S) /\ \A f \in S : h[f] \in Nat
  BY FieldsFinite, CostsType DEF Measured, FieldCosts
<1>2. \A g : Equation(g) <=> Summing(h, S, g)
  <2>. TAKE g
  <2>1. \A s \in SUBSET S : s # {} =>
          h[Chosen(s)] = IF Chosen(s) = "polys" THEN Polys(Len(round.items[Chosen(s)].data))
                         ELSE Rings(Len(round.items[Chosen(s)].data))
    <3>1. \A s \in SUBSET S : s # {} => Chosen(s) \in S
      BY DEF Chosen
    <3>2. \A f \in S : h[f] = IF f = "polys" THEN Polys(Len(round.items[f].data))
                              ELSE Rings(Len(round.items[f].data))
      BY DEF FieldCosts, Costs
    <3>. HIDE DEF S, h
    <3>. QED
      BY <3>1, <3>2
  <2>. HIDE DEF h, S
  <2>2. [s \in SUBSET S |-> IF s = {} THEN 0 ELSE h[Chosen(s)] + g[s \ {Chosen(s)}]]
          = [s \in SUBSET S |->
               IF s = {} THEN 0
               ELSE (IF Chosen(s) = "polys" THEN Polys(Len(round.items[Chosen(s)].data))
                     ELSE Rings(Len(round.items[Chosen(s)].data)))
                    + g[s \ {Chosen(s)}]]
    BY <2>1
  <2>. QED
    BY <2>2 DEF Summing, Chosen
<1>3. Seqs!MapThenSumSet(LAMBDA f : IF f = "polys" THEN Polys(Len(round.items[f].data))
                                    ELSE Rings(Len(round.items[f].data)), Fields) = iter[S]
  BY DEF Seqs!MapThenSumSet, Seqs!MapThenFoldSet
<1>. HIDE DEF h, S, Equation
<1>4. PICK g \in [SUBSET S -> Nat] : Summing(h, S, g)
  BY <1>1, SummingExists
<1>5. Summing(h, S, iter)
  BY <1>2, <1>4
<1>. HIDE DEF iter
<1>6. Total(h, S) = iter[S] /\ Total(h, S) \in Nat
  BY <1>1, <1>5, TotalIs
<1>. QED
  BY <1>1, <1>3, <1>6 DEF RoundDeclares, h, S

LEMMA DeclaredIs ==
    ASSUME NEW proof, Len(proof) \in Nat, DOMAIN proof = 1..Len(proof),
           \A r \in 1..Len(proof) : Measured(proof[r])
    PROVE  /\ Declared(proof) = Total(RoundsDeclare(proof), 1..Len(proof))
           /\ IsFiniteSet(1..Len(proof))
           /\ \A r \in 1..Len(proof) : /\ RoundsDeclare(proof)[r] = RoundDeclares(proof[r])
                                       /\ RoundDeclares(proof[r]) \in Nat
<1>. DEFINE S == DOMAIN proof
            h == RoundsDeclare(proof)
            In(r) == Seqs!MapThenSumSet(LAMBDA f :
                        IF f = "polys" THEN Polys(Len(proof[r].items[f].data))
                        ELSE Rings(Len(proof[r].items[f].data)), Fields)
            Equation(g) == g = [s \in SUBSET S |->
                                  IF s = {} THEN 0
                                  ELSE In(CHOOSE x \in s : TRUE) + g[s \ {CHOOSE x \in s : TRUE}]]
            iter == CHOOSE g : Equation(g)
<1>1. \A r \in 1..Len(proof) : In(r) = RoundDeclares(proof[r]) /\ RoundDeclares(proof[r]) \in Nat
  BY RoundDeclaresType
<1>2. \A r \in 1..Len(proof) : h[r] = RoundDeclares(proof[r])
  BY DEF RoundsDeclare
<1>3. IsFiniteSet(1..Len(proof))
  BY FS_Interval
<1>4. Declared(proof) = iter[S]
  BY DEF Declared, Seqs!MapThenSumSet, Seqs!MapThenFoldSet
<1>. HIDE DEF In, h
<1>5. \A g : Equation(g) <=> Summing(h, S, g)
  <2>. TAKE g
  <2>1. \A s \in SUBSET S : s # {} => h[Chosen(s)] = In(Chosen(s))
    <3>1. \A s \in SUBSET S : s # {} => Chosen(s) \in S
      BY DEF Chosen
    <3>. QED
      BY <1>1, <1>2, <3>1
  <2>. HIDE DEF S
  <2>2. [s \in SUBSET S |-> IF s = {} THEN 0 ELSE h[Chosen(s)] + g[s \ {Chosen(s)}]]
          = [s \in SUBSET S |-> IF s = {} THEN 0 ELSE In(Chosen(s)) + g[s \ {Chosen(s)}]]
    BY <2>1
  <2>. QED
    BY <2>2 DEF Summing, Chosen
<1>. HIDE DEF Equation
<1>6. \A r \in S : h[r] \in Nat
  BY <1>1, <1>2
<1>7. PICK g \in [SUBSET S -> Nat] : Summing(h, S, g)
  BY <1>3, <1>6, SummingExists
<1>8. Summing(h, S, iter)
  BY <1>5, <1>7
<1>. HIDE DEF iter
<1>9. Total(h, S) = iter[S]
  BY <1>3, <1>6, <1>8, TotalIs
<1>. QED
  BY <1>1, <1>2, <1>3, <1>4, <1>9 DEF h

\* The fields of a kind of round, the roots of a fine projection among them.
FieldSet(kind) ==
    {EncoderFields(kind)[i] : i \in 1..Len(EncoderFields(kind))}
    \cup (IF kind = "Sumcheck" THEN {"constantTerm", "batched"} ELSE {})

\* A field of the round being read that is still to be read.
Pending(f) ==
    \/ \E i \in 1..Len(todo) : todo[i] = f
    \/ f \in {"constantTerm", "batched"} /\ \E i \in 1..Len(todo) : todo[i] = "fine"

\* The fields that hold one element in every round of the kind.
Mandatory(kind, f) == f \in FieldSet(kind) /\ f \in SingleRings /\ ~Optional(kind, f)

\* A round that has been read holds its fields, and no others.
RoundWhole(round) ==
    \A f \in Fields :
      /\ f \notin FieldSet(round.kind) => round.items[f] = AbsentItem
      /\ Mandatory(round.kind, f) => Len(round.items[f].data) = 1

\* The round being read holds what has been read of it, and no more.
RoundSoFar ==
    \A f \in Fields :
      /\ f \notin FieldSet(Round.kind) \/ Pending(f) => Round.items[f] = AbsentItem
      /\ Mandatory(Round.kind, f) /\ ~Pending(f) => Len(Round.items[f].data) = 1

\* What has been decoded is what has been paid for.
SpentInv ==
    status # "malformed" =>
      /\ \A r \in 1..(Len(out) - 1) : RoundWhole(out[r])
      /\ RoundSoFar
      /\ status = "accepted" => todo = <<>>
      /\ left + Declared(out) = Allowance.cells

LEMMA AbsentIsEmpty ==
    AbsentItem.data = <<>> /\ Len(AbsentItem.data) = 0 /\ AbsentItem.shape = NoShape
<1>1. [i \in DOMAIN <<>> |-> IF "norm" = "polys"
                             THEN Polynomial(<<>>[i], 1 + (i % 4), 1 + (i % 4))
                             ELSE Element("norm", <<>>[i])] = <<>>
  OBVIOUS
<1>. QED
  BY <1>1 DEF AbsentItem, WireItem, Absent, NoShape

LEMMA DecodedMeasured ==
    ASSUME NEW o \in Seq(DecodedRounds), Len(o) # 0
    PROVE  /\ Len(o) \in Nat \ {0} /\ DOMAIN o = 1..Len(o)
           /\ \A r \in 1..Len(o) : Measured(o[r])
<1>1. /\ Len(o) \in Nat \ {0} /\ DOMAIN o = 1..Len(o)
      /\ \A r \in 1..Len(o) : DecodedRound(o[r])
  BY DecodedRoundsType DEF DecodedProof
<1>2. \A round : DecodedRound(round) => Measured(round)
  <2>. SUFFICES ASSUME NEW round, DecodedRound(round), NEW f \in Fields
                PROVE  Len(round.items[f].data) \in Nat
    BY DEF Measured
  <2>1. round.items[f].data \in Seq(Polynomials) \/ round.items[f].data \in Seq(Elements)
    BY DEF DecodedRound, WireItems
  <2>. QED
    BY <2>1, LenProperties
<1>. QED
  BY <1>1, <1>2

\* A field more of the last round.
LEMMA RoundDeclaresMore ==
    ASSUME NEW round, Measured(round), NEW next, Measured(next), NEW f \in Fields,
           Len(round.items[f].data) = 0,
           \A g \in Fields : g # f => next.items[g] = round.items[g]
    PROVE  RoundDeclares(next) = RoundDeclares(round) + Costs(f, Len(next.items[f].data))
<1>. DEFINE h == FieldCosts(round)
            k == FieldCosts(next)
            S == Fields
            rest == S \ {f}
<1>1. /\ \A g \in S : h[g] \in Nat /\ k[g] \in Nat
      /\ RoundDeclares(round) = Total(h, S) /\ RoundDeclares(next) = Total(k, S)
  BY RoundDeclaresType DEF RoundDeclares
<1>2. /\ \A g \in rest : h[g] = k[g]
      /\ h[f] = 0 /\ k[f] = Costs(f, Len(next.items[f].data))
  BY CostsType DEF FieldCosts
<1>3. IsFiniteSet(S) /\ IsFiniteSet(rest) /\ f \in S /\ rest \subseteq S
  BY FieldsFinite, FS_Subset
<1>. HIDE DEF h, k, S
<1>4. /\ Total(h, S) = h[f] + Total(h, rest) /\ Total(h, rest) \in Nat
      /\ Total(k, S) = k[f] + Total(k, rest)
  BY <1>1, <1>3, TotalSplits
<1>5. Total(h, rest) = Total(k, rest)
  <2>1. \A g \in rest : h[g] \in Nat /\ h[g] = k[g]
    BY <1>1, <1>2, <1>3
  <2>. HIDE DEF rest
  <2>. QED
    BY <1>3, <2>1, TotalSame
<1>6. k[f] \in Nat
  BY <1>1, <1>3
<1>. HIDE DEF rest
<1>. QED
  BY <1>1, <1>2, <1>4, <1>5, <1>6

\* A round with nothing in it declares nothing.
LEMMA NothingDeclared ==
    ASSUME NEW round, \A f \in Fields : Len(round.items[f].data) = 0
    PROVE  Measured(round) /\ RoundDeclares(round) = 0
<1>. DEFINE h == FieldCosts(round)
            S == Fields
            Wrong == {n \in 0..Cardinality(S) : \E s \in SUBSET S : Cardinality(s) = n /\ Total(h, s) # 0}
<1>1. \A f \in S : h[f] = 0
  BY CostsType DEF FieldCosts
<1>2. IsFiniteSet(S) /\ Cardinality(S) \in Nat
  BY FieldsFinite, FS_CardinalityType
<1>. HIDE DEF h, S
<1>3. ASSUME Wrong # {} PROVE FALSE
  <2>1. Wrong \subseteq Nat
    BY <1>2
  <2>. HIDE DEF Wrong
  <2>2. PICK n \in Wrong : \A j \in Wrong : n <= j
    BY <1>3, <2>1, LeastNatural
  <2>3. PICK s \in SUBSET S : Cardinality(s) = n /\ Total(h, s) # 0
    BY <2>2 DEF Wrong
  <2>4. s # {}
    BY <2>3, TotalEmpty
  <2>. DEFINE x == Chosen(s)
              rest == s \ {x}
  <2>5. /\ rest \in SUBSET S /\ Cardinality(s) \in Nat /\ Cardinality(s) # 0
        /\ Cardinality(s) \in 0..Cardinality(S) /\ Cardinality(rest) = Cardinality(s) - 1
        /\ x \in s /\ x \in S
    BY <1>2, <2>3, <2>4, Smaller
  <2>6. IsFiniteSet(s) /\ \A y \in s : h[y] \in Nat /\ h[y] = 0
    BY <1>1, <1>2, <2>3, FS_Subset
  <2>7. Total(h, s) = h[x] + Total(h, rest) /\ Total(h, rest) \in Nat
    BY <2>5, <2>6, TotalSplits
  <2>8. Total(h, rest) # 0
    BY <2>3, <2>5, <2>6, <2>7
  <2>. HIDE DEF rest
  <2>9. Cardinality(rest) \in 0..Cardinality(S) /\ Cardinality(rest) < n
    BY <1>2, <2>3, <2>5
  <2>10. Cardinality(rest) \in Wrong
    BY <2>5, <2>8, <2>9 DEF Wrong
  <2>. QED
    BY <2>1, <2>2, <2>9, <2>10
<1>4. S \in SUBSET S /\ Cardinality(S) \in 0..Cardinality(S)
  BY <1>2
<1>5. Total(h, S) = 0
  BY <1>3, <1>4
<1>. QED
  BY <1>5 DEF Measured, RoundDeclares, h, S

\* The rounds below the last one, and the last.
LEMMA DeclaredSplits ==
    ASSUME NEW o \in Seq(DecodedRounds), Len(o) # 0
    PROVE  /\ Declared(o) = RoundDeclares(o[Len(o)]) + Total(RoundsDeclare(o), 1..(Len(o) - 1))
           /\ RoundDeclares(o[Len(o)]) \in Nat
           /\ Total(RoundsDeclare(o), 1..(Len(o) - 1)) \in Nat
           /\ IsFiniteSet(1..(Len(o) - 1))
           /\ \A r \in 1..(Len(o) - 1) : /\ RoundsDeclare(o)[r] = RoundDeclares(o[r])
                                         /\ RoundDeclares(o[r]) \in Nat
<1>. DEFINE n == Len(o)
            h == RoundsDeclare(o)
            S == 1..n
<1>1. n \in Nat \ {0} /\ DOMAIN o = S /\ \A r \in S : Measured(o[r])
  BY DecodedMeasured
<1>2. /\ Declared(o) = Total(h, S) /\ IsFiniteSet(S)
      /\ \A r \in S : h[r] = RoundDeclares(o[r]) /\ RoundDeclares(o[r]) \in Nat
  BY <1>1, DeclaredIs
<1>3. n \in S /\ S \ {n} = 1..(n - 1)
  BY <1>1
<1>. HIDE DEF n, h
<1>4. IsFiniteSet(1..(n - 1)) /\ \A r \in 1..(n - 1) : r \in S
  BY <1>2, <1>3, FS_Subset
<1>. HIDE DEF S
<1>5. Total(h, S) = h[n] + Total(h, S \ {n}) /\ Total(h, S \ {n}) \in Nat
  BY <1>2, <1>3, TotalSplits
<1>. QED
  BY <1>2, <1>3, <1>4, <1>5 DEF n, h

LEMMA DeclaredGrows ==
    ASSUME NEW o \in Seq(DecodedRounds), Len(o) # 0, NEW f \in Fields, NEW item,
           Len(o[Len(o)].items[f].data) = 0, NEW p, Alters(o, p, f, item)
    PROVE  Declared(p) = Declared(o) + Costs(f, Len(item.data))
<1>. DEFINE n == Len(o)
            S == 1..(n - 1)
<1>1. /\ p \in Seq(DecodedRounds) /\ Len(p) = n /\ Len(p) # 0
      /\ \A r \in S : p[r] = o[r]
      /\ \A g \in Fields : p[n].items[g] = IF g = f THEN item ELSE o[n].items[g]
  BY DEF Alters
<1>2. /\ n \in 1..n /\ Measured(o[n]) /\ Measured(p[n])
  <2>1. n \in Nat \ {0} /\ (\A r \in 1..n : Measured(o[r])) /\ (\A r \in 1..n : Measured(p[r]))
    BY <1>1, DecodedMeasured
  <2>. QED
    BY <2>1
<1>3. RoundDeclares(p[n]) = RoundDeclares(o[n]) + Costs(f, Len(item.data))
  <2>1. \A g \in Fields : g # f => p[n].items[g] = o[n].items[g]
    BY <1>1
  <2>2. p[n].items[f] = item
    BY <1>1
  <2>. HIDE DEF n
  <2>3. Len(o[n].items[f].data) = 0
    BY DEF n
  <2>. QED
    BY <1>2, <2>1, <2>2, <2>3, RoundDeclaresMore
<1>4. /\ Declared(o) = RoundDeclares(o[n]) + Total(RoundsDeclare(o), S)
      /\ Declared(p) = RoundDeclares(p[n]) + Total(RoundsDeclare(p), S)
      /\ RoundDeclares(o[n]) \in Nat /\ Total(RoundsDeclare(o), S) \in Nat /\ IsFiniteSet(S)
      /\ \A r \in S : /\ RoundsDeclare(o)[r] = RoundDeclares(o[r]) /\ RoundDeclares(o[r]) \in Nat
                      /\ RoundsDeclare(p)[r] = RoundDeclares(p[r])
  BY <1>1, DeclaredSplits
<1>5. Total(RoundsDeclare(p), S) = Total(RoundsDeclare(o), S)
  <2>1. \A r \in S : /\ RoundsDeclare(o)[r] \in Nat
                     /\ RoundsDeclare(o)[r] = RoundsDeclare(p)[r]
    BY <1>1, <1>4
  <2>. HIDE DEF S
  <2>. QED
    BY <1>4, <2>1, TotalSame
<1>6. Costs(f, Len(item.data)) \in Nat
  <2>1. Len(item.data) \in Nat
    BY <1>1, <1>2 DEF Measured
  <2>. QED
    BY <2>1, CostsType
<1>. HIDE DEF S, n
<1>. QED
  BY <1>3, <1>4, <1>5, <1>6

LEMMA DeclaredDeepens ==
    ASSUME NEW o \in Seq(DecodedRounds), Len(o) # 0,
           NEW p \in Seq(DecodedRounds), Len(p) = Len(o) + 1, \A r \in 1..Len(o) : p[r] = o[r],
           \A f \in Fields : Len(p[Len(o) + 1].items[f].data) = 0
    PROVE  Declared(p) = Declared(o)
<1>. DEFINE n == Len(o)
            S == 1..n
<1>1. n \in Nat \ {0} /\ DOMAIN o = S /\ \A r \in S : Measured(o[r])
  BY DecodedMeasured
<1>2. /\ Declared(o) = Total(RoundsDeclare(o), S) /\ IsFiniteSet(S)
      /\ \A r \in S : /\ RoundsDeclare(o)[r] = RoundDeclares(o[r])
                      /\ RoundDeclares(o[r]) \in Nat
  BY <1>1, DeclaredIs
<1>3. /\ Declared(p) = RoundDeclares(p[n + 1]) + Total(RoundsDeclare(p), S)
      /\ Total(RoundsDeclare(p), S) \in Nat
      /\ \A r \in S : RoundsDeclare(p)[r] = RoundDeclares(p[r])
  <2>1. Len(p) # 0 /\ Len(p) - 1 = n /\ Len(p) = n + 1
    BY <1>1
  <2>. QED
    BY <2>1, DeclaredSplits
<1>4. RoundDeclares(p[n + 1]) = 0
  BY NothingDeclared
<1>5. Total(RoundsDeclare(p), S) = Total(RoundsDeclare(o), S)
  <2>1. \A r \in S : /\ RoundsDeclare(o)[r] \in Nat
                     /\ RoundsDeclare(o)[r] = RoundsDeclare(p)[r]
    BY <1>2, <1>3
  <2>. HIDE DEF S
  <2>. QED
    BY <1>2, <2>1, TotalSame
<1>. HIDE DEF S, n
<1>. QED
  BY <1>2, <1>3, <1>4, <1>5

\* What is next is read once, and what follows a flag comes after it.
LEMMA HeadOnce ==
    ASSUME WireInv, status = "reading", todo # <<>>
    PROVE  /\ \A i \in 2..Len(todo) : todo[i] # todo[1]
           /\ todo[1] \in {"constantTerm", "batched"} => \A i \in 1..Len(todo) : todo[i] # "fine"
           /\ todo[1] = "descend" => Len(todo) = 1
           /\ todo[1] \in Fields => todo[1] \in FieldSet(Round.kind)
           /\ todo[1] = Field
<1>. DEFINE F == EncoderFields(Round.kind)
<1>1. /\ Len(F) \in Nat \ {0} /\ Round.kind \in ProofKinds
      /\ \A i \in 1..Len(F) : F[i] \in Listed /\ F[i] # "constantTerm"
      /\ \A i, j \in 1..Len(F) : F[i] = F[j] => i = j
      /\ \A i \in 1..Len(F) : F[i] = "descend" => i = Len(F)
      /\ \A i \in 1..Len(F) : F[i] = "fine" => \A j \in 1..Len(F) : F[j] # "batched"
  BY ReadingRound
<1>2. Len(todo) \in Nat \ {0} /\ Field = todo[1]
  BY TodoFacts DEF WireInv
<1>3. \A i \in 1..Len(F) : F[i] = "fine" => Round.kind = "Sumcheck"
  BY <1>1, FieldsOfKind
<1>4. \A i \in 1..Len(F) : F[i] \in FieldSet(Round.kind)
  BY DEF FieldSet
<1>5. PICK k \in 0..Len(F) : Between(k) \/ PairOpen(k) \/ PairHalf(k)
  BY DEF WireInv
<1>6. CASE Between(k)
  <2>1. Len(todo) = Len(F) - k /\ \A i \in 1..Len(todo) : todo[i] = F[k + i]
    BY <1>6 DEF Between
  <2>. HIDE DEF F
  <2>2. \A i \in 1..Len(todo) : k + i \in 1..Len(F)
    BY <1>1, <1>2, <2>1
  <2>3. 1 \in 1..Len(todo) /\ k + 1 \in 1..Len(F) /\ todo[1] = F[k + 1]
    BY <1>2, <2>1, <2>2
  <2>4. \A i \in 2..Len(todo) : i \in 1..Len(todo) /\ k + i # k + 1
    BY <1>2
  <2>5. \A i \in 2..Len(todo) : todo[i] # todo[1]
    <3>. TAKE i \in 2..Len(todo)
    <3>1. todo[i] = F[k + i] /\ k + i \in 1..Len(F) /\ k + i # k + 1
      BY <2>1, <2>2, <2>4
    <3>. QED
      BY <1>1, <2>3, <3>1
  <2>6. todo[1] \in {"constantTerm", "batched"} => \A i \in 1..Len(todo) : todo[i] # "fine"
    <3>1. \A i \in 1..Len(todo) : todo[i] = "fine" => todo[1] # "batched"
      BY <1>1, <2>1, <2>2, <2>3
    <3>. QED
      BY <1>1, <2>3, <3>1
  <2>7. todo[1] = "descend" => Len(todo) = 1
    <3>1. todo[1] = "descend" => k + 1 = Len(F)
      BY <1>1, <2>3
    <3>. QED
      BY <1>1, <2>1, <3>1
  <2>. QED
    BY <1>2, <1>4, <2>3, <2>5, <2>6, <2>7
<1>7. CASE PairOpen(k)
  <2>1. /\ k < Len(F) /\ F[k + 1] = "fine" /\ Len(todo) = Len(F) - k + 1
        /\ todo[1] = "constantTerm" /\ todo[2] = "batched"
        /\ \A i \in 3..Len(todo) : todo[i] = F[k + i - 1]
    BY <1>7 DEF PairOpen
  <2>2. k + 1 \in 1..Len(F)
    BY <1>1, <2>1
  <2>3. \A i \in 3..Len(todo) : k + i - 1 \in 1..Len(F) /\ k + i - 1 # k + 1
    BY <1>1, <2>1
  <2>. HIDE DEF F
  <2>4. \A i \in 3..Len(todo) : todo[i] # "constantTerm" /\ todo[i] # "fine"
    BY <1>1, <2>1, <2>2, <2>3
  <2>5. \A i \in 1..Len(todo) : i = 1 \/ i = 2 \/ i \in 3..Len(todo)
    BY <1>2
  <2>6. \A i \in 2..Len(todo) : i = 2 \/ i \in 3..Len(todo)
    BY <1>2
  <2>7. \A i \in 2..Len(todo) : todo[i] # todo[1]
    BY <2>1, <2>4, <2>6
  <2>8. \A i \in 1..Len(todo) : todo[i] # "fine"
    BY <2>1, <2>4, <2>5
  <2>9. Round.kind = "Sumcheck"
    BY <1>3, <2>1, <2>2
  <2>10. todo[1] \in FieldSet(Round.kind)
    BY <2>1, <2>9 DEF FieldSet
  <2>. QED
    BY <1>2, <2>1, <2>7, <2>8, <2>10
<1>8. CASE PairHalf(k)
  <2>1. /\ k < Len(F) /\ F[k + 1] = "fine" /\ Len(todo) = Len(F) - k
        /\ todo[1] = "batched" /\ \A i \in 2..Len(todo) : todo[i] = F[k + i]
    BY <1>8 DEF PairHalf
  <2>2. k + 1 \in 1..Len(F)
    BY <1>1, <2>1
  <2>3. \A i \in 2..Len(todo) : k + i \in 1..Len(F) /\ k + i # k + 1
    BY <1>1, <2>1
  <2>. HIDE DEF F
  <2>4. \A i \in 2..Len(todo) : todo[i] # "batched" /\ todo[i] # "fine"
    BY <1>1, <2>1, <2>2, <2>3
  <2>5. \A i \in 1..Len(todo) : i = 1 \/ i \in 2..Len(todo)
    BY <1>2
  <2>6. \A i \in 1..Len(todo) : todo[i] # "fine"
    BY <2>1, <2>4, <2>5
  <2>7. Round.kind = "Sumcheck"
    BY <1>3, <2>1, <2>2
  <2>8. todo[1] \in FieldSet(Round.kind)
    BY <2>1, <2>7 DEF FieldSet
  <2>. QED
    BY <1>2, <2>1, <2>4, <2>6, <2>8
<1>. QED
  BY <1>5, <1>6, <1>7, <1>8

\* A step that reads a field: it is paid for and stored, or refused.
Stores(w) ==
    /\ Accepts(w)
    /\ left' = left - Cost(w)
    /\ Field \in SingleRings /\ w.present => Len(w.slice.data) = 1

LEMMA ReadsField ==
    ASSUME WireInv,
           ReadPolys \/ ReadRing \/ ReadSlice \/ ReadMatrix \/ ReadNextCommitment
    PROVE  /\ todo # <<>> /\ status = "reading" /\ Field \in Fields
           /\ UNCHANGED <<chain, source>>
           /\ \E a \in Arrivals(Field) : /\ Arrival(Round.kind, Field, a.written)
                                         /\ Stores(a.written) \/ status' = "malformed"
<1>1. SenderProof(source) /\ Len(out) \in Nat \ {0}
  BY ReadingRound DEF WireInv, WireType
<1>2. ASSUME Field \in Fields
      PROVE  \A a \in Arrivals(Field) :
               /\ Arrival(Round.kind, Field, a.written)
               /\ Field = "polys" => SliceAdmitted(Field, a.written.slice)
               /\ Field # "polys" =>
                    \A i \in DOMAIN a.written.polys : PolynomialAdmitted(a.written.polys[i])
  BY <1>1, <1>2, ArrivalsType, ArrivalAdmitted
<1>3. CASE ReadPolys
  <2>1. PICK a \in Arrivals(Field) :
          Take(a, \A i \in DOMAIN a.written.polys : PolynomialAdmitted(a.written.polys[i]))
    BY <1>3 DEF ReadPolys
  <2>2. todo # <<>> /\ status = "reading" /\ Field = "polys" /\ Field \in Fields
    BY <1>3 DEF ReadPolys, Reading, Fields
  <2>3. Stores(a.written) \/ status' = "malformed"
    BY <1>2, <2>1, <2>2 DEF Take, Accepts, Stores, SingleRings
  <2>. QED
    BY <1>2, <2>1, <2>2, <2>3 DEF Take
<1>4. CASE ReadRing
  <2>1. PICK a \in Arrivals(Field) :
          Take(a, /\ SliceAdmitted(Field, a.written.slice)
                  /\ a.written.present => Len(a.written.slice.data) = 1)
    BY <1>4 DEF ReadRing
  <2>2. todo # <<>> /\ status = "reading" /\ Field # "polys" /\ Field \in Fields
    BY <1>4 DEF ReadRing, Reading, Fields, SingleRings
  <2>3. Stores(a.written) \/ status' = "malformed"
    BY <1>2, <2>1, <2>2 DEF Take, Accepts, Stores
  <2>. QED
    BY <1>2, <2>1, <2>2, <2>3 DEF Take
<1>5. CASE ReadSlice
  <2>1. PICK a \in Arrivals(Field) : Take(a, SliceAdmitted(Field, a.written.slice))
    BY <1>5 DEF ReadSlice
  <2>2. todo # <<>> /\ status = "reading" /\ Field # "polys" /\ Field \in Fields
        /\ Field \notin SingleRings
    BY <1>5 DEF ReadSlice, Reading, Fields, Slices, SingleRings
  <2>3. Stores(a.written) \/ status' = "malformed"
    BY <1>2, <2>1, <2>2 DEF Take, Accepts, Stores
  <2>. QED
    BY <1>2, <2>1, <2>2, <2>3 DEF Take
<1>6. CASE ReadMatrix
  <2>1. PICK a \in Arrivals(Field) :
          Take(a, /\ SliceAdmitted(Field, a.written.slice)
                  /\ MatrixAdmitted(a.written.dims, a.written.slice.data))
    BY <1>6 DEF ReadMatrix
  <2>2. todo # <<>> /\ status = "reading" /\ Field # "polys" /\ Field \in Fields
        /\ Field \notin SingleRings
    BY <1>6 DEF ReadMatrix, Reading, Fields, Verticals, Horizontals, SingleRings
  <2>3. Stores(a.written) \/ status' = "malformed"
    BY <1>2, <2>1, <2>2 DEF Take, Accepts, Stores
  <2>. QED
    BY <1>2, <2>1, <2>2, <2>3 DEF Take
<1>7. CASE ReadNextCommitment
  <2>1. PICK a \in Arrivals(Field) :
          Take(a, /\ SliceAdmitted(Field, a.written.slice)
                  /\ a.written.dims # <<>>
                       => MatrixAdmitted(a.written.dims, a.written.slice.data))
    BY <1>7 DEF ReadNextCommitment
  <2>2. todo # <<>> /\ status = "reading" /\ Field # "polys" /\ Field \in Fields
        /\ Field \notin SingleRings
    BY <1>7 DEF ReadNextCommitment, Reading, Fields, SingleRings
  <2>3. Stores(a.written) \/ status' = "malformed"
    BY <1>2, <2>1, <2>2 DEF Take, Accepts, Stores
  <2>. QED
    BY <1>2, <2>1, <2>2, <2>3 DEF Take
<1>. QED
  BY <1>3, <1>4, <1>5, <1>6, <1>7

\* What is stored costs what was paid.
LEMMA DecodedCosts ==
    ASSUME NEW kind, NEW f, NEW w, Arrival(kind, f, w)
    PROVE  Costs(f, Len(Decoded(f, w).data)) = Cost(w)
<1>1. /\ w.slice.data \in Seq(Elements) /\ w.polys \in Seq(WirePolynomials)
      /\ IF f = "polys" THEN w.slice.data = <<>> ELSE w.polys = <<>>
  BY DEF Arrival, WireFields, WireSlices, WrittenSlice
<1>2. Len(w.slice.data) \in Nat /\ Len(w.polys) \in Nat /\ DOMAIN w.polys = 1..Len(w.polys)
  BY <1>1, LenProperties
<1>3. Rings(0) = 0 /\ Polys(0) = 0 /\ \A n \in Nat : Rings(n) \in Nat /\ Polys(n) \in Nat
  BY CostsType, WireFormatAssumption DEF Rings, Polys
<1>4. CASE f = "polys"
  <2>1. Len(Decoded(f, w).data) = Len(w.polys)
    BY <1>2, <1>4 DEF Decoded
  <2>2. Len(w.slice.data) = 0
    BY <1>1, <1>4
  <2>3. Cost(w) = Rings(Len(w.slice.data)) + Polys(Len(w.polys))
    BY DEF Cost
  <2>4. Costs(f, Len(Decoded(f, w).data)) = Polys(Len(w.polys))
    BY <1>4, <2>1 DEF Costs
  <2>5. Cost(w) = 0 + Polys(Len(w.polys)) /\ Polys(Len(w.polys)) \in Nat
    BY <1>2, <1>3, <2>2, <2>3
  <2>. QED
    BY <2>4, <2>5
<1>5. CASE f # "polys"
  <2>1. Decoded(f, w).data = w.slice.data /\ Len(w.polys) = 0
    BY <1>1, <1>5 DEF Decoded
  <2>2. Cost(w) = Rings(Len(w.slice.data)) + Polys(Len(w.polys))
    BY DEF Cost
  <2>3. Costs(f, Len(Decoded(f, w).data)) = Rings(Len(w.slice.data))
    BY <1>5, <2>1 DEF Costs
  <2>4. Cost(w) = Rings(Len(w.slice.data)) + 0 /\ Rings(Len(w.slice.data)) \in Nat
    BY <1>2, <1>3, <2>1, <2>2
  <2>. QED
    BY <2>3, <2>4
<1>. QED
  BY <1>4, <1>5

\* A field that has been stored is no longer pending, and nothing else changes.
LEMMA FieldStored ==
    ASSUME WireInv, SpentInv, AllowanceInv,
           ReadPolys \/ ReadRing \/ ReadSlice \/ ReadMatrix \/ ReadNextCommitment
    PROVE  SpentInv'
<1>. DEFINE n == Len(out)
<1>0. /\ todo # <<>> /\ status = "reading" /\ Field \in Fields /\ UNCHANGED <<chain, source>>
  BY ReadsField
<1>f. PICK f \in Fields : f = Field
  BY <1>0
<1>1. /\ todo # <<>> /\ status = "reading" /\ f \in Fields /\ UNCHANGED <<chain, source>>
  BY <1>0
<1>2. PICK a \in Arrivals(f) : /\ Arrival(Round.kind, f, a.written)
                               /\ Stores(a.written) \/ status' = "malformed"
  BY <1>f, ReadsField
<1>. DEFINE w == a.written
            item == Decoded(f, w)
<1>3. CASE status' = "malformed"
  BY <1>3 DEF SpentInv
<1>4. CASE Stores(w)
  <2>1. /\ out \in Seq(DecodedRounds) /\ n # 0 /\ n \in Nat /\ Round = out[n]
    BY ReadingRound DEF WireInv, WireType
  <2>2. item \in WireItems(f) /\ out' = [out EXCEPT ![n].items[f] = item]
    BY <1>f, <1>1, <1>2, <1>4, Reencoded DEF Stores, Accepts
  <2>3. Alters(out, out', f, item)
    <3>. HIDE DEF item, n
    <3>. QED
      BY <1>1, <2>1, <2>2, ItemRead DEF n
  <2>4. /\ Len(out') = n /\ \A r \in 1..(n - 1) : out'[r] = out[r]
        /\ out'[n].kind = out[n].kind
        /\ \A g \in Fields : out'[n].items[g] = IF g = f THEN item ELSE out[n].items[g]
    BY <2>3 DEF Alters
  <2>5. Round' = out'[n] /\ Round'.kind = Round.kind
    BY <2>1, <2>4 DEF Round
  <2>6. /\ Len(todo) \in Nat \ {0} /\ f = todo[1]
        /\ todo' = Tail(todo) /\ Len(todo') = Len(todo) - 1
        /\ \A i \in 1..(Len(todo) - 1) : todo'[i] = todo[i + 1]
    BY <1>f, <1>1, <1>4, TodoFacts DEF WireInv, Stores, Accepts
  <2>7. /\ \A i \in 2..Len(todo) : todo[i] # f
        /\ f \in {"constantTerm", "batched"} => \A i \in 1..Len(todo) : todo[i] # "fine"
        /\ f \in FieldSet(Round.kind)
    BY <1>f, <1>1, <2>6, HeadOnce
  <2>. HIDE DEF n, item, w
  <2>8. \A g : (\E i \in 1..Len(todo') : todo'[i] = g) <=> (\E i \in 2..Len(todo) : todo[i] = g)
    <3>. TAKE g
    <3>1. \A i \in 1..Len(todo') : i + 1 \in 2..Len(todo) /\ todo'[i] = todo[i + 1]
      BY <2>6
    <3>2. \A i \in 2..Len(todo) : i - 1 \in 1..Len(todo') /\ todo'[i - 1] = todo[i]
      BY <2>6
    <3>. QED
      BY <3>1, <3>2
  <2>9. ~Pending(f)' /\ Pending(f)
    <3>1. 1 \in 1..Len(todo) /\ \A i \in 2..Len(todo) : i \in 1..Len(todo)
      BY <2>6
    <3>2. Pending(f)
      BY <2>6, <3>1 DEF Pending
    <3>3. ~ \E i \in 1..Len(todo') : todo'[i] = f
      BY <2>7, <2>8
    <3>4. ASSUME f \in {"constantTerm", "batched"}
          PROVE  ~ \E i \in 1..Len(todo') : todo'[i] = "fine"
      BY <2>7, <2>8, <3>1, <3>4
    <3>5. Pending(f)' <=> \/ \E i \in 1..Len(todo') : todo'[i] = f
                         \/ /\ f \in {"constantTerm", "batched"}
                            /\ \E i \in 1..Len(todo') : todo'[i] = "fine"
      BY DEF Pending
    <3>. QED
      BY <3>2, <3>3, <3>4, <3>5
  <2>10. \A g \in Fields : g # f => (Pending(g)' <=> Pending(g))
    <3>1. \A i \in 1..Len(todo) : i = 1 \/ i \in 2..Len(todo)
      BY <2>6
    <3>2. \A i \in 2..Len(todo) : i \in 1..Len(todo)
      BY <2>6
    <3>3. f # "fine"
      BY <1>1 DEF Fields
    <3>. QED
      BY <2>6, <2>8, <3>1, <3>2, <3>3 DEF Pending
  <2>11. RoundSoFar /\ left + Declared(out) = Allowance.cells
         /\ \A r \in 1..(n - 1) : RoundWhole(out[r])
    BY <1>1 DEF SpentInv, n
  <2>12. \A g \in Fields : g # f => Round'.items[g] = Round.items[g]
    BY <2>1, <2>4, <2>5
  <2>13. Round'.items[f] = item
    BY <1>1, <2>4, <2>5
  <2>14. Mandatory(Round.kind, f) => Len(item.data) = 1
    <3>1. SUFFICES ASSUME Mandatory(Round.kind, f) PROVE Len(item.data) = 1
      OBVIOUS
    <3>2. f \in SingleRings /\ ~Optional(Round.kind, f) /\ f # "polys"
      BY <3>1 DEF Mandatory, SingleRings
    <3>3. w.present /\ Len(w.slice.data) = 1
      BY <1>f, <1>2, <1>4, <3>2 DEF Arrival, Stores, w
    <3>. QED
      BY <3>2, <3>3 DEF item, Decoded
  <2>15. RoundSoFar'
    <3>. SUFFICES ASSUME NEW g \in Fields
                  PROVE  /\ g \notin FieldSet(Round'.kind) \/ Pending(g)' => Round'.items[g] = AbsentItem
                         /\ Mandatory(Round'.kind, g) /\ ~Pending(g)' => Len(Round'.items[g].data) = 1
      BY DEF RoundSoFar, Mandatory
    <3>1. CASE g = f
      <4>1. g \in FieldSet(Round'.kind) /\ ~Pending(g)'
        BY <2>5, <2>7, <2>9, <3>1
      <4>2. Mandatory(Round'.kind, g) => Len(Round'.items[g].data) = 1
        BY <2>5, <2>13, <2>14, <3>1
      <4>. QED
        BY <4>1, <4>2
    <3>2. CASE g # f
      BY <2>5, <2>10, <2>11, <2>12, <3>2 DEF RoundSoFar
    <3>. QED
      BY <3>1, <3>2
  <2>16. Declared(out') = Declared(out) + Cost(w)
    <3>1. Len(out[n].items[f].data) = 0
      BY <1>1, <2>1, <2>9, <2>11, AbsentIsEmpty DEF RoundSoFar
    <3>2. Costs(f, Len(item.data)) = Cost(w)
      BY <1>2, DecodedCosts DEF item, w
    <3>. QED
      BY <1>1, <2>1, <2>3, <3>1, <3>2, DeclaredGrows DEF n
  <2>17. Declared(out) \in Nat /\ Cost(w) \in Nat /\ left \in Nat
    <3>1. Declared(out) \in Nat
      <4>1. /\ Declared(out) = RoundDeclares(out[n]) + Total(RoundsDeclare(out), 1..(n - 1))
            /\ RoundDeclares(out[n]) \in Nat /\ Total(RoundsDeclare(out), 1..(n - 1)) \in Nat
        BY <2>1, DeclaredSplits DEF n
      <4>. QED
        BY <4>1
    <3>2. Cost(w) \in Nat
      BY <1>2, CostType DEF Arrival, w
    <3>. QED
      BY <3>1, <3>2 DEF AllowanceInv
  <2>18. left' = left - Cost(w) /\ status' = status
    BY <1>4 DEF Stores, Accepts, w
  <2>19. Allowance' = Allowance
    BY <1>1 DEF Allowance
  <2>20. left' + Declared(out') = left + Declared(out)
    BY <2>16, <2>17, <2>18
  <2>21. \A r \in 1..(Len(out') - 1) : RoundWhole(out'[r])
    BY <2>4, <2>11
  <2>. QED
    BY <1>1, <2>11, <2>15, <2>18, <2>19, <2>20, <2>21 DEF SpentInv, RoundWhole, Mandatory
<1>. QED
  BY <1>2, <1>3, <1>4

\* A step that changes no round: what is still to be read only shrinks, and not
\* by a field that must be there.
LEMMA RoundKept ==
    ASSUME SpentInv, status = "reading",
           UNCHANGED <<chain, source, out, left>>,
           \A g \in Fields : Pending(g)' => Pending(g),
           \A g \in Fields : Pending(g) /\ ~Pending(g)' => g \notin SingleRings,
           status' = "accepted" => todo' = <<>>
    PROVE  SpentInv'
<1>1. /\ \A r \in 1..(Len(out) - 1) : RoundWhole(out[r])
      /\ RoundSoFar /\ left + Declared(out) = Allowance.cells
  BY DEF SpentInv
<1>2. /\ Len(out') = Len(out) /\ Round' = Round /\ out' = out /\ left' = left
      /\ Allowance' = Allowance /\ Declared(out') = Declared(out)
  BY DEF Round, Allowance
<1>3. ASSUME NEW g \in Fields
      PROVE  /\ g \notin FieldSet(Round'.kind) \/ Pending(g)' => Round'.items[g] = AbsentItem
             /\ Mandatory(Round'.kind, g) /\ ~Pending(g)' => Len(Round'.items[g].data) = 1
  <2>1. g \notin FieldSet(Round'.kind) \/ Pending(g)' => Round'.items[g] = AbsentItem
    BY <1>1, <1>2, <1>3 DEF RoundSoFar
  <2>2. Mandatory(Round'.kind, g) /\ ~Pending(g)' => Len(Round'.items[g].data) = 1
    <3>1. SUFFICES ASSUME Mandatory(Round'.kind, g), ~Pending(g)'
                   PROVE  Len(Round'.items[g].data) = 1
      OBVIOUS
    <3>2. g \in SingleRings
      BY <3>1 DEF Mandatory
    <3>3. ~Pending(g)
      BY <1>3, <3>1, <3>2
    <3>. QED
      BY <1>1, <1>2, <1>3, <3>1, <3>3 DEF RoundSoFar
  <2>. QED
    BY <2>1, <2>2
<1>4. RoundSoFar'
  BY <1>3 DEF RoundSoFar, Mandatory
<1>5. \A r \in 1..(Len(out') - 1) : RoundWhole(out'[r])
  BY <1>1, <1>2
<1>6. left' + Declared(out') = Allowance'.cells
  BY <1>1, <1>2
<1>. QED
  BY <1>4, <1>5, <1>6 DEF SpentInv, RoundWhole, Mandatory

\* The flag of a fine projection leaves its two roots to be read, or passes them.
LEMMA FineSpends ==
    ASSUME WireInv, SpentInv, ReadFinePair
    PROVE  SpentInv'
<1>1. PICK present \in BOOLEAN :
        todo' = IF present THEN <<"constantTerm", "batched">> \o Tail(todo) ELSE Tail(todo)
  BY DEF ReadFinePair
<1>2. /\ todo # <<>> /\ status = "reading" /\ Field = "fine" /\ WireType
      /\ UNCHANGED <<chain, source, out, left, status>>
  BY DEF ReadFinePair, Reading, WireInv
<1>3. /\ Len(todo) \in Nat \ {0} /\ Field = todo[1]
      /\ Tail(todo) \in Seq(Listed) /\ Len(Tail(todo)) = Len(todo) - 1
      /\ \A i \in 1..(Len(todo) - 1) : Tail(todo)[i] = todo[i + 1]
  BY <1>2, TodoFacts
<1>4. \A g \in Fields : g # "fine"
  BY DEF Fields
<1>5. \A g : (\E i \in 1..Len(Tail(todo)) : Tail(todo)[i] = g) => \E i \in 1..Len(todo) : todo[i] = g
  <2>. TAKE g
  <2>1. \A i \in 1..(Len(todo) - 1) : i + 1 \in 1..Len(todo)
    BY <1>3
  <2>. QED
    BY <1>3, <2>1
<1>6. \A g : g # "fine" /\ (\E i \in 1..Len(todo) : todo[i] = g)
               => \E i \in 1..Len(Tail(todo)) : Tail(todo)[i] = g
  <2>. TAKE g
  <2>1. \A i \in 1..Len(todo) : i = 1 \/ (i - 1 \in 1..(Len(todo) - 1) /\ Tail(todo)[i - 1] = todo[i])
    BY <1>3
  <2>. QED
    BY <1>2, <1>3, <2>1
<1>7. \E i \in 1..Len(todo) : todo[i] = "fine"
  BY <1>2, <1>3
<1>8. \A g \in {"constantTerm", "batched"} : Pending(g) /\ g \notin SingleRings
  BY <1>7 DEF Pending, SingleRings
<1>9. \A g \in Fields : g \notin {"constantTerm", "batched"} =>
        (Pending(g) <=> \E i \in 1..Len(todo) : todo[i] = g)
  BY DEF Pending
<1>10. \A g \in Fields : g \notin {"constantTerm", "batched"} =>
         (Pending(g)' <=> \E i \in 1..Len(todo') : todo'[i] = g)
  BY DEF Pending
<1>11. \A g \in Fields : g \notin {"constantTerm", "batched"} =>
         ((\E i \in 1..Len(todo') : todo'[i] = g) <=> \E i \in 1..Len(Tail(todo)) : Tail(todo)[i] = g)
  <2>1. CASE ~present
    BY <1>1, <2>1
  <2>2. CASE present
    <3>1. "constantTerm" \in Listed /\ "batched" \in Listed
      BY DEF Listed, Fields
    <3>. DEFINE rest == Tail(todo)
                n == Len(todo) - 1
    <3>2. todo' = <<"constantTerm", "batched">> \o rest
      BY <1>1, <2>2
    <3>3. rest \in Seq(Listed) /\ Len(rest) = n /\ n \in Nat
      BY <1>3
    <3>. HIDE DEF rest, n
    <3>4. /\ Len(todo') = n + 2 /\ todo'[1] = "constantTerm" /\ todo'[2] = "batched"
          /\ \A i \in 3..(n + 2) : todo'[i] = rest[i - 2]
      BY <3>1, <3>2, <3>3, PairBefore
    <3>5. \A i \in 1..Len(todo') : i = 1 \/ i = 2 \/ (i - 2 \in 1..n /\ todo'[i] = rest[i - 2])
      BY <3>3, <3>4
    <3>6. \A i \in 1..n : i + 2 \in 1..Len(todo') /\ todo'[i + 2] = rest[i]
      <4>1. \A i \in 1..n : i + 2 \in 3..(n + 2) /\ i + 2 - 2 = i
        BY <3>3
      <4>. QED
        BY <3>3, <3>4, <4>1
    <3>7. \A g : g \notin {"constantTerm", "batched"} =>
            ((\E i \in 1..Len(todo') : todo'[i] = g) <=> \E i \in 1..n : rest[i] = g)
      BY <3>4, <3>5, <3>6
    <3>. QED
      BY <3>3, <3>7 DEF rest
  <2>. QED
    BY <2>1, <2>2
<1>12. \A g \in Fields : g \notin {"constantTerm", "batched"} => (Pending(g)' <=> Pending(g))
  BY <1>4, <1>5, <1>6, <1>9, <1>10, <1>11
<1>13. \A g \in Fields : Pending(g)' => Pending(g)
  BY <1>8, <1>12
<1>14. \A g \in Fields : Pending(g) /\ ~Pending(g)' => g \notin SingleRings
  BY <1>8, <1>12
<1>15. status' # "accepted"
  BY <1>2
<1>. QED
  BY <1>2, <1>13, <1>14, <1>15, RoundKept

\* A round starts with all its fields still to be read, and nothing in it.
LEMMA AllPending ==
    ASSUME NEW kind \in ProofKinds
    PROVE  \A g \in FieldSet(kind) :
             \/ \E i \in 1..Len(DecoderFields(kind)) : DecoderFields(kind)[i] = g
             \/ /\ g \in {"constantTerm", "batched"}
                /\ \E i \in 1..Len(DecoderFields(kind)) : DecoderFields(kind)[i] = "fine"
<1>1. DecoderFields(kind) = EncoderFields(kind)
  BY FieldsOfKind
<1>2. CASE kind = "Sumcheck"
  <2>. DEFINE F == EncoderFields(kind)
  <2>1. F = <<"polys", "z0", "z1", "norm", "mostInnerNorm", "projectionNorm", "opening",
              "coarse", "fine", "constantTermClaims", "next", "descend">>
    BY <1>2 DEF EncoderFields
  <2>2. 9 \in 1..Len(F) /\ F[9] = "fine"
    BY <2>1
  <2>. QED
    BY <1>1, <2>2 DEF FieldSet
<1>3. CASE kind # "Sumcheck"
  BY <1>1, <1>3 DEF FieldSet
<1>. QED
  BY <1>2, <1>3

\* An item of a new round is absent.
LEMMA NothingInIt ==
    ASSUME NEW f \in Fields
    PROVE  NoItems[f] = AbsentItem
BY DEF NoItems

LEMMA NewRoundSoFar ==
    ASSUME NEW kind \in ProofKinds, Round = [kind |-> kind, items |-> NoItems],
           todo = DecoderFields(kind)
    PROVE  RoundSoFar
<1>1. Round.kind = kind /\ \A f \in Fields : Round.items[f] = AbsentItem
  BY NothingInIt
<1>2. \A g \in FieldSet(kind) : Pending(g)
  BY AllPending DEF Pending
<1>. QED
  BY <1>1, <1>2 DEF RoundSoFar, Mandatory

\* The tag of the round below: the round above has been read whole.
LEMMA NextSpends ==
    ASSUME WireInv, SpentInv, ReadNext
    PROVE  SpentInv'
<1>. DEFINE n == Len(out)
<1>1. /\ n \in Nat \ {0} /\ n # 0 /\ out \in Seq(DecodedRounds) /\ Round = out[n]
  BY ReadingRound
<1>2. PICK present \in BOOLEAN, kind \in Kinds \cup {"none"} :
        IF ~present
        THEN todo' = <<>> /\ UNCHANGED <<out, roundsLeft, status>>
        ELSE IF RoundRefused \/ kind = "none"
        THEN status' = "malformed" /\ UNCHANGED <<out, roundsLeft, todo>>
        ELSE /\ roundsLeft' = roundsLeft - 1
             /\ out' = Append(out, [kind |-> kind, items |-> NoItems])
             /\ todo' = DecoderFields(kind)
             /\ UNCHANGED status
  BY DEF ReadNext
<1>3. /\ todo # <<>> /\ status = "reading" /\ Field = "descend" /\ WireType
      /\ UNCHANGED <<chain, source, left>>
  BY DEF ReadNext, Reading, WireInv
<1>4. Field = todo[1] /\ Len(todo) = 1
  <2>1. Field = todo[1]
    BY <1>3, TodoFacts
  <2>. QED
    BY <1>3, <2>1, HeadOnce
<1>5. \A g \in Fields : ~Pending(g)
  <2>1. \A i \in 1..Len(todo) : todo[i] = "descend"
    BY <1>3, <1>4
  <2>2. \A g \in Fields : g # "descend"
    BY DEF Fields
  <2>. QED
    BY <2>1, <2>2 DEF Pending
<1>6. /\ \A r \in 1..(n - 1) : RoundWhole(out[r])
      /\ RoundSoFar /\ left + Declared(out) = Allowance.cells
  BY <1>3 DEF SpentInv, n
<1>7. CASE ~present
  <2>1. todo' = <<>> /\ UNCHANGED <<out, status>>
    BY <1>2, <1>7
  <2>2. \A g \in Fields : ~Pending(g)'
    BY <2>1 DEF Pending
  <2>. QED
    BY <1>3, <1>5, <2>1, <2>2, RoundKept
<1>8. CASE status' = "malformed"
  BY <1>8 DEF SpentInv
<1>9. CASE /\ kind \in Kinds /\ out' = Append(out, [kind |-> kind, items |-> NoItems])
           /\ todo' = DecoderFields(kind) /\ UNCHANGED status
  <2>. DEFINE round == [kind |-> kind, items |-> NoItems]
  <2>1. kind \in ProofKinds /\ out' = Append(out, round) /\ todo' = DecoderFields(kind)
        /\ status' = status
    BY <1>9 DEF ProofKinds
  <2>2. round \in DecodedRounds
    BY <2>1, NewRound
  <2>3. \A f \in Fields : round.items[f] = AbsentItem
    BY NothingInIt
  <2>. HIDE DEF round, n, DecodedRounds
  <2>4. /\ out' \in Seq(DecodedRounds) /\ Len(out') = Len(out) + 1
        /\ \A r \in 1..Len(out) : out'[r] = out[r]
        /\ out'[Len(out) + 1] = round
    BY <1>1, <2>1, <2>2, AppendProperties
  <2>5. Round' = round
    BY <2>4 DEF Round
  <2>6. RoundSoFar'
    <3>1. \A g \in FieldSet(kind) : Pending(g)'
      BY <2>1, AllPending DEF Pending
    <3>2. Round'.kind = kind
      BY <2>5 DEF round
    <3>. QED
      BY <2>3, <2>5, <3>1, <3>2 DEF RoundSoFar, Mandatory
  <2>7. RoundWhole(out[n])
    BY <1>1, <1>5, <1>6 DEF RoundSoFar, RoundWhole
  <2>8. \A r \in 1..(Len(out') - 1) : RoundWhole(out'[r])
    <3>1. \A r \in 1..n : r = n \/ r \in 1..(n - 1)
      BY <1>1
    <3>2. Len(out') - 1 = n
      BY <1>1, <2>4 DEF n
    <3>3. \A r \in 1..n : RoundWhole(out[r])
      BY <1>6, <2>7, <3>1
    <3>. QED
      BY <2>4, <3>2, <3>3 DEF n
  <2>9. Declared(out') = Declared(out)
    <3>1. Len(out) # 0
      BY <1>1 DEF n
    <3>2. \A f \in Fields : Len(out'[Len(out) + 1].items[f].data) = 0
      BY <2>3, <2>4, AbsentIsEmpty
    <3>. QED
      BY <1>1, <2>4, <3>1, <3>2, DeclaredDeepens
  <2>10. left' = left /\ Allowance' = Allowance
    BY <1>3 DEF Allowance
  <2>11. left' + Declared(out') = Allowance'.cells
    BY <1>6, <2>9, <2>10
  <2>12. status' # "accepted"
    BY <1>3, <2>1
  <2>. QED
    BY <2>6, <2>8, <2>11, <2>12 DEF SpentInv, RoundWhole, Mandatory
<1>. QED
  BY <1>2, <1>7, <1>8, <1>9

\* The stream ends: nothing is left to be read.
LEMMA FinishSpends ==
    ASSUME WireInv, SpentInv, Finish
    PROVE  SpentInv'
<1>1. /\ status = "reading" /\ todo = <<>> /\ todo' = todo
      /\ UNCHANGED <<chain, source, out, left>>
  BY DEF Finish
<1>2. \A g \in Fields : Pending(g)' <=> Pending(g)
  BY <1>1 DEF Pending
<1>. QED
  BY <1>1, <1>2, RoundKept

LEMMA SpentKept ==
    ASSUME WireInv, AllowanceInv, SpentInv, [WireNext]_wireVars
    PROVE  SpentInv'
<1>1. CASE UNCHANGED wireVars
  <2>1. UNCHANGED <<chain, source, todo, out, left, status>>
    BY <1>1 DEF wireVars
  <2>2. Round' = Round /\ Allowance' = Allowance /\ Declared(out') = Declared(out)
    BY <2>1 DEF Round, Allowance
  <2>3. \A g \in Fields : Pending(g)' <=> Pending(g)
    BY <2>1 DEF Pending
  <2>4. RoundSoFar => RoundSoFar'
    BY <2>1, <2>2, <2>3 DEF RoundSoFar, Mandatory
  <2>5. \A r : RoundWhole(out[r]) => RoundWhole(out'[r])
    BY <2>1
  <2>. QED
    BY <2>1, <2>2, <2>4, <2>5 DEF SpentInv, RoundWhole, Mandatory
<1>2. CASE Decided
  BY <1>1, <1>2 DEF Decided
<1>3. CASE ReadPolys \/ ReadRing \/ ReadSlice \/ ReadMatrix \/ ReadNextCommitment
  BY <1>3, FieldStored
<1>4. CASE ReadFinePair
  BY <1>4, FineSpends
<1>5. CASE ReadNext
  BY <1>5, NextSpends
<1>6. CASE Finish
  BY <1>6, FinishSpends
<1>. QED
  BY <1>1, <1>2, <1>3, <1>4, <1>5, <1>6 DEF WireNext

LEMMA SpentFirst ==
    ASSUME WireInit
    PROVE  SpentInv /\ AllowanceInv
<1>1. chain \in Chains /\ SenderProof(source)
  BY SourcesType DEF WireInit
<1>. DEFINE kind == source[1].kind
            round == [kind |-> kind, items |-> NoItems]
<1>2. kind \in ProofKinds
  BY <1>1 DEF SenderProof
<1>3. /\ out = <<round>> /\ todo = DecoderFields(kind) /\ status = "reading"
      /\ left = Allowance.cells /\ roundsLeft = Allowance.rounds - 1 /\ allocated = 0
  BY DEF WireInit
<1>4. round \in DecodedRounds /\ \A f \in Fields : round.items[f] = AbsentItem
  BY <1>2, NewRound, NothingInIt
<1>5. Allowance.cells \in Nat /\ Allowance.rounds \in Nat \ {0}
  BY <1>1, AllowanceType
<1>6. RoundSoFar
  <2>1. Round = [kind |-> kind, items |-> NoItems]
    BY <1>3 DEF Round
  <2>. QED
    BY <1>2, <1>3, <2>1, NewRoundSoFar
<1>. HIDE DEF round, DecodedRounds, kind
<1>7. out \in Seq(DecodedRounds) /\ Len(out) = 1 /\ out[1] = round
  BY <1>3, <1>4
<1>8. Declared(out) = 0
  <2>1. \A f \in Fields : Len(round.items[f].data) = 0
    BY <1>4, AbsentIsEmpty
  <2>2. RoundDeclares(round) = 0
    BY <2>1, NothingDeclared
  <2>3. Declared(out) = RoundDeclares(out[1]) + Total(RoundsDeclare(out), 1..(1 - 1))
    BY <1>7, DeclaredSplits
  <2>4. Total(RoundsDeclare(out), 1..(1 - 1)) = 0
    <3>1. 1..(1 - 1) = {}
      OBVIOUS
    <3>. QED
      BY <3>1, TotalEmpty
  <2>. QED
    BY <1>7, <2>2, <2>3, <2>4
<1>9. left + Declared(out) = Allowance.cells
  BY <1>3, <1>5, <1>8
<1>10. \A r \in 1..(Len(out) - 1) : RoundWhole(out[r])
  BY <1>7
<1>11. SpentInv
  BY <1>3, <1>6, <1>9, <1>10 DEF SpentInv
<1>12. AllowanceInv
  BY <1>1, <1>3, <1>5, <1>7 DEF AllowanceInv, AllowanceHolds
<1>. QED
  BY <1>11, <1>12

-----------------------------------------------------------------------------
(***************************************************************************)
(* What the rounds of a chain declare where they pass their shape checks.  *)
(***************************************************************************)
\* A set one larger.
LEMMA TotalOneMore ==
    ASSUME NEW T, IsFiniteSet(T), NEW x, x \notin T, NEW h, \A y \in T : h[y] \in Nat, h[x] \in Nat
    PROVE  IsFiniteSet(T \cup {x}) /\ Total(h, T \cup {x}) = Total(h, T) + h[x]
<1>. DEFINE S == T \cup {x}
<1>1. IsFiniteSet(S) /\ \A y \in S : h[y] \in Nat
  BY FS_AddElement
<1>2. x \in S /\ S \ {x} = T
  OBVIOUS
<1>. HIDE DEF S
<1>3. Total(h, S) = h[x] + Total(h, S \ {x}) /\ Total(h, S \ {x}) \in Nat
  BY <1>1, <1>2, TotalSplits
<1>4. h[x] \in Nat
  OBVIOUS
<1>. QED
  BY <1>1, <1>2, <1>3, <1>4 DEF S

\* A number for each field, summed over the fields.
FieldsTotal(h) ==
    ((((((h["polys"] + h["z0"]) + (h["z1"] + h["norm"]))
        + (h["mostInnerNorm"] + h["projectionNorm"])) + (h["opening"] + h["coarse"]))
      + (h["constantTerm"] + h["batched"])) + (h["constantTermClaims"] + h["next"]))
    + (h["image"] + h["folded"])

LEMMA FieldsSum ==
    ASSUME NEW h, \A f \in Fields : h[f] \in Nat
    PROVE  Total(h, Fields) = FieldsTotal(h)
<1>. DEFINE S0 == {}
            S1 == S0 \cup {"polys"}
            S2 == S1 \cup {"z0"}
            S3 == S2 \cup {"z1"}
            S4 == S3 \cup {"norm"}
            S5 == S4 \cup {"mostInnerNorm"}
            S6 == S5 \cup {"projectionNorm"}
            S7 == S6 \cup {"opening"}
            S8 == S7 \cup {"coarse"}
            S9 == S8 \cup {"constantTerm"}
            S10 == S9 \cup {"batched"}
            S11 == S10 \cup {"constantTermClaims"}
            S12 == S11 \cup {"next"}
            S13 == S12 \cup {"image"}
            S14 == S13 \cup {"folded"}
<1>0. IsFiniteSet(S0) /\ Total(h, S0) = 0
  BY FS_EmptySet, TotalEmpty
<1>1. IsFiniteSet(S1) /\ Total(h, S1) = Total(h, S0) + h["polys"]
  <2>1. /\ S1 = S0 \cup {"polys"} /\ "polys" \notin S0
        /\ h["polys"] \in Nat /\ \A y \in S0 : h[y] \in Nat
    BY DEF Fields
  <2>. HIDE DEF S0, S1
  <2>. QED
    BY <1>0, <2>1, TotalOneMore
<1>2. IsFiniteSet(S2) /\ Total(h, S2) = Total(h, S1) + h["z0"]
  <2>1. /\ S2 = S1 \cup {"z0"} /\ "z0" \notin S1
        /\ h["z0"] \in Nat /\ \A y \in S1 : h[y] \in Nat
    BY DEF Fields
  <2>. HIDE DEF S1, S2
  <2>. QED
    BY <1>1, <2>1, TotalOneMore
<1>3. IsFiniteSet(S3) /\ Total(h, S3) = Total(h, S2) + h["z1"]
  <2>1. /\ S3 = S2 \cup {"z1"} /\ "z1" \notin S2
        /\ h["z1"] \in Nat /\ \A y \in S2 : h[y] \in Nat
    BY DEF Fields
  <2>. HIDE DEF S2, S3
  <2>. QED
    BY <1>2, <2>1, TotalOneMore
<1>4. IsFiniteSet(S4) /\ Total(h, S4) = Total(h, S3) + h["norm"]
  <2>1. /\ S4 = S3 \cup {"norm"} /\ "norm" \notin S3
        /\ h["norm"] \in Nat /\ \A y \in S3 : h[y] \in Nat
    BY DEF Fields
  <2>. HIDE DEF S3, S4
  <2>. QED
    BY <1>3, <2>1, TotalOneMore
<1>5. IsFiniteSet(S5) /\ Total(h, S5) = Total(h, S4) + h["mostInnerNorm"]
  <2>1. /\ S5 = S4 \cup {"mostInnerNorm"} /\ "mostInnerNorm" \notin S4
        /\ h["mostInnerNorm"] \in Nat /\ \A y \in S4 : h[y] \in Nat
    BY DEF Fields
  <2>. HIDE DEF S4, S5
  <2>. QED
    BY <1>4, <2>1, TotalOneMore
<1>6. IsFiniteSet(S6) /\ Total(h, S6) = Total(h, S5) + h["projectionNorm"]
  <2>1. /\ S6 = S5 \cup {"projectionNorm"} /\ "projectionNorm" \notin S5
        /\ h["projectionNorm"] \in Nat /\ \A y \in S5 : h[y] \in Nat
    BY DEF Fields
  <2>. HIDE DEF S5, S6
  <2>. QED
    BY <1>5, <2>1, TotalOneMore
<1>7. IsFiniteSet(S7) /\ Total(h, S7) = Total(h, S6) + h["opening"]
  <2>1. /\ S7 = S6 \cup {"opening"} /\ "opening" \notin S6
        /\ h["opening"] \in Nat /\ \A y \in S6 : h[y] \in Nat
    BY DEF Fields
  <2>. HIDE DEF S6, S7
  <2>. QED
    BY <1>6, <2>1, TotalOneMore
<1>8. IsFiniteSet(S8) /\ Total(h, S8) = Total(h, S7) + h["coarse"]
  <2>1. /\ S8 = S7 \cup {"coarse"} /\ "coarse" \notin S7
        /\ h["coarse"] \in Nat /\ \A y \in S7 : h[y] \in Nat
    BY DEF Fields
  <2>. HIDE DEF S7, S8
  <2>. QED
    BY <1>7, <2>1, TotalOneMore
<1>9. IsFiniteSet(S9) /\ Total(h, S9) = Total(h, S8) + h["constantTerm"]
  <2>1. /\ S9 = S8 \cup {"constantTerm"} /\ "constantTerm" \notin S8
        /\ h["constantTerm"] \in Nat /\ \A y \in S8 : h[y] \in Nat
    BY DEF Fields
  <2>. HIDE DEF S8, S9
  <2>. QED
    BY <1>8, <2>1, TotalOneMore
<1>10. IsFiniteSet(S10) /\ Total(h, S10) = Total(h, S9) + h["batched"]
  <2>1. /\ S10 = S9 \cup {"batched"} /\ "batched" \notin S9
        /\ h["batched"] \in Nat /\ \A y \in S9 : h[y] \in Nat
    BY DEF Fields
  <2>. HIDE DEF S9, S10
  <2>. QED
    BY <1>9, <2>1, TotalOneMore
<1>11. IsFiniteSet(S11) /\ Total(h, S11) = Total(h, S10) + h["constantTermClaims"]
  <2>1. /\ S11 = S10 \cup {"constantTermClaims"} /\ "constantTermClaims" \notin S10
        /\ h["constantTermClaims"] \in Nat /\ \A y \in S10 : h[y] \in Nat
    BY DEF Fields
  <2>. HIDE DEF S10, S11
  <2>. QED
    BY <1>10, <2>1, TotalOneMore
<1>12. IsFiniteSet(S12) /\ Total(h, S12) = Total(h, S11) + h["next"]
  <2>1. /\ S12 = S11 \cup {"next"} /\ "next" \notin S11
        /\ h["next"] \in Nat /\ \A y \in S11 : h[y] \in Nat
    BY DEF Fields
  <2>. HIDE DEF S11, S12
  <2>. QED
    BY <1>11, <2>1, TotalOneMore
<1>13. IsFiniteSet(S13) /\ Total(h, S13) = Total(h, S12) + h["image"]
  <2>1. /\ S13 = S12 \cup {"image"} /\ "image" \notin S12
        /\ h["image"] \in Nat /\ \A y \in S12 : h[y] \in Nat
    BY DEF Fields
  <2>. HIDE DEF S12, S13
  <2>. QED
    BY <1>12, <2>1, TotalOneMore
<1>14. IsFiniteSet(S14) /\ Total(h, S14) = Total(h, S13) + h["folded"]
  <2>1. /\ S14 = S13 \cup {"folded"} /\ "folded" \notin S13
        /\ h["folded"] \in Nat /\ \A y \in S13 : h[y] \in Nat
    BY DEF Fields
  <2>. HIDE DEF S13, S14
  <2>. QED
    BY <1>13, <2>1, TotalOneMore
<1>15. S14 = Fields
  BY DEF Fields
<1>16. /\ h["polys"] \in Nat /\ h["z0"] \in Nat /\ h["z1"] \in Nat
       /\ h["norm"] \in Nat /\ h["mostInnerNorm"] \in Nat /\ h["projectionNorm"] \in Nat
       /\ h["opening"] \in Nat /\ h["coarse"] \in Nat /\ h["constantTerm"] \in Nat
       /\ h["batched"] \in Nat /\ h["constantTermClaims"] \in Nat /\ h["next"] \in Nat
       /\ h["image"] \in Nat /\ h["folded"] \in Nat
  BY DEF Fields
<1>. HIDE DEF S0, S1, S2, S3, S4, S5, S6, S7, S8, S9, S10, S11, S12, S13, S14
<1>. QED
  BY <1>0, <1>1, <1>2, <1>3, <1>4, <1>5, <1>6, <1>7, <1>8, <1>9, <1>10, <1>11, <1>12, <1>13,
     <1>14, <1>15, <1>16 DEF FieldsTotal

\* Lengths add as their costs do.
LEMMA RingsAdd ==
    ASSUME NEW m \in Nat, NEW n \in Nat
    PROVE  Rings(m + n) = Rings(m) + Rings(n)
<1>1. \A d \in Nat : (m + n) * d = m * d + n * d
  OBVIOUS
<1>. QED
  BY <1>1, WireFormatAssumption DEF Rings

\* What round r of a chain sends besides what its allowance is for.
NextAllowance(c, r) == IF r < Len(c) THEN CommitmentAllowance(c[r + 1]) ELSE 0

\* The lengths of a round's fields where it passes its shape check.
Fits(c, r, round) ==
    LET cfg == c[r]
        length(f) == Len(round.items[f].data)
        fine == cfg.projection = "Fine"
        next == IF r = Len(c) THEN 0
                ELSE IF c[r + 1].kind = "Sumcheck" THEN c[r + 1].rank["commitment"]
                ELSE NextPowerOfTwo(c[r + 1].rank["commitment"]) * Width(c[r + 1])
    IN /\ length("next") = next
       /\ cfg.kind = "Sumcheck" =>
            /\ length("polys") = cfg.vars
            /\ length("z0") = 1 /\ length("z1") = 1 /\ length("norm") = 1
            /\ length("mostInnerNorm") = 1
            /\ length("projectionNorm") = IF HasProjectionNorm(cfg) THEN 1 ELSE 0
            /\ length("opening") = cfg.rank["opening"]
            /\ length("coarse") = IF cfg.projection = "Coarse" THEN cfg.rank["coarse"] ELSE 0
            /\ length("constantTerm") = IF fine THEN cfg.rank["constantTerm"] ELSE 0
            /\ length("batched") = IF fine THEN cfg.rank["batched"] ELSE 0
            /\ length("constantTermClaims") = IF fine THEN NofBatches ELSE 0
            /\ length("image") = 0 /\ length("folded") = 0
       /\ cfg.kind # "Sumcheck" =>
            /\ length("opening") = 2 * Width(cfg)
            /\ length("image") = cfg.image * Width(cfg)
            /\ length("batched") = NofBatches * Width(cfg)
            /\ length("mostInnerNorm") = 0 /\ length("projectionNorm") = 0
            /\ length("coarse") = 0 /\ length("constantTerm") = 0
            /\ length("constantTermClaims") = 0
       /\ cfg.kind = "Intermediate" =>
            /\ length("polys") = cfg.vars
            /\ length("z0") = 1 /\ length("z1") = 1 /\ length("norm") = 1
            /\ length("folded") = 0
       /\ cfg.kind = "Simple" =>
            /\ length("polys") = 0 /\ length("z0") = 0 /\ length("z1") = 0 /\ length("norm") = 0
            /\ length("folded") = Height(cfg)

\* A round whose lengths fit declares its allowance, and the next commitment's.
LEMMA FitsDeclares ==
    ASSUME NEW c \in Chains, NEW r \in 1..Len(c), NEW round, Measured(round), Fits(c, r, round)
    PROVE  /\ RoundDeclares(round) = RoundAllowance(c[r]) + NextAllowance(c, r)
           /\ NextAllowance(c, r) \in Nat
<1>. DEFINE cfg == c[r]
            h == FieldCosts(round)
            length(f) == Len(round.items[f].data)
            w == Width(cfg)
            next == IF r = Len(c) THEN 0
                    ELSE IF c[r + 1].kind = "Sumcheck" THEN c[r + 1].rank["commitment"]
                    ELSE NextPowerOfTwo(c[r + 1].rank["commitment"]) * Width(c[r + 1])
<1>1. /\ cfg.kind \in {"Sumcheck", "Intermediate", "Simple"} /\ cfg.projection \in Projections
      /\ cfg.vars \in Nat /\ cfg.image \in Nat /\ w \in Nat /\ Height(cfg) \in Nat
      /\ cfg.rank["opening"] \in Nat /\ cfg.rank["coarse"] \in Nat
      /\ cfg.rank["constantTerm"] \in Nat /\ cfg.rank["batched"] \in Nat /\ NofBatches \in Nat
  BY ConfigType, NofBatchesAssumption DEF Roots, Kinds
<1>2. /\ RoundDeclares(round) = FieldsTotal(h)
      /\ h["polys"] = Polys(length("polys"))
      /\ \A f \in Fields : f # "polys" => h[f] = Rings(length(f))
      /\ \A f \in Fields : h[f] \in Nat
  <2>1. \A f \in Fields : h[f] \in Nat
    BY RoundDeclaresType
  <2>2. RoundDeclares(round) = FieldsTotal(h)
    <3>. HIDE DEF h
    <3>1. Total(h, Fields) = FieldsTotal(h)
      BY <2>1, FieldsSum
    <3>. QED
      BY <3>1 DEF RoundDeclares, h
  <2>3. "polys" \in Fields
    BY DEF Fields
  <2>. QED
    BY <2>1, <2>2, <2>3 DEF FieldCosts, Costs
<1>3. /\ h["z0"] = Rings(length("z0")) /\ h["z1"] = Rings(length("z1"))
      /\ h["norm"] = Rings(length("norm")) /\ h["mostInnerNorm"] = Rings(length("mostInnerNorm"))
      /\ h["projectionNorm"] = Rings(length("projectionNorm"))
      /\ h["opening"] = Rings(length("opening")) /\ h["coarse"] = Rings(length("coarse"))
      /\ h["constantTerm"] = Rings(length("constantTerm"))
      /\ h["batched"] = Rings(length("batched"))
      /\ h["constantTermClaims"] = Rings(length("constantTermClaims"))
      /\ h["next"] = Rings(length("next"))
      /\ h["image"] = Rings(length("image")) /\ h["folded"] = Rings(length("folded"))
  <2>. HIDE DEF h, length
  <2>. QED
    BY <1>2 DEF Fields
<1>4. NextAllowance(c, r) = Rings(length("next")) /\ Rings(length("next")) \in Nat
  <2>1. length("next") = next
    BY DEF Fits
  <2>2. CASE r = Len(c)
    <3>1. NextAllowance(c, r) = 0 /\ next = 0
      BY <2>2 DEF NextAllowance
    <3>2. Rings(0) = 0
      BY WireFormatAssumption DEF Rings
    <3>. QED
      BY <2>1, <3>1, <3>2
  <2>3. CASE r # Len(c)
    <3>1. r < Len(c) /\ r + 1 \in 1..Len(c)
      BY <2>3, ChainType
    <3>2. NextAllowance(c, r) = CommitmentAllowance(c[r + 1]) /\ CommitmentAllowance(c[r + 1]) \in Nat
      BY <3>1, RoundAllowanceType DEF NextAllowance
    <3>3. CommitmentAllowance(c[r + 1]) = Rings(next)
      BY <2>3 DEF CommitmentAllowance
    <3>. QED
      BY <2>1, <3>2, <3>3
  <2>. QED
    BY <2>2, <2>3
<1>5. /\ Rings(0) = 0 /\ Polys(0) = 0 /\ Rings(1) \in Nat
      /\ \A n \in Nat : Rings(n) \in Nat /\ Polys(n) \in Nat
      /\ Rings(3) = Rings(1) + (Rings(1) + Rings(1))
      /\ Rings(4) = Rings(1) + (Rings(1) + (Rings(1) + Rings(1)))
  <2>1. Rings(0) = 0 /\ Polys(0) = 0 /\ \A n \in Nat : Rings(n) \in Nat /\ Polys(n) \in Nat
    BY CostsType, WireFormatAssumption DEF Rings, Polys
  <2>2. \A m, n \in Nat : Rings(m + n) = Rings(m) + Rings(n)
    BY RingsAdd
  <2>3. /\ Rings(1 + 1) = Rings(1) + Rings(1) /\ Rings(1 + 2) = Rings(1) + Rings(2)
        /\ Rings(1 + 3) = Rings(1) + Rings(3)
    BY <2>2
  <2>4. 1 + 1 = 2 /\ 1 + 2 = 3 /\ 1 + 3 = 4
    OBVIOUS
  <2>. QED
    BY <2>1, <2>3, <2>4
<1>6. CASE cfg.kind = "Sumcheck"
  <2>. DEFINE norm == IF HasProjectionNorm(cfg) THEN 1 ELSE 0
              fine == cfg.projection = "Fine"
              roots == cfg.rank["constantTerm"] + cfg.rank["batched"] + NofBatches
              projected == CASE cfg.projection = "Coarse" -> Rings(cfg.rank["coarse"])
                             [] cfg.projection = "Fine" -> Rings(roots)
                             [] OTHER -> 0
  <2>1. /\ length("polys") = cfg.vars
        /\ length("z0") = 1 /\ length("z1") = 1 /\ length("norm") = 1
        /\ length("mostInnerNorm") = 1 /\ length("projectionNorm") = norm
        /\ length("opening") = cfg.rank["opening"]
        /\ length("coarse") = IF cfg.projection = "Coarse" THEN cfg.rank["coarse"] ELSE 0
        /\ length("constantTerm") = IF fine THEN cfg.rank["constantTerm"] ELSE 0
        /\ length("batched") = IF fine THEN cfg.rank["batched"] ELSE 0
        /\ length("constantTermClaims") = IF fine THEN NofBatches ELSE 0
        /\ length("image") = 0 /\ length("folded") = 0
    BY <1>6 DEF Fits
  <2>2. RoundAllowance(cfg)
          = Polys(cfg.vars) + Rings(4 + norm) + Rings(cfg.rank["opening"]) + projected
    BY <1>6 DEF RoundAllowance
  <2>3. Rings(4 + norm) = Rings(4) + Rings(norm) /\ Rings(norm) \in Nat /\ Rings(4) \in Nat
    <3>1. norm \in Nat
      OBVIOUS
    <3>. QED
      BY <1>5, <3>1, RingsAdd
  <2>. DEFINE A == Rings(length("coarse"))
              B == Rings(length("constantTerm"))
              C == Rings(length("batched"))
              D == Rings(length("constantTermClaims"))
  <2>4. projected = A + ((B + C) + D) /\ A \in Nat /\ B \in Nat /\ C \in Nat /\ D \in Nat
    <3>1. /\ length("coarse") \in Nat /\ length("constantTerm") \in Nat
          /\ length("batched") \in Nat /\ length("constantTermClaims") \in Nat
      BY <1>1, <2>1
    <3>2. A \in Nat /\ B \in Nat /\ C \in Nat /\ D \in Nat
      BY <1>5, <3>1
    <3>3. CASE cfg.projection = "Coarse"
      <4>1. A = Rings(cfg.rank["coarse"]) /\ B = 0 /\ C = 0 /\ D = 0 /\ projected = A
        BY <1>5, <2>1, <3>3
      <4>. HIDE DEF A, B, C, D, projected
      <4>. QED
        BY <3>2, <4>1
    <3>4. CASE cfg.projection = "Fine"
      <4>1. /\ A = 0 /\ B = Rings(cfg.rank["constantTerm"]) /\ C = Rings(cfg.rank["batched"])
            /\ D = Rings(NofBatches) /\ projected = Rings(roots)
        BY <1>5, <2>1, <3>4
      <4>2. /\ Rings(cfg.rank["constantTerm"] + cfg.rank["batched"])
                 = Rings(cfg.rank["constantTerm"]) + Rings(cfg.rank["batched"])
            /\ cfg.rank["constantTerm"] + cfg.rank["batched"] \in Nat
        <5>1. \A m, n \in Nat : Rings(m + n) = Rings(m) + Rings(n) /\ m + n \in Nat
          BY RingsAdd
        <5>. HIDE DEF cfg, Rings
        <5>. QED
          BY <1>1, <5>1
      <4>3. Rings(roots) = Rings(cfg.rank["constantTerm"] + cfg.rank["batched"]) + Rings(NofBatches)
        BY <1>1, <4>2, RingsAdd
      <4>. HIDE DEF A, B, C, D, projected, roots
      <4>. QED
        BY <3>2, <4>1, <4>2, <4>3
    <3>5. CASE cfg.projection \notin {"Coarse", "Fine"}
      <4>1. A = 0 /\ B = 0 /\ C = 0 /\ D = 0 /\ projected = 0
        BY <1>5, <2>1, <3>5
      <4>. HIDE DEF A, B, C, D, projected
      <4>. QED
        BY <4>1
    <3>. QED
      BY <3>2, <3>3, <3>4, <3>5
  <2>5. /\ h["polys"] = Polys(cfg.vars) /\ h["z0"] = Rings(1) /\ h["z1"] = Rings(1)
        /\ h["norm"] = Rings(1) /\ h["mostInnerNorm"] = Rings(1)
        /\ h["projectionNorm"] = Rings(norm) /\ h["opening"] = Rings(cfg.rank["opening"])
        /\ h["coarse"] = A /\ h["constantTerm"] = B /\ h["batched"] = C
        /\ h["constantTermClaims"] = D /\ h["image"] = 0 /\ h["folded"] = 0
        /\ h["next"] = NextAllowance(c, r)
    BY <1>2, <1>3, <1>4, <1>5, <2>1
  <2>6. Polys(cfg.vars) \in Nat /\ Rings(cfg.rank["opening"]) \in Nat /\ NextAllowance(c, r) \in Nat
    BY <1>1, <1>4, <1>5
  <2>. DEFINE P == Polys(cfg.vars)
              R == Rings(1)
              N == Rings(norm)
              O == Rings(cfg.rank["opening"])
              X == NextAllowance(c, r)
  <2>7. FieldsTotal(h) = RoundAllowance(cfg) + X
    <3>1. FieldsTotal(h) = ((((((P + R) + (R + R)) + (R + N)) + (O + A)) + (B + C)) + (D + X)) + (0 + 0)
      <4>. HIDE DEF h, A, B, C, D, P, R, N, O, X
      <4>. QED
        BY <2>5 DEF FieldsTotal, P, R, N, O, X
    <3>2. RoundAllowance(cfg) = P + ((R + (R + (R + R))) + N) + O + (A + ((B + C) + D))
      BY <1>5, <2>2, <2>3, <2>4
    <3>3. P \in Nat /\ R \in Nat /\ N \in Nat /\ O \in Nat /\ X \in Nat
      BY <1>5, <2>3, <2>6
    <3>4. A \in Nat /\ B \in Nat /\ C \in Nat /\ D \in Nat
      BY <2>4
    <3>5. \A p, n, m, o, x, a, b, d, e \in Nat :
            ((((((p + n) + (n + n)) + (n + m)) + (o + a)) + (b + d)) + (e + x)) + (0 + 0)
              = p + ((n + (n + (n + n))) + m) + o + (a + ((b + d) + e)) + x
      OBVIOUS
    <3>. HIDE DEF A, B, C, D, P, R, N, O, X, cfg, h
    <3>. QED
      BY <3>1, <3>2, <3>3, <3>4, <3>5
  <2>. QED
    BY <1>2, <2>6, <2>7
<1>. DEFINE image == cfg.image * w
            batches == NofBatches * w
<1>7. /\ image \in Nat /\ batches \in Nat /\ w + w \in Nat /\ 2 * w = w + w
      /\ (cfg.image + NofBatches) * w = image + batches
  <2>1. \A i, b, x \in Nat : i * x \in Nat /\ (i + b) * x = i * x + b * x
    OBVIOUS
  <2>. HIDE DEF w, cfg
  <2>. QED
    BY <1>1, <2>1
<1>8. Images(cfg) = Rings(image) + Rings(batches) /\ Rings(image) \in Nat /\ Rings(batches) \in Nat
  <2>1. Images(cfg) = Rings(image + batches)
    BY <1>7 DEF Images
  <2>. HIDE DEF image, batches
  <2>. QED
    BY <1>5, <1>7, <2>1, RingsAdd
<1>9. CASE cfg.kind # "Sumcheck"
  <2>1. /\ length("opening") = 2 * w /\ length("image") = image /\ length("batched") = batches
        /\ length("mostInnerNorm") = 0 /\ length("projectionNorm") = 0
        /\ length("coarse") = 0 /\ length("constantTerm") = 0
        /\ length("constantTermClaims") = 0
    BY <1>9 DEF Fits
  <2>2. /\ h["opening"] = Rings(2 * w) /\ h["image"] = Rings(image) /\ h["batched"] = Rings(batches)
        /\ h["mostInnerNorm"] = 0 /\ h["projectionNorm"] = 0
        /\ h["coarse"] = 0 /\ h["constantTerm"] = 0 /\ h["constantTermClaims"] = 0
        /\ h["next"] = NextAllowance(c, r)
    BY <1>3, <1>4, <1>5, <2>1
  <2>3. Rings(2 * w) \in Nat
    BY <1>5, <1>7
  <2>4. CASE cfg.kind = "Intermediate"
    <3>1. /\ length("polys") = cfg.vars /\ length("z0") = 1 /\ length("z1") = 1
          /\ length("norm") = 1 /\ length("folded") = 0
      BY <2>4 DEF Fits
    <3>2. /\ h["polys"] = Polys(cfg.vars) /\ h["z0"] = Rings(1) /\ h["z1"] = Rings(1)
          /\ h["norm"] = Rings(1) /\ h["folded"] = 0
      BY <1>2, <1>3, <1>5, <3>1
    <3>3. RoundAllowance(cfg) = Rings(2 * w) + Polys(cfg.vars) + Rings(3) + Images(cfg)
      BY <2>4 DEF RoundAllowance
    <3>4. Polys(cfg.vars) \in Nat /\ NextAllowance(c, r) \in Nat
      BY <1>1, <1>4, <1>5
    <3>. DEFINE P == Polys(cfg.vars)
                R == Rings(1)
                O == Rings(2 * w)
                I == Rings(image)
                B == Rings(batches)
                X == NextAllowance(c, r)
    <3>5. FieldsTotal(h) = RoundAllowance(cfg) + X
      <4>1. FieldsTotal(h)
              = ((((((P + R) + (R + R)) + (0 + 0)) + (O + 0)) + (0 + B)) + (0 + X)) + (I + 0)
        <5>. HIDE DEF h, P, R, O, I, B, X
        <5>. QED
          BY <2>2, <3>2 DEF FieldsTotal, P, R, O, I, B, X
      <4>2. RoundAllowance(cfg) = O + P + (R + (R + R)) + (I + B)
        BY <1>5, <1>8, <3>3
      <4>3. P \in Nat /\ R \in Nat /\ O \in Nat /\ I \in Nat /\ B \in Nat /\ X \in Nat
        BY <1>5, <1>8, <2>3, <3>4
      <4>. HIDE DEF P, R, O, I, B, X
      <4>. QED
        BY <4>1, <4>2, <4>3
    <3>. QED
      BY <1>2, <3>4, <3>5
  <2>5. CASE cfg.kind = "Simple"
    <3>1. /\ length("polys") = 0 /\ length("z0") = 0 /\ length("z1") = 0 /\ length("norm") = 0
          /\ length("folded") = Height(cfg)
      BY <2>5 DEF Fits
    <3>2. /\ h["polys"] = 0 /\ h["z0"] = 0 /\ h["z1"] = 0 /\ h["norm"] = 0
          /\ h["folded"] = Rings(Height(cfg))
      BY <1>2, <1>3, <1>5, <3>1
    <3>3. RoundAllowance(cfg) = Rings(Height(cfg) + 2 * w) + Images(cfg)
      BY <2>5 DEF RoundAllowance
    <3>4. Rings(Height(cfg) + 2 * w) = Rings(Height(cfg)) + Rings(2 * w)
      <4>1. 2 * w \in Nat
        BY <1>7
      <4>. QED
        BY <1>1, <4>1, RingsAdd
    <3>5. Rings(Height(cfg)) \in Nat /\ NextAllowance(c, r) \in Nat
      BY <1>1, <1>4, <1>5
    <3>. DEFINE H == Rings(Height(cfg))
                O == Rings(2 * w)
                I == Rings(image)
                B == Rings(batches)
                X == NextAllowance(c, r)
    <3>6. FieldsTotal(h) = RoundAllowance(cfg) + X
      <4>1. FieldsTotal(h)
              = ((((((0 + 0) + (0 + 0)) + (0 + 0)) + (O + 0)) + (0 + B)) + (0 + X)) + (I + H)
        <5>. HIDE DEF h, H, O, I, B, X
        <5>. QED
          BY <2>2, <3>2 DEF FieldsTotal, H, O, I, B, X
      <4>2. RoundAllowance(cfg) = (H + O) + (I + B)
        BY <1>8, <3>3, <3>4
      <4>3. H \in Nat /\ O \in Nat /\ I \in Nat /\ B \in Nat /\ X \in Nat
        BY <1>8, <2>3, <3>5
      <4>. HIDE DEF H, O, I, B, X
      <4>. QED
        BY <4>1, <4>2, <4>3
    <3>. QED
      BY <1>2, <3>5, <3>6
  <2>. QED
    BY <1>1, <1>9, <2>4, <2>5
<1>. QED
  BY <1>6, <1>9

\* The fields of the rounds of a chain.
LEMMA FieldSets ==
    /\ \A f \in {"z0", "z1", "norm", "mostInnerNorm"} : Mandatory("Sumcheck", f)
    /\ \A f \in {"image", "folded"} : f \notin FieldSet("Sumcheck")
    /\ \A f \in {"z0", "z1", "norm"} : Mandatory("Intermediate", f)
    /\ \A f \in {"folded", "mostInnerNorm", "projectionNorm", "coarse", "constantTerm",
                 "constantTermClaims"} : f \notin FieldSet("Intermediate")
    /\ \A f \in {"polys", "z0", "z1", "norm", "next", "mostInnerNorm", "projectionNorm", "coarse",
                 "constantTerm", "constantTermClaims"} : f \notin FieldSet("Simple")
<1>1. FieldSet("Sumcheck")
        = {"polys", "z0", "z1", "norm", "mostInnerNorm", "projectionNorm", "opening", "coarse",
           "fine", "constantTermClaims", "next", "descend", "constantTerm", "batched"}
  <2>1. EncoderFields("Sumcheck")
          = <<"polys", "z0", "z1", "norm", "mostInnerNorm", "projectionNorm", "opening",
              "coarse", "fine", "constantTermClaims", "next", "descend">>
    BY DEF EncoderFields
  <2>. DEFINE F == <<"polys", "z0", "z1", "norm", "mostInnerNorm", "projectionNorm", "opening",
                     "coarse", "fine", "constantTermClaims", "next", "descend">>
  <2>2. 1..12 = {1, 2, 3, 4, 5, 6, 7, 8, 9, 10, 11, 12} /\ Len(F) = 12
    OBVIOUS
  <2>3. {F[i] : i \in {1, 2, 3, 4, 5, 6, 7, 8, 9, 10, 11, 12}}
          = {"polys", "z0", "z1", "norm", "mostInnerNorm", "projectionNorm", "opening", "coarse",
             "fine", "constantTermClaims", "next", "descend"}
    OBVIOUS
  <2>4. FieldSet("Sumcheck") = {F[i] : i \in 1..Len(F)} \cup {"constantTerm", "batched"}
    BY <2>1 DEF FieldSet
  <2>. HIDE DEF F
  <2>. QED
    BY <2>2, <2>3, <2>4
<1>2. FieldSet("Intermediate")
        = {"opening", "polys", "z0", "z1", "norm", "next", "image", "batched", "descend"}
  <2>1. EncoderFields("Intermediate")
          = <<"opening", "polys", "z0", "z1", "norm", "next", "image", "batched", "descend">>
    BY DEF EncoderFields
  <2>. DEFINE F == <<"opening", "polys", "z0", "z1", "norm", "next", "image", "batched", "descend">>
  <2>2. 1..9 = {1, 2, 3, 4, 5, 6, 7, 8, 9} /\ Len(F) = 9
    OBVIOUS
  <2>3. {F[i] : i \in {1, 2, 3, 4, 5, 6, 7, 8, 9}}
          = {"opening", "polys", "z0", "z1", "norm", "next", "image", "batched", "descend"}
    OBVIOUS
  <2>4. FieldSet("Intermediate") = {F[i] : i \in 1..Len(F)} \cup {}
    BY <2>1 DEF FieldSet
  <2>. HIDE DEF F
  <2>. QED
    BY <2>2, <2>3, <2>4
<1>3. FieldSet("Simple") = {"folded", "image", "batched", "opening"}
  <2>1. EncoderFields("Simple") = <<"folded", "image", "batched", "opening">>
    BY DEF EncoderFields
  <2>. DEFINE F == <<"folded", "image", "batched", "opening">>
  <2>2. 1..4 = {1, 2, 3, 4} /\ Len(F) = 4
    OBVIOUS
  <2>3. {F[i] : i \in {1, 2, 3, 4}} = {"folded", "image", "batched", "opening"}
    OBVIOUS
  <2>4. FieldSet("Simple") = {F[i] : i \in 1..Len(F)} \cup {}
    BY <2>1 DEF FieldSet
  <2>. HIDE DEF F
  <2>. QED
    BY <2>2, <2>3, <2>4
<1>4. \A kind \in {"Sumcheck", "Intermediate"} : \A f \in {"z0", "z1", "norm", "mostInnerNorm"} :
        ~Optional(kind, f) /\ f \in SingleRings
  BY DEF Optional, SingleRings
<1>5. \A f \in {"z0", "z1", "norm", "mostInnerNorm"} : Mandatory("Sumcheck", f)
  BY <1>1, <1>4 DEF Mandatory
<1>6. \A f \in {"z0", "z1", "norm"} : Mandatory("Intermediate", f)
  BY <1>2, <1>4 DEF Mandatory
<1>. QED
  BY <1>1, <1>2, <1>3, <1>5, <1>6

\* The entries a shape asks for.
LEMMA EntriesOf ==
    ASSUME NEW n
    PROVE  Entries(<<n>>) = n /\ Entries(NoShape) = 0
BY DEF Entries, NoShape

LEMMA EntriesOfMatrix ==
    ASSUME NEW h, NEW w, NEW u
    PROVE  Entries(<<h, w>>) = h * w /\ Entries(<<h, w, u>>) = h * w
BY DEF Entries

LEMMA EntriesOfOptional ==
    ASSUME NEW present \in BOOLEAN, NEW n
    PROVE  Entries(OptionalShape(present, <<n>>)) = IF present THEN n ELSE 0
<1>1. CASE present
  BY <1>1, EntriesOf DEF OptionalShape
<1>2. CASE ~present
  BY <1>2, EntriesOf DEF OptionalShape
<1>. QED
  BY <1>1, <1>2

\* A round that has been read whole and passes its shape check.
Checked(c, r, round, items, statement) ==
    /\ RoundWhole(round)
    /\ round.kind = c[r].kind
    /\ \A f \in Fields : Len(items[f].data) = Len(round.items[f].data)
    /\ Len(statement.claims) = c[r].openings
    /\ ShapePasses(c, r, items, statement)

\* The commitment a round sends is the next round's.
LEMMA CheckedNext ==
    ASSUME NEW c \in Chains, NEW r \in 1..Len(c), NEW item, FitsNextCommitment(item, c, r)
    PROVE  Len(item.data) = IF r = Len(c) THEN 0
                            ELSE IF c[r + 1].kind = "Sumcheck" THEN c[r + 1].rank["commitment"]
                            ELSE NextPowerOfTwo(c[r + 1].rank["commitment"]) * Width(c[r + 1])
<1>1. HasNext(c, r) <=> r # Len(c)
  BY ChainType DEF HasNext, Last
<1>2. CASE r = Len(c)
  BY <1>1, <1>2, EntriesOf DEF FitsNextCommitment, FitsShape
<1>3. CASE r # Len(c) /\ c[r + 1].kind = "Sumcheck"
  BY <1>1, <1>3, EntriesOf DEF FitsNextCommitment, FitsShape
<1>4. CASE r # Len(c) /\ c[r + 1].kind # "Sumcheck"
  <2>1. Len(item.data) = Entries(BasicCommitmentShape(c[r + 1]))
    BY <1>1, <1>4 DEF FitsNextCommitment, FitsBasicCommitment, FitsShape
  <2>. QED
    BY <1>4, <2>1, EntriesOfMatrix DEF BasicCommitmentShape
<1>. QED
  BY <1>2, <1>3, <1>4

LEMMA CheckedFits ==
    ASSUME NEW c \in Chains, NEW r \in 1..Len(c), NEW round, NEW items, NEW statement,
           Checked(c, r, round, items, statement)
    PROVE  Fits(c, r, round)
<1>. DEFINE cfg == c[r]
            length(f) == Len(round.items[f].data)
<1>1. /\ cfg.kind \in {"Sumcheck", "Intermediate", "Simple"} /\ round.kind = cfg.kind
      /\ \A f \in Fields : Len(items[f].data) = length(f)
  BY ConfigType DEF Checked, Kinds
<1>2. /\ \A f \in Fields : f \notin FieldSet(cfg.kind) => length(f) = 0
      /\ \A f \in Fields : Mandatory(cfg.kind, f) => length(f) = 1
  BY AbsentIsEmpty DEF Checked, RoundWhole
<1>. DEFINE next == IF r = Len(c) THEN 0
                    ELSE IF c[r + 1].kind = "Sumcheck" THEN c[r + 1].rank["commitment"]
                    ELSE NextPowerOfTwo(c[r + 1].rank["commitment"]) * Width(c[r + 1])
<1>3. CASE cfg.kind = "Sumcheck"
  <2>. DEFINE fine == cfg.projection = "Fine"
  <2>1. /\ FitsPolys(items["polys"], cfg)
        /\ FitsShape(items["projectionNorm"], OptionalShape(HasProjectionNorm(cfg), <<1>>))
        /\ FitsShape(items["opening"], <<cfg.rank["opening"]>>)
        /\ FitsShape(items["coarse"],
                     OptionalShape(cfg.projection = "Coarse", <<cfg.rank["coarse"]>>))
        /\ FitsShape(items["constantTerm"], OptionalShape(fine, <<cfg.rank["constantTerm"]>>))
        /\ FitsShape(items["batched"], OptionalShape(fine, <<cfg.rank["batched"]>>))
        /\ FitsShape(items["constantTermClaims"], OptionalShape(fine, <<NofBatches>>))
        /\ FitsNextCommitment(items["next"], c, r)
    BY <1>3 DEF Checked, ShapePasses, SumcheckShapePasses
  <2>2. length("next") = next
    <3>1. Len(items["next"].data) = next
      BY <2>1, CheckedNext
    <3>. HIDE DEF next
    <3>. QED
      BY <1>1, <3>1 DEF Fields
  <2>3. HasProjectionNorm(cfg) \in BOOLEAN
    BY ConfigType DEF HasProjectionNorm
  <2>4. /\ Len(items["polys"].data) = cfg.vars
        /\ Len(items["projectionNorm"].data) = IF HasProjectionNorm(cfg) THEN 1 ELSE 0
        /\ Len(items["opening"].data) = cfg.rank["opening"]
        /\ Len(items["coarse"].data) = IF cfg.projection = "Coarse" THEN cfg.rank["coarse"] ELSE 0
        /\ Len(items["constantTerm"].data) = IF fine THEN cfg.rank["constantTerm"] ELSE 0
        /\ Len(items["batched"].data) = IF fine THEN cfg.rank["batched"] ELSE 0
        /\ Len(items["constantTermClaims"].data) = IF fine THEN NofBatches ELSE 0
    <3>. HIDE DEF cfg
    <3>. QED
      BY <2>1, <2>3, EntriesOf, EntriesOfOptional DEF FitsPolys, FitsShape
  <2>5. /\ length("z0") = 1 /\ length("z1") = 1 /\ length("norm") = 1
        /\ length("mostInnerNorm") = 1 /\ length("image") = 0 /\ length("folded") = 0
    <3>. HIDE DEF length
    <3>. QED
      BY <1>2, <1>3, FieldSets DEF Fields
  <2>6. /\ length("polys") = Len(items["polys"].data)
        /\ length("projectionNorm") = Len(items["projectionNorm"].data)
        /\ length("opening") = Len(items["opening"].data)
        /\ length("coarse") = Len(items["coarse"].data)
        /\ length("constantTerm") = Len(items["constantTerm"].data)
        /\ length("batched") = Len(items["batched"].data)
        /\ length("constantTermClaims") = Len(items["constantTermClaims"].data)
    <3>. HIDE DEF length
    <3>. QED
      BY <1>1 DEF Fields
  <2>. QED
    BY <1>3, <2>2, <2>4, <2>5, <2>6 DEF Fits
<1>4. CASE cfg.kind # "Sumcheck"
  <2>. DEFINE w == Width(cfg)
              claims == Len(statement.claims)
  <2>1. /\ FitsShape(items["opening"], <<claims, w>>)
        /\ FitsShape(items["image"], <<cfg.image, w, w>>)
        /\ FitsShape(items["batched"], <<NofBatches, w>>)
        /\ cfg.kind = "Simple" => FitsShape(items["folded"], <<Height(cfg), 1, 1>>)
        /\ cfg.kind # "Simple" => /\ FitsPolys(items["polys"], cfg)
                                  /\ FitsNextCommitment(items["next"], c, r)
    BY <1>4 DEF Checked, ShapePasses, BasicShapePasses
  <2>2. claims = 2
    <3>1. r # 1
      BY <1>4, ChainType
    <3>2. r - 1 \in 1..Len(c) /\ HasNext(c, r - 1) /\ r - 1 + 1 = r
      BY <3>1, ChainType DEF HasNext, Last
    <3>3. Follows(c[r - 1], c[r])
      BY <3>2, ChainsAssumption DEF WellFormed
    <3>. QED
      BY <3>3 DEF Follows, Checked
  <2>3. /\ length("opening") = 2 * w /\ length("image") = cfg.image * w
        /\ length("batched") = NofBatches * w
    <3>1. /\ Len(items["opening"].data) = 2 * w /\ Len(items["image"].data) = cfg.image * w
          /\ Len(items["batched"].data) = NofBatches * w
      BY <2>1, <2>2, EntriesOfMatrix DEF FitsShape
    <3>. HIDE DEF length
    <3>. QED
      BY <1>1, <3>1 DEF Fields
  <2>4. CASE cfg.kind = "Intermediate"
    <3>1. length("next") = next
      <4>1. Len(items["next"].data) = next
        BY <2>1, <2>4, CheckedNext
      <4>. HIDE DEF next
      <4>. QED
        BY <1>1, <4>1 DEF Fields
    <3>2. length("polys") = cfg.vars
      <4>1. Len(items["polys"].data) = cfg.vars
        BY <2>1, <2>4, EntriesOf DEF FitsPolys, FitsShape
      <4>. HIDE DEF length
      <4>. QED
        BY <1>1, <4>1 DEF Fields
    <3>3. /\ length("z0") = 1 /\ length("z1") = 1 /\ length("norm") = 1 /\ length("folded") = 0
          /\ length("mostInnerNorm") = 0 /\ length("projectionNorm") = 0 /\ length("coarse") = 0
          /\ length("constantTerm") = 0 /\ length("constantTermClaims") = 0
      <4>. HIDE DEF length
      <4>. QED
        BY <1>2, <2>4, FieldSets DEF Fields
    <3>. QED
      BY <1>4, <2>3, <2>4, <3>1, <3>2, <3>3 DEF Fits
  <2>5. CASE cfg.kind = "Simple"
    <3>1. r = Len(c)
      BY <2>5, ChainOrder, ChainType
    <3>2. length("folded") = Height(cfg)
      <4>1. Len(items["folded"].data) = Height(cfg) * 1 /\ Height(cfg) \in Nat
        BY <2>1, <2>5, EntriesOfMatrix, ConfigType DEF FitsShape
      <4>2. \A n \in Nat : n * 1 = n
        OBVIOUS
      <4>. HIDE DEF length
      <4>. QED
        BY <1>1, <4>1, <4>2 DEF Fields
    <3>3. /\ length("polys") = 0 /\ length("z0") = 0 /\ length("z1") = 0 /\ length("norm") = 0
          /\ length("next") = 0
          /\ length("mostInnerNorm") = 0 /\ length("projectionNorm") = 0 /\ length("coarse") = 0
          /\ length("constantTerm") = 0 /\ length("constantTermClaims") = 0
      <4>. HIDE DEF length
      <4>. QED
        BY <1>2, <2>5, FieldSets DEF Fields
    <3>. QED
      BY <1>4, <2>3, <2>5, <3>1, <3>2, <3>3 DEF Fits
  <2>. QED
    BY <1>1, <1>4, <2>4, <2>5
<1>. QED
  BY <1>3, <1>4

\* The sum over an interval, and the interval one shorter.
LEMMA IntervalSum ==
    ASSUME NEW a \in Nat, NEW b \in Nat, a <= b, NEW h, \A r \in a..b : h[r] \in Nat
    PROVE  /\ Total(h, a..b) = Total(h, a..(b - 1)) + h[b]
           /\ Total(h, a..b) \in Nat /\ Total(h, a..(b - 1)) \in Nat /\ h[b] \in Nat
<1>. DEFINE S == a..b
            T == a..(b - 1)
<1>1. IsFiniteSet(S)
  BY FS_Interval
<1>2. b \in S /\ S \ {b} = T /\ \A r \in S : h[r] \in Nat
  OBVIOUS
<1>. HIDE DEF S, T
<1>3. Total(h, S) \in Nat /\ Total(h, S) = h[b] + Total(h, S \ {b}) /\ Total(h, S \ {b}) \in Nat
  BY <1>1, <1>2, TotalSplits
<1>4. Total(h, S) = h[b] + Total(h, T) /\ Total(h, T) \in Nat /\ h[b] \in Nat
  BY <1>2, <1>3
<1>. DEFINE x == Total(h, T)
            y == h[b]
<1>5. x \in Nat /\ y \in Nat /\ Total(h, S) = y + x
  BY <1>4
<1>6. y + x = x + y
  <2>. HIDE DEF x, y
  <2>. QED
    BY <1>5
<1>. QED
  BY <1>3, <1>4, <1>5, <1>6 DEF S, T

\* Sums over the rounds of a chain: what each round declares is its own allowance
\* and the commitment to the next, so the commitments are those of all but the first.
LEMMA SumsShift ==
    ASSUME NEW n \in Nat \ {0}, NEW h, NEW k, NEW e,
           \A r \in 1..n : k[r] \in Nat, \A r \in 2..n : e[r] \in Nat,
           \A r \in 1..n : h[r] = k[r] + (IF r < n THEN e[r + 1] ELSE 0)
    PROVE  Total(h, 1..n) = Total(k, 1..n) + Total(e, 2..n)
<1>. DEFINE Good(m) == Total(h, 1..m) = Total(k, 1..m) + Total(e, 2..(m + 1))
            Wrong == {m \in 0..(n - 1) : ~Good(m)}
<1>1. \A r \in 1..n : h[r] \in Nat
  <2>. TAKE r \in 1..n
  <2>1. r < n => r + 1 \in 2..n
    OBVIOUS
  <2>. QED
    BY <2>1
<1>3. \A m \in 1..n : /\ Total(h, 1..m) = Total(h, 1..(m - 1)) + h[m]
                      /\ Total(k, 1..m) = Total(k, 1..(m - 1)) + k[m]
                      /\ Total(k, 1..(m - 1)) \in Nat /\ Total(h, 1..(m - 1)) \in Nat
  <2>. TAKE m \in 1..n
  <2>1. m \in Nat /\ 1 \in Nat /\ 1 <= m /\ \A r \in 1..m : h[r] \in Nat /\ k[r] \in Nat
    BY <1>1
  <2>2. /\ Total(h, 1..m) = Total(h, 1..(m - 1)) + h[m] /\ Total(h, 1..(m - 1)) \in Nat
    BY <2>1, IntervalSum
  <2>3. /\ Total(k, 1..m) = Total(k, 1..(m - 1)) + k[m] /\ Total(k, 1..(m - 1)) \in Nat
    BY <2>1, IntervalSum
  <2>. QED
    BY <2>2, <2>3
<1>4. \A m \in 1..(n - 1) : /\ Total(e, 2..(m + 1)) = Total(e, 2..m) + e[m + 1]
                            /\ Total(e, 2..m) \in Nat /\ e[m + 1] \in Nat
  <2>. TAKE m \in 1..(n - 1)
  <2>. DEFINE l == m + 1
  <2>1. l \in Nat /\ 2 \in Nat /\ 2 <= l /\ l - 1 = m /\ \A r \in 2..l : e[r] \in Nat
    OBVIOUS
  <2>. HIDE DEF l
  <2>2. /\ Total(e, 2..l) = Total(e, 2..(l - 1)) + e[l]
        /\ Total(e, 2..(l - 1)) \in Nat /\ e[l] \in Nat
    BY <2>1, IntervalSum
  <2>. QED
    BY <2>1, <2>2 DEF l
<1>5. Good(0)
  <2>1. 1..0 = {} /\ 2..(0 + 1) = {}
    OBVIOUS
  <2>. QED
    BY <2>1, TotalEmpty
<1>6. ASSUME NEW m \in 1..(n - 1), Good(m - 1) PROVE Good(m)
  <2>1. /\ h[m] = k[m] + e[m + 1] /\ k[m] \in Nat /\ m \in 1..n /\ m - 1 + 1 = m
    BY <1>6
  <2>2. Total(h, 1..(m - 1)) = Total(k, 1..(m - 1)) + Total(e, 2..m)
    BY <1>6, <2>1
  <2>3. /\ Total(h, 1..m) = Total(h, 1..(m - 1)) + h[m]
        /\ Total(k, 1..m) = Total(k, 1..(m - 1)) + k[m]
        /\ Total(k, 1..(m - 1)) \in Nat
    BY <1>3, <2>1
  <2>4. /\ Total(e, 2..(m + 1)) = Total(e, 2..m) + e[m + 1]
        /\ Total(e, 2..m) \in Nat /\ e[m + 1] \in Nat
    BY <1>4, <1>6
  <2>. QED
    BY <2>1, <2>2, <2>3, <2>4
<1>7. \A m \in 0..(n - 1) : Good(m)
  <2>. HIDE DEF Good
  <2>1. SUFFICES ASSUME Wrong # {} PROVE FALSE
    OBVIOUS
  <2>2. Wrong \subseteq Nat
    OBVIOUS
  <2>3. PICK m \in Wrong : \A j \in Wrong : m <= j
    <3>. HIDE DEF Wrong
    <3>. QED
      BY <2>1, <2>2, LeastNatural
  <2>4. m # 0
    BY <1>5
  <2>5. m \in 1..(n - 1) /\ m - 1 \in 0..(n - 1) /\ m - 1 \notin Wrong
    BY <2>3, <2>4
  <2>. QED
    BY <1>6, <2>5
<1>8. n - 1 \in 0..(n - 1) /\ n - 1 + 1 = n /\ n \in 1..n
  OBVIOUS
<1>9. Total(h, 1..(n - 1)) = Total(k, 1..(n - 1)) + Total(e, 2..n)
  BY <1>7, <1>8
<1>10. /\ Total(h, 1..n) = Total(h, 1..(n - 1)) + h[n]
       /\ Total(k, 1..n) = Total(k, 1..(n - 1)) + k[n]
       /\ Total(k, 1..(n - 1)) \in Nat /\ Total(h, 1..(n - 1)) \in Nat
       /\ k[n] \in Nat /\ h[n] = k[n] + 0
  BY <1>3, <1>8
<1>11. Total(e, 2..n) \in Nat
  <2>1. CASE n = 1
    <3>1. 2..n = {}
      BY <2>1
    <3>. QED
      BY <3>1, TotalEmpty
  <2>2. CASE n # 1
    <3>1. n \in Nat /\ 2 \in Nat /\ 2 <= n
      BY <2>2
    <3>. QED
      BY <3>1, IntervalSum
  <2>. QED
    BY <2>1, <2>2
<1>. QED
  BY <1>9, <1>10, <1>11

\* A proof whose every round fits its own configuration declares the allowance.
LEMMA FittingDeclares ==
    ASSUME NEW c \in Chains, NEW o \in Seq(DecodedRounds), Len(o) = Len(c),
           \A r \in 1..Len(c) : Fits(c, r, o[r])
    PROVE  Declared(o) = AllowanceOf(c).cells
<1>. DEFINE n == Len(c)
            h == RoundsDeclare(o)
            k == [r \in DOMAIN c |-> RoundAllowance(c[r])]
            e == [r \in 2..n |-> CommitmentAllowance(c[r])]
<1>1. n \in Nat \ {0} /\ DOMAIN c = 1..n
  BY ChainType, LenProperties
<1>2. DOMAIN o = 1..n /\ \A r \in 1..n : Measured(o[r])
  BY <1>1, DecodedMeasured
<1>3. /\ Declared(o) = Total(h, 1..n)
      /\ \A r \in 1..n : h[r] = RoundDeclares(o[r])
  BY <1>1, <1>2, DeclaredIs
<1>4. AllowanceOf(c).cells = Total(k, 1..n) + Total(e, 2..n)
  BY <1>1, RoundsSum, CommitmentsSum DEF AllowanceOf
<1>5. \A r \in 1..n : k[r] = RoundAllowance(c[r]) /\ k[r] \in Nat
  BY <1>1, RoundAllowanceType
<1>6. \A r \in 2..n : e[r] = CommitmentAllowance(c[r]) /\ e[r] \in Nat
  <2>1. \A r \in 2..n : r \in 1..n
    BY <1>1
  <2>. QED
    BY <2>1, RoundAllowanceType
<1>7. \A r \in 1..n : h[r] = k[r] + (IF r < n THEN e[r + 1] ELSE 0)
  <2>. TAKE r \in 1..n
  <2>1. RoundDeclares(o[r]) = RoundAllowance(c[r]) + NextAllowance(c, r)
    BY <1>2, FitsDeclares
  <2>2. NextAllowance(c, r) = IF r < n THEN e[r + 1] ELSE 0
    <3>1. r < n => r + 1 \in 2..n
      BY <1>1
    <3>. QED
      BY <1>6, <3>1 DEF NextAllowance
  <2>. QED
    BY <1>3, <1>5, <2>1, <2>2
<1>. HIDE DEF h, k, e, n
<1>8. Total(h, 1..n) = Total(k, 1..n) + Total(e, 2..n)
  <2>1. (\A r \in 1..n : k[r] \in Nat) /\ (\A r \in 2..n : e[r] \in Nat)
    BY <1>5, <1>6
  <2>. QED
    BY <1>1, <1>7, <2>1, SumsShift
<1>. QED
  BY <1>3, <1>4, <1>8

\* A round the verifier's check sees.
LEMMA DecodedLengths ==
    ASSUME NEW r, DecodedRound(out[r]), chain[r].openings \in Nat
    PROVE  /\ \A f \in Fields : Len(DecodedItems(r)[f].data) = Len(out[r].items[f].data)
           /\ Len(StatementOf(r).claims) = chain[r].openings
<1>1. ASSUME NEW f \in Fields
      PROVE  Len(DecodedItems(r)[f].data) = Len(out[r].items[f].data)
  <2>. DEFINE d == out[r].items[f].data
  <2>1. d \in Seq(Polynomials) \/ d \in Seq(Elements)
    BY <1>1 DEF DecodedRound, WireItems
  <2>2. Len(d) \in Nat /\ DOMAIN d = 1..Len(d)
    <3>. HIDE DEF d
    <3>. QED
      BY <2>1, LenProperties
  <2>3. DecodedItems(r)[f].data = [i \in DOMAIN d |-> d[i].of]
    BY <1>1 DEF DecodedItems
  <2>4. DecodedItems(r)[f].data = [i \in 1..Len(d) |-> d[i].of]
    BY <2>2, <2>3
  <2>. DEFINE m == Len(d)
              s == [i \in 1..m |-> d[i].of]
  <2>5. m \in Nat => Len(s) = m
    <3>. HIDE DEF m, d
    <3>. QED
      OBVIOUS
  <2>. QED
    BY <2>2, <2>4, <2>5
<1>2. Len(StatementOf(r).claims) = chain[r].openings
  <2>1. StatementOf(r).claims = [i \in 1..chain[r].openings |-> <<>>]
    BY DEF StatementOf
  <2>. DEFINE m == chain[r].openings
  <2>2. m \in Nat => Len([i \in 1..m |-> <<>>]) = m
    <3>. HIDE DEF m
    <3>. QED
      OBVIOUS
  <2>. QED
    BY <2>1, <2>2
<1>. QED
  BY <1>1, <1>2

LEMMA SpentCovers ==
    ASSUME WireInv, AllowanceInv, SpentInv
    PROVE  ShapeChecksHoldTheRest
<1>. DEFINE n == Len(out)
<1>1. SUFFICES ASSUME status = "accepted", source[1].kind # "Claims", n = Len(chain),
                      \A r \in DOMAIN chain :
                        /\ out[r].kind = chain[r].kind
                        /\ ShapePasses(chain, r, DecodedItems(r), StatementOf(r))
               PROVE  left = 0 /\ roundsLeft = 0
  BY DEF ShapeChecksHoldTheRest
<1>2. /\ chain \in Chains /\ left \in Nat /\ roundsLeft \in Nat
      /\ Allowance = AllowanceOf(chain) /\ n + roundsLeft = Allowance.rounds
  BY <1>1 DEF AllowanceInv, AllowanceHolds, Allowance, WireInv, WireType
<1>3. n \in Nat \ {0} /\ DOMAIN chain = 1..n
  BY <1>1, <1>2, ChainType, LenProperties
<1>4. roundsLeft = 0
  BY <1>1, <1>2, <1>3 DEF AllowanceOf
<1>5. out \in Seq(DecodedRounds) /\ DecodedProof(out) /\ n # 0 /\ Round = out[n]
  BY <1>3, DecodedRoundsType DEF WireInv, WireType, Round
<1>6. /\ \A r \in 1..(n - 1) : RoundWhole(out[r])
      /\ RoundSoFar /\ todo = <<>> /\ left + Declared(out) = Allowance.cells
  BY <1>1 DEF SpentInv
<1>7. \A f \in Fields : ~Pending(f)
  BY <1>6 DEF Pending
<1>8. RoundWhole(out[n])
  BY <1>5, <1>6, <1>7 DEF RoundSoFar, RoundWhole
<1>9. \A r \in 1..n : RoundWhole(out[r])
  <2>1. \A r \in 1..n : r = n \/ r \in 1..(n - 1)
    BY <1>3
  <2>. QED
    BY <1>6, <1>8, <2>1
<1>10. \A r \in 1..n : Fits(chain, r, out[r])
  <2>. TAKE r \in 1..n
  <2>1. DecodedRound(out[r]) /\ r \in 1..Len(chain) /\ r \in DOMAIN chain
    BY <1>1, <1>3, <1>5 DEF DecodedProof
  <2>2. chain[r].openings \in Nat
    BY <1>2, <2>1, ConfigType
  <2>3. Checked(chain, r, out[r], DecodedItems(r), StatementOf(r))
    BY <1>1, <1>9, <2>1, <2>2, DecodedLengths DEF Checked
  <2>. QED
    BY <1>2, <2>1, <2>3, CheckedFits
<1>11. Declared(out) = Allowance.cells
  BY <1>1, <1>2, <1>5, <1>10, FittingDeclares
<1>12. Allowance.cells \in Nat
  BY <1>2, AllowanceType
<1>. QED
  BY <1>2, <1>4, <1>6, <1>11, <1>12

\* "The verifier's shape checks then hold each field to its own size": for every
\* chain, ring and stream, a proof that from_bytes_for accepts and whose every
\* round check_*_round_shape passes declares exactly the allowance, so that no
\* field can be larger than an honest one at the expense of another.
THEOREM ShapeChecksCoverAllowance ==
    WireSpec => []ShapeChecksHoldTheRest
<1>1. WireInit => WireInv /\ AllowanceInv /\ SpentInv
  BY InitInv, SpentFirst
<1>2. WireInv /\ AllowanceInv /\ SpentInv /\ [WireNext]_wireVars
        => WireInv' /\ AllowanceInv' /\ SpentInv'
  BY NextInv, AllowanceKept, SpentKept
<1>3. WireInv /\ AllowanceInv /\ SpentInv => ShapeChecksHoldTheRest
  BY SpentCovers
<1>. QED
  BY <1>1, <1>2, <1>3, PTL DEF WireSpec
=============================================================================

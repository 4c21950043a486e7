------------------------- MODULE RoundChain_proofs -------------------------
(***************************************************************************)
(* What holds of every chain, every set of faults and cuts and any number  *)
(* of sessions.  TypeInv strengthens TypeOK with how far each party's walk *)
(* has come: the prover's proof has the rounds above the one it is in, and *)
(* the verifier is in a round that was decoded.                            *)
(* The lemmas before it are on what is absorbed, drawn and delivered.      *)
(* On top of it, two safety properties: a context serves one proof, and    *)
(* what is accepted was verified in every round; and then completeness.    *)
(***************************************************************************)
EXTENDS RoundChain, RoundItems_proofs, FiniteSetTheorems

\* Absorbing an item's data and drawing under a label keep a transcript one.
LEMMA AbsorbType ==
    ASSUME NEW t \in Transcripts(Entry, Labels), NEW item \in Items
    PROVE  Absorb(t, item) \in Transcripts(Entry, Labels)
<1>1. t.absorbed \o item.data \in Seq(Entry)
  BY ConcatProperties DEF Transcripts, Items
<1>. QED
  BY <1>1 DEF Absorb, Transcripts

LEMMA DrawType ==
    ASSUME NEW t \in Transcripts(Entry, Labels), NEW label \in Labels
    PROVE  Draw(t, label) \in Transcripts(Entry, Labels)
<1>. DEFINE draw == [label |-> label, at |-> Len(t.absorbed)]
<1>1. draw \in [label : Labels, at : Nat]
  BY LenProperties DEF Transcripts
<1>2. Append(t.drawn, draw) \in Seq([label : Labels, at : Nat])
  BY <1>1, AppendProperties DEF Transcripts
<1>. QED
  BY <1>2 DEF Draw, Transcripts

LEMMA NewTranscriptType == NewTranscript \in Transcripts(Entry, Labels)
BY DEF NewTranscript, Transcripts

LEMMA LastDrawType ==
    ASSUME NEW t \in Transcripts(Entry, Labels)
    PROVE  LastDraw(t) \in Nat
BY LenProperties DEF LastDraw, Transcripts

\* The proof a prover builds for the first n rounds of its chain.
SentProof(c, proof) ==
    /\ proof \in Seq(RoundProofs)
    /\ Len(proof) <= Len(c)
    /\ \A r \in 1..Len(proof) : proof[r] = [kind |-> c[r].kind, items |-> Sent(c, r)]

LEMMA SentRound ==
    ASSUME NEW c, NEW proof, SentProof(c, proof), NEW r \in 1..Len(proof)
    PROVE  proof[r].kind = c[r].kind /\ proof[r].items = Sent(c, r)
<1>1. proof[r] = [kind |-> c[r].kind, items |-> Sent(c, r)]
  BY DEF SentProof
<1>. QED
  BY <1>1

LEMMA SentProofType ==
    ASSUME NEW c \in Chains, NEW proof, SentProof(c, proof), Len(proof) < Len(c)
    PROVE  LET r == Len(proof) + 1
               grown == Append(proof, [kind |-> c[r].kind, items |-> Sent(c, r)])
           IN  SentProof(c, grown) /\ Len(grown) = r
<1>. DEFINE r == Len(proof) + 1
            round == [kind |-> c[r].kind, items |-> Sent(c, r)]
<1>1. Len(c) \in Nat /\ Len(proof) \in Nat /\ proof \in Seq(RoundProofs)
  BY ChainType, LenProperties DEF SentProof
<1>2. r \in 1..Len(c)
  BY <1>1
<1>3. round \in RoundProofs
  BY <1>2, SentType, ConfigType DEF RoundProofs, SoundItems
<1>. HIDE DEF round
<1>4. /\ Append(proof, round) \in Seq(RoundProofs)
      /\ Len(Append(proof, round)) = r
      /\ \A i \in 1..Len(proof) : Append(proof, round)[i] = proof[i]
      /\ Append(proof, round)[r] = round
  BY <1>1, <1>3, AppendProperties
<1>5. \A i \in 1..r : Append(proof, round)[i] = [kind |-> c[i].kind, items |-> Sent(c, i)]
  <2>. SUFFICES ASSUME NEW i \in 1..r
                PROVE  Append(proof, round)[i] = [kind |-> c[i].kind, items |-> Sent(c, i)]
    OBVIOUS
  <2>1. CASE i \in 1..Len(proof)
    BY <2>1, <1>4 DEF SentProof
  <2>2. CASE i = r
    BY <2>2, <1>4 DEF round
  <2>. QED
    BY <2>1, <2>2, <1>1
<1>. QED
  BY <1>1, <1>2, <1>4, <1>5 DEF SentProof, round

-----------------------------------------------------------------------------
(***************************************************************************)
(* What may be delivered.                                                  *)
(***************************************************************************)

\* The one entry of an element is an entry.
LEMMA OnlyEntryType ==
    ASSUME NEW item \in Items, Len(item.data) = 1
    PROVE  item.data[1] \in Entry
<1>1. item.data \in Seq(Entry)
  BY DEF Items
<1>2. 1 \in 1..1
  OBVIOUS
<1>3. 1 \in 1..Len(item.data)
  BY <1>2, Zenon
<1>. QED
  BY <1>1, <1>3, ElementOfSeq

\* A received entry, of another value, is one.
LEMMA WithValueType ==
    ASSUME NEW item \in Items, NEW i \in DOMAIN item.data
    PROVE  /\ WithValue(item, i) \in Items
           /\ Len(WithValue(item, i).data) = Len(item.data)
<1>1. item.data \in Seq(Entry) /\ i \in 1..Len(item.data) /\ Foreign \in Entry
  BY LenProperties DEF Items, Foreign, Entry
<1>2. /\ [item.data EXCEPT ![i] = Foreign] \in Seq(Entry)
      /\ Len([item.data EXCEPT ![i] = Foreign]) = Len(item.data)
  BY <1>1, ExceptSeq
<1>. QED
  BY <1>2 DEF WithValue, Items

\* Dropping or adding one element, or one row of a matrix.
LEMMA PoppedType ==
    ASSUME NEW item \in SoundItems, Len(item.data) > 0
    PROVE  Popped(item) \in Items
<1>1. /\ item.shape \in Seq(Nat) /\ item.data \in Seq(Entry)
      /\ Len(item.data) = Entries(item.shape)
      /\ Len(item.data) \in Nat /\ Len(item.shape) \in Nat
  BY LenProperties DEF SoundItems, Items
<1>2. CASE Len(item.shape) = 0
  BY <1>1, <1>2 DEF Entries
<1>3. CASE Len(item.shape) = 1
  <2>1. item.shape[1] \in Nat /\ item.shape[1] = Len(item.data)
    BY <1>1, <1>3, ElementOfSeq DEF Entries
  <2>2. <<item.shape[1] - 1>> \in Seq(Nat)
    BY <2>1, <1>1
  <2>3. SubSeq(item.data, 1, Len(item.data) - 1) \in Seq(Entry)
    BY <1>1, SubSeqProperties, ElementOfSeq
  <2>. QED
    BY <1>3, <2>2, <2>3 DEF Popped, Items
<1>4. CASE Len(item.shape) > 1
  <2>1. /\ item.shape[1] \in Nat /\ item.shape[2] \in Nat
        /\ item.shape[1] * item.shape[2] = Len(item.data)
    BY <1>1, <1>4, ElementOfSeq DEF Entries
  <2>2. item.shape[1] - 1 \in Nat
    BY <2>1, <1>1
  <2>3. [item.shape EXCEPT ![1] = @ - 1] \in Seq(Nat)
    BY <2>2, <1>1, <1>4, ExceptSeq
  <2>4. SubSeq(item.data, 1, Len(item.data) - item.shape[2]) \in Seq(Entry)
    <3>1. Len(item.data) - item.shape[2] \in Int
      BY <1>1, <2>1
    <3>2. \A i \in 1..(Len(item.data) - item.shape[2]) : i \in 1..Len(item.data)
      BY <1>1, <2>1
    <3>3. \A i \in 1..(Len(item.data) - item.shape[2]) : item.data[i] \in Entry
      BY <3>2, <1>1, ElementOfSeq
    <3>. QED
      BY <3>1, <3>3, SubSeqProperties
  <2>. QED
    BY <1>4, <2>3, <2>4, SMTT(60) DEF Popped, Items
<1>. QED
  BY <1>1, <1>2, <1>3, <1>4

LEMMA PushedType ==
    ASSUME NEW item \in Items, Len(item.shape) # 0
    PROVE  Pushed(item) \in Items
<1>1. item.shape \in Seq(Nat) /\ item.data \in Seq(Entry) /\ Foreign \in Entry
  BY DEF Items, Foreign, Entry
<1>2. Len(item.shape) \in Nat
  BY <1>1, LenProperties
<1>3. CASE Len(item.shape) = 1
  <2>1. <<item.shape[1] + 1>> \in Seq(Nat)
    BY <1>1, <1>3, ElementOfSeq
  <2>2. Append(item.data, Foreign) \in Seq(Entry)
    BY <1>1, AppendProperties
  <2>. QED
    BY <1>3, <2>1, <2>2 DEF Pushed, Items
<1>4. CASE Len(item.shape) # 1
  <2>1. 1 \in 1..Len(item.shape) /\ 2 \in 1..Len(item.shape)
    <3>1. \A n \in Nat : n # 0 /\ n # 1 => 1 \in 1..n /\ 2 \in 1..n
      OBVIOUS
    <3>. QED
      BY <3>1, <1>2, <1>4, Zenon
  <2>2. item.shape[1] + 1 \in Nat /\ item.shape[2] \in Nat
    BY <1>1, <2>1, ElementOfSeq
  <2>3. [item.shape EXCEPT ![1] = @ + 1] \in Seq(Nat)
    BY <2>1, <2>2, <1>1, ExceptSeq
  <2>4. [i \in 1..item.shape[2] |-> Foreign] \in Seq(Entry)
    <3>1. \A n \in Nat : [i \in 1..n |-> Foreign] \in Seq(Entry)
      BY <1>1
    <3>. QED
      BY <3>1, <2>2, Zenon
  <2>5. item.data \o [i \in 1..item.shape[2] |-> Foreign] \in Seq(Entry)
    BY <2>4, <1>1, ConcatProperties
  <2>. QED
    BY <1>4, <2>3, <2>5 DEF Pushed, Items
<1>. QED
  BY <1>3, <1>4

LEMMA TransposedType ==
    ASSUME NEW item \in SoundItems, Len(item.shape) > 1
    PROVE  Transposed(item) \in Items
<1>1. item.shape \in Seq(Nat) /\ Len(item.shape) \in Nat /\ item \in Items
  BY LenProperties DEF SoundItems, Items
<1>2. item.shape[1] \in Nat /\ item.shape[2] \in Nat
  BY <1>1, ElementOfSeq
<1>3. [item.shape EXCEPT ![1] = item.shape[2], ![2] = item.shape[1]] \in Seq(Nat)
  BY <1>1, <1>2, ExceptSeq
<1>. QED
  BY <1>1, <1>3 DEF Transposed, Items

LEMMA MiscountedType ==
    ASSUME NEW item \in Items, NEW i \in DOMAIN item.data
    PROVE  Miscounted(item, i) \in Items
<1>1. item.shape \in Seq(Nat) /\ item.data \in Seq(Entry)
  BY DEF Items
<1>2. i \in Nat
  BY <1>1
<1>3. Append(item.shape, i) \in Seq(Nat)
  BY <1>1, <1>2
<1>. QED
  BY <1>3 DEF Miscounted, Items

LEMMA TwoItemsType ==
    ASSUME NEW items \in [Fields -> Items], NEW a \in Fields, NEW b \in Fields,
           NEW x \in Items, NEW y \in Items
    PROVE  /\ [items EXCEPT ![a] = x, ![b] = y] \in [Fields -> Items]
           /\ \A f \in Fields \ {a, b} : [items EXCEPT ![a] = x, ![b] = y][f] = items[f]
OBVIOUS

\* Moving the norm of the projection image into the constant-term claims, or
\* the first of those claims out of them.
LEMMA RegroupedType ==
    ASSUME NEW items \in [Fields -> SoundItems],
           Len(items["constantTermClaims"].data) > 0
    PROVE  /\ Regrouped(items) \in [Fields -> Items]
           /\ \A f \in {"z0", "z1"} : Regrouped(items)[f] = items[f]
<1>. DEFINE norm == items["projectionNorm"]
            claims == items["constantTermClaims"]
            moved == norm.data \o claims.data
            n == Len(claims.data)
<1>1. /\ "projectionNorm" \in Fields /\ "constantTermClaims" \in Fields
      /\ {"z0", "z1"} \subseteq Fields \ {"projectionNorm", "constantTermClaims"}
  BY DEF Fields
<1>2. norm \in Items /\ claims \in Items /\ items \in [Fields -> Items] /\ Absent \in Items
  BY <1>1, AbsentType DEF SoundItems
<1>3. norm.data \in Seq(Entry) /\ claims.data \in Seq(Entry) /\ n \in Nat \ {0}
  BY <1>2, LenProperties DEF Items
<1>4. moved \in Seq(Entry) /\ Len(moved) \in Nat
  BY <1>3, ConcatProperties, LenProperties
<1>5. [shape |-> <<Len(moved)>>, data |-> moved] \in Items
  <2>. HIDE DEF moved
  <2>1. <<Len(moved)>> \in Seq(Nat)
    BY <1>4
  <2>. QED
    BY <2>1, <1>4 DEF Items
<1>6. Single(claims, 1) \in Items
  BY <1>2, <1>3, SingleType
<1>7. SubSeq(claims.data, 2, n) \in Seq(Entry)
  BY <1>3, SubSeqProperties, ElementOfSeq
<1>8. [shape |-> <<n - 1>>, data |-> SubSeq(claims.data, 2, n)] \in Items
  <2>1. <<n - 1>> \in Seq(Nat)
    BY <1>3
  <2>. QED
    BY <2>1, <1>7 DEF Items
<1>. QED
  <2>1. CASE norm # Absent
    <3>1. Regrouped(items) =
            [items EXCEPT !["projectionNorm"] = Absent,
                          !["constantTermClaims"] =
                             [shape |-> <<Len(moved)>>, data |-> moved]]
      BY <1>1, <2>1 DEF Regrouped
    <3>. HIDE DEF norm, claims, moved, n
    <3>. QED
      BY <3>1, <1>1, <1>2, <1>5, TwoItemsType
  <2>2. CASE norm = Absent
    <3>1. Regrouped(items) =
            [items EXCEPT !["projectionNorm"] = Single(claims, 1),
                          !["constantTermClaims"] =
                             [shape |-> <<n - 1>>, data |-> SubSeq(claims.data, 2, n)]]
      BY <1>1, <2>2 DEF Regrouped
    <3>. HIDE DEF norm, claims, moved, n
    <3>. QED
      BY <3>1, <1>1, <1>2, <1>6, <1>8, TwoItemsType
  <2>. QED
    BY <2>1, <2>2

\* One fault in a round's items leaves items, and one element each for the
\* closing claims.
LEMMA FaultyItemsType ==
    ASSUME NEW items \in [Fields -> SoundItems],
           items["constantTermClaims"] # Absent =>
             Len(items["constantTermClaims"].data) > 0,
           NEW kind, NEW round, NEW got \in FaultyItems(kind, round, items)
    PROVE  /\ got \in [Fields -> Items]
           /\ \A f \in {"z0", "z1"} : Len(got[f].data) = Len(items[f].data)
<1>. DEFINE present == {f \in Fields : items[f] # Absent}
            sized == {f \in present \ SingleElements : Len(items[f].data) > 0}
            Good(g) == /\ g \in [Fields -> Items]
                       /\ \A f \in {"z0", "z1"} : Len(g[f].data) = Len(items[f].data)
<1>1. /\ items \in [Fields -> Items] /\ Absent \in Items
      /\ {"z0", "z1"} \subseteq Fields
  BY AbsentType DEF SoundItems, Fields
<1>2. ASSUME NEW f \in Fields, NEW item \in Items,
             f \in {"z0", "z1"} => Len(item.data) = Len(items[f].data)
      PROVE  Good(OneItem(items, f, item))
  BY <1>1, <1>2 DEF OneItem
<1>3. ASSUME NEW S \in SUBSET (Fields \ {"z0", "z1"}), NEW item \in Items
      PROVE  Good([f \in Fields |-> IF f \in S THEN item ELSE items[f]])
  BY <1>1, <1>3
<1>4. \A f \in sized : f \in Fields /\ f \notin {"z0", "z1"} /\ Len(items[f].data) > 0
  BY DEF SingleElements
<1>. HIDE DEF Good
<1>5. CASE kind = "value"
  <2>1. PICK f \in present :
          \E i \in DOMAIN items[f].data : got = OneItem(items, f, WithValue(items[f], i))
    BY <1>5 DEF FaultyItems
  <2>2. items[f] \in Items
    BY <1>1
  <2>. QED
    BY <2>1, <2>2, <1>2, WithValueType DEF Good
<1>6. CASE kind = "shorter"
  <2>1. PICK f \in sized : got = OneItem(items, f, Popped(items[f]))
    BY <1>6 DEF FaultyItems
  <2>2. items[f] \in SoundItems /\ Popped(items[f]) \in Items
    BY <2>1, <1>4, PoppedType
  <2>. QED
    BY <2>1, <2>2, <1>2, <1>4 DEF Good
<1>7. CASE kind = "longer"
  <2>1. PICK f \in sized : got = OneItem(items, f, Pushed(items[f]))
    BY <1>7 DEF FaultyItems
  <2>2. items[f] \in Items /\ Len(items[f].data) = Entries(items[f].shape)
    BY <1>4 DEF SoundItems
  <2>3. Len(items[f].shape) # 0
    BY <2>2, <1>4 DEF Entries
  <2>4. Pushed(items[f]) \in Items
    BY <2>2, <2>3, PushedType
  <2>. QED
    BY <2>1, <2>4, <1>2, <1>4 DEF Good
<1>8. CASE kind = "transposed"
  <2>1. PICK f \in {g \in present : Len(items[g].shape) > 1} :
          got = OneItem(items, f, Transposed(items[f]))
    BY <1>8 DEF FaultyItems
  <2>2. items[f] \in SoundItems /\ Transposed(items[f]) \in Items
    BY <2>1, TransposedType
  <2>3. Transposed(items[f]).data = items[f].data
    BY <2>2 DEF Transposed, SoundItems, Items
  <2>. QED
    BY <2>1, <2>2, <2>3, <1>2 DEF Good
<1>9. \A group \in OptionalGroups : group \in SUBSET (Fields \ {"z0", "z1"})
  BY DEF OptionalGroups, Fields
<1>10. CASE kind = "missing"
  <2>1. PICK group \in OptionalGroups :
          got = [f \in Fields |-> IF f \in group THEN Absent ELSE items[f]]
    BY <1>10 DEF FaultyItems
  <2>. QED
    BY <2>1, <1>1, <1>3, <1>9 DEF Good
<1>11. CASE kind = "unasked"
  <2>. DEFINE unasked == [shape |-> <<1>>, data |-> <<Foreign>>]
  <2>1. PICK group \in OptionalGroups :
          got = [f \in Fields |-> IF f \in group THEN unasked ELSE items[f]]
    BY <1>11 DEF FaultyItems
  <2>2. unasked \in Items
    BY DEF Items, Foreign, Entry
  <2>. HIDE DEF unasked
  <2>. QED
    BY <2>1, <2>2, <1>3, <1>9 DEF Good
<1>12. CASE kind = "regrouped"
  <2>1. got = Regrouped(items) /\ items["constantTermClaims"] # Absent
    BY <1>12 DEF FaultyItems
  <2>. QED
    BY <2>1, RegroupedType
<1>13. CASE kind \notin {"value", "shorter", "longer", "transposed", "missing",
                         "unasked", "regrouped", "miscounted"}
  BY <1>13 DEF FaultyItems
<1>14. CASE kind = "miscounted"
  <2>1. PICK i \in DOMAIN items["polys"].data :
          got = OneItem(items, "polys", Miscounted(items["polys"], i))
    BY <1>14 DEF FaultyItems
  <2>2. "polys" \in Fields /\ "polys" \notin {"z0", "z1"} /\ items["polys"] \in Items
    BY <1>1 DEF Fields
  <2>3. Miscounted(items["polys"], i) \in Items
    BY <2>2, MiscountedType
  <2>. QED
    BY <2>1, <2>2, <2>3, <1>2 DEF Good
<1>. QED
  BY <1>5, <1>6, <1>7, <1>8, <1>10, <1>11, <1>12, <1>13, <1>14

\* A chain's proof as far as it was decoded: no longer than the chain, of the
\* first round's kind, with its closing claims where there is a sumcheck.
Decoded(c, proof) ==
    /\ proof \in Seq(RoundProofs)
    /\ Len(proof) \in 1..Len(c)
    /\ proof[1].kind = c[1].kind
    /\ \A r \in 1..Len(proof) : c[r].kind # "Simple" =>
         \A f \in {"z0", "z1"} : Len(proof[r].items[f].data) = 1

LEMMA SentIsDecoded ==
    ASSUME NEW c \in Chains, NEW proof, SentProof(c, proof), Len(proof) # 0
    PROVE  Decoded(c, proof)
<1>1. Len(c) \in Nat /\ Len(proof) \in Nat /\ proof \in Seq(RoundProofs)
  BY ChainType, LenProperties DEF SentProof
<1>2. \A n \in Nat : n # 0 => 1 \in 1..n
  OBVIOUS
<1>3. 1 \in 1..Len(proof) /\ \A r \in 1..Len(proof) : r \in 1..Len(c)
  <2>1. 1 \in 1..Len(proof)
    BY <1>1, <1>2, Zenon
  <2>2. \A r \in 1..Len(proof) : r \in 1..Len(c)
    BY <1>1 DEF SentProof
  <2>. QED
    BY <2>1, <2>2
<1>4. \A r \in 1..Len(proof) : c[r].kind # "Simple" =>
         \A f \in {"z0", "z1"} : Len(proof[r].items[f].data) = 1
  <2>. SUFFICES ASSUME NEW r \in 1..Len(proof), c[r].kind # "Simple",
                       NEW f \in {"z0", "z1"}
                PROVE  Len(proof[r].items[f].data) = 1
    OBVIOUS
  <2>1. proof[r].items = Sent(c, r)
    BY SentRound
  <2>. QED
    BY <2>1, <1>3, SentType
<1>5. Len(proof) \in 1..Len(c)
  BY <1>1, <1>3 DEF SentProof
<1>6. proof[1].kind = c[1].kind
  BY <1>3, SentRound
<1>. QED
  BY <1>1, <1>4, <1>5, <1>6 DEF Decoded

LEMMA FaultyProofsType ==
    ASSUME chain \in Chains, NEW proof, SentProof(chain, proof), Len(proof) # 0,
           NEW kind, NEW got \in FaultyProofs(kind, proof)
    PROVE  Decoded(chain, got)
<1>1. Decoded(chain, proof)
  BY SentIsDecoded
<1>2. /\ proof \in Seq(RoundProofs) /\ Len(proof) \in Nat /\ Len(chain) \in Nat
      /\ Len(proof) \in 1..Len(chain) /\ DOMAIN proof = 1..Len(proof)
  BY <1>1, ChainType, LenProperties DEF Decoded
<1>3. \A r \in 1..Len(proof) : proof[r] \in RoundProofs
  BY <1>2, ElementOfSeq
<1>4. CASE kind = "truncated"
  <2>1. PICK n \in 1..(Len(proof) - 1) : got = SubSeq(proof, 1, n)
    BY <1>4 DEF FaultyProofs
  <2>2. \A i \in 1..n : i \in 1..Len(proof)
    BY <1>2
  <2>3. /\ got \in Seq(RoundProofs) /\ Len(got) = n
        /\ \A i \in 1..n : got[i] = proof[i]
    <3>1. \A i \in 1..n : proof[i] \in RoundProofs
      BY <2>2, <1>3
    <3>. QED
      BY <2>1, <3>1, SubSeqProperties
  <2>4. n \in 1..Len(chain) /\ 1 \in 1..n
    BY <1>2
  <2>. QED
    BY <2>2, <2>3, <2>4, <1>1 DEF Decoded
<1>5. CASE kind = "otherKind"
  <2>1. PICK r \in 2..Len(proof), k \in Kinds : got = [proof EXCEPT ![r].kind = k]
    BY <1>5 DEF FaultyProofs
  <2>2. r \in 1..Len(proof) /\ 1 \in 1..Len(proof) /\ r # 1
    BY <1>2
  <2>. DEFINE round == [proof[r] EXCEPT !.kind = k]
  <2>3. proof[r] \in RoundProofs /\ round \in RoundProofs /\ round.items = proof[r].items
    BY <2>2, <1>3 DEF RoundProofs
  <2>. HIDE DEF round
  <2>4. got = [proof EXCEPT ![r] = round]
    BY <2>1 DEF round
  <2>5. /\ got \in Seq(RoundProofs) /\ Len(got) = Len(proof)
        /\ \A i \in 1..Len(proof) : got[i] = IF i = r THEN round ELSE proof[i]
    BY <2>2, <2>3, <2>4, <1>2, ExceptSeq
  <2>6. got[1].kind = chain[1].kind
    BY <2>2, <2>5, <1>1 DEF Decoded
  <2>7. \A i \in 1..Len(proof) : got[i].items = proof[i].items
    BY <2>3, <2>5
  <2>. QED
    BY <2>5, <2>6, <2>7, <1>1 DEF Decoded
<1>6. CASE kind \notin {"truncated", "otherKind"}
  <2>1. PICK r \in DOMAIN proof :
          \E items \in FaultyItems(kind, chain[r], proof[r].items) :
            got = [proof EXCEPT ![r].items = items]
    <3>1. got \in UNION {{[proof EXCEPT ![r].items = items] :
                            items \in FaultyItems(kind, chain[r], proof[r].items)}
                           : r \in DOMAIN proof}
      BY <1>6 DEF FaultyProofs
    <3>. QED
      BY <3>1, Zenon
  <2>2. PICK items \in FaultyItems(kind, chain[r], proof[r].items) :
          got = [proof EXCEPT ![r].items = items]
    BY <2>1
  <2>3. r \in 1..Len(proof) /\ r \in 1..Len(chain) /\ 1 \in 1..Len(proof)
    BY <1>2
  <2>4. proof[r].items = Sent(chain, r)
    BY <2>3, SentRound
  <2>5. /\ items \in [Fields -> Items]
        /\ \A f \in {"z0", "z1"} : Len(items[f].data) = Len(proof[r].items[f].data)
    BY <2>2, <2>3, <2>4, SentType, SentClaimsType, FaultyItemsType
  <2>. DEFINE round == [proof[r] EXCEPT !.items = items]
  <2>6. proof[r] \in RoundProofs
    BY <2>3, <1>3
  <2>7. round \in RoundProofs /\ round.items = items /\ round.kind = proof[r].kind
    BY <2>5, <2>6 DEF RoundProofs
  <2>. HIDE DEF round
  <2>8. got = [proof EXCEPT ![r] = round]
    BY <2>2 DEF round
  <2>9. /\ got \in Seq(RoundProofs) /\ Len(got) = Len(proof)
        /\ \A i \in 1..Len(proof) : got[i] = IF i = r THEN round ELSE proof[i]
    BY <2>3, <2>7, <2>8, <1>2, ExceptSeq
  <2>10. got[1].kind = chain[1].kind
    BY <2>3, <2>7, <2>9, <1>1 DEF Decoded
  <2>11. \A i \in 1..Len(proof), f \in {"z0", "z1"} :
           Len(got[i].items[f].data) = Len(proof[i].items[f].data)
    BY <2>5, <2>7, <2>9
  <2>. QED
    BY <2>9, <2>10, <2>11, <1>1 DEF Decoded
<1>. QED
  BY <1>4, <1>5, <1>6

\* What the verifier may be asked to verify.
LEMMA HonestStatementType ==
    ASSUME chain \in Chains
    PROVE  /\ HonestStatement \in Statements
           /\ Len(RootClaims(chain)) = chain[1].openings
<1>1. 1 \in 1..Len(chain)
  BY ChainType
<1>2. /\ chain[1].openings \in Nat /\ chain[1].cols \in Nat /\ chain[1].rows \in Nat
      /\ chain[1].rank["commitment"] \in Nat
  BY <1>1, ConfigType DEF Roots
<1>3. \A i \in Nat : Claim(<<0, "claim", i>>) \in Claims
  BY DEF Claim, Claims, Entry
<1>4. RootClaims(chain) \in Seq(Claims) /\ Len(RootClaims(chain)) = chain[1].openings
  <2>1. \A n \in Nat : /\ [i \in 1..n |-> Claim(<<0, "claim", i>>)] \in Seq(Claims)
                       /\ Len([i \in 1..n |-> Claim(<<0, "claim", i>>)]) = n
    BY <1>3
  <2>. QED
    BY <2>1, <1>2 DEF RootClaims
<1>5. RootPoint(chain) \in Points
  BY <1>2 DEF RootPoint, Points
<1>6. RootCommitment(chain) \in Items
  BY <1>2, VectorType DEF RootCommitment, Fields, SoundItems
<1>. QED
  BY <1>4, <1>5, <1>6 DEF HonestStatement, Statements

LEMMA FaultyStatementsType ==
    ASSUME chain \in Chains
    PROVE  FaultyStatements \subseteq Statements
<1>. DEFINE claims == RootClaims(chain)
            commitment == RootCommitment(chain)
            n == chain[1].rank["commitment"]
<1>1. 1 \in 1..Len(chain)
  BY ChainType
<1>2. /\ chain[1].openings \in Nat \ {0} /\ n \in Nat \ {0}
  BY <1>1, ConfigType DEF Roots
<1>3. /\ HonestStatement \in Statements
      /\ claims \in Seq(Claims) /\ Len(claims) \in Nat \ {0}
  BY <1>2, HonestStatementType DEF HonestStatement, Statements
<1>4. commitment \in SoundItems /\ Len(commitment.data) = n
  BY <1>2, VectorType DEF RootCommitment, Fields
<1>5. SubSeq(claims, 1, Len(claims) - 1) \in Seq(Claims)
  BY <1>3, SubSeqProperties, ElementOfSeq
<1>6. [claims EXCEPT ![1] = Claim(Foreign)] \in Seq(Claims)
  <2>1. Claim(Foreign) \in Claims
    BY DEF Claim, Claims, Foreign, Entry
  <2>. QED
    BY <2>1, <1>3, ExceptSeq
<1>7. Popped(commitment) \in Items
  BY <1>2, <1>4, PoppedType
<1>8. WithValue(commitment, 1) \in Items
  <2>1. commitment \in Items /\ DOMAIN commitment.data = 1..n
    BY <1>4, LenProperties DEF SoundItems, Items
  <2>2. 1 \in DOMAIN commitment.data
    BY <2>1, <1>2
  <2>. QED
    BY <2>1, <2>2, WithValueType
<1>9. /\ HonestStatement.claims = claims /\ HonestStatement.commitment = commitment
  BY DEF HonestStatement
<1>10. ASSUME NEW s \in FaultyStatements
       PROVE  s \in Statements
  <2>. HIDE DEF claims, commitment
  <2>1. CASE s = [HonestStatement EXCEPT !.claims = SubSeq(@, 1, Len(@) - 1)]
    BY <2>1, <1>3, <1>5, <1>9 DEF Statements
  <2>2. CASE s = [HonestStatement EXCEPT !.claims[1] = Claim(Foreign)]
    BY <2>2, <1>3, <1>6, <1>9 DEF Statements
  <2>3. CASE s = [HonestStatement EXCEPT !.commitment = Popped(@)]
    BY <2>3, <1>3, <1>7, <1>9 DEF Statements
  <2>4. CASE s = [HonestStatement EXCEPT !.commitment = WithValue(@, 1)]
    BY <2>4, <1>3, <1>8, <1>9 DEF Statements
  <2>. QED
    BY <1>10, <2>1, <2>2, <2>3, <2>4 DEF FaultyStatements
<1>. QED
  BY <1>10

-----------------------------------------------------------------------------

ProverWalk ==
    /\ SentProof(chain, pProof)
    /\ pPc \in {"open", "fold", "claims", "poly"} => Len(pProof) = pRound - 1
    /\ pPc \in {"recurse", "done"} => Len(pProof) = pRound
    /\ pPc \in {"claims", "poly", "recurse"} => pCfg.kind # "Simple"

VerifierWalk ==
    /\ vPc # "idle" => Decoded(chain, received) /\ vRound \in 1..Len(received)
    /\ vPc \in {"claims", "poly", "recurse"} => vCfg.kind # "Simple"

ProverInv == ProverTypeOK /\ ProverWalk
VerifierInv == VerifierTypeOK /\ VerifierWalk
TypeInv == ProverInv /\ VerifierInv /\ SessionTypeOK

-----------------------------------------------------------------------------
LEMMA InitTypeInv == Init => TypeInv
<1>. SUFFICES ASSUME Init PROVE TypeInv
  OBVIOUS
<1>1. /\ chain \in Chains /\ Len(chain) \in Nat /\ 1 \in 1..Len(chain)
  BY ChainType DEF Init
<1>2. NoContexts(chain) \in [1..Len(chain) -> BOOLEAN] /\ NoLoads(chain) \in [1..Len(chain) -> Nat]
  BY DEF NoContexts, NoLoads
<1>3. HonestStatement \in Statements
  BY <1>1, HonestStatementType
<1>4. ProverTypeOK
  BY <1>1, <1>2, NewTranscriptType DEF Init, ProverTypeOK, PPhases, Points
<1>5. VerifierTypeOK
  BY <1>1, <1>2, <1>3, NewTranscriptType DEF Init, VerifierTypeOK, VPhases, Reasons, Points
<1>6. SessionTypeOK
  BY <1>1, MaxSessionsAssumption DEF Init, SessionTypeOK
<1>7. ProverWalk
  BY <1>1 DEF Init, ProverWalk, SentProof
<1>8. VerifierWalk
  BY DEF Init, VerifierWalk
<1>. QED
  BY <1>4, <1>5, <1>6, <1>7, <1>8 DEF TypeInv, ProverInv, VerifierInv

-----------------------------------------------------------------------------
(***************************************************************************)
(* The prover's steps.                                                     *)
(***************************************************************************)

\* What a round's stretches absorb and draw keeps the transcript a transcript.
LEMMA ProverItemType ==
    ASSUME SessionTypeOK, ProverTypeOK, NEW f \in Fields
    PROVE  pItem(f) \in Items
BY SentType DEF SessionTypeOK, ProverTypeOK, pItem, SoundItems

LEMMA ProverTranscripts ==
    ASSUME SessionTypeOK, ProverTypeOK, NEW t \in Transcripts(Entry, Labels)
    PROVE  /\ Opened(t) \in Transcripts(Entry, Labels)
           /\ Folded(t) \in Transcripts(Entry, Labels)
           /\ Imaged(t) \in Transcripts(Entry, Labels)
           /\ Claimed(t) \in Transcripts(Entry, Labels)
           /\ Absorb(Absorb(t, pItem("z0")), pItem("z1")) \in Transcripts(Entry, Labels)
<1>. DEFINE T == Transcripts(Entry, Labels)
<1>. USE AbsorbType, DrawType
<1>1. \A f \in {"opening", "coarse", "constantTerm", "batched", "next", "image", "norm",
                "mostInnerNorm", "projectionNorm", "constantTermClaims", "z0", "z1"} :
        pItem(f) \in Items
  BY ProverItemType DEF Fields
<1>2. CommitmentOf(chain, pRound) \in Items
  BY CommitmentOfType DEF SessionTypeOK, ProverTypeOK, SoundItems
<1>3. Labels = {"projection", "batching", "fold", "flattener", "combination", "toField",
                "point"}
  BY DEF Labels
<1>4. Opened(t) \in T
  BY <1>1, <1>2, <1>3 DEF Opened
<1>5. Folded(t) \in T
  <2>1. Absorb(t, pItem("coarse")) \in T
    BY <1>1
  <2>2. Absorb(Draw(Absorb(t, pItem("constantTerm")), "batching"), pItem("batched")) \in T
    BY <1>1, <1>3
  <2>. QED
    BY <1>1, <1>3, <2>1, <2>2 DEF Folded
<1>6. Imaged(t) \in T
  BY <1>1, <1>3, <1>4 DEF Imaged
<1>7. Claimed(t) \in T
  BY <1>1, <1>3 DEF Claimed
<1>8. Absorb(Absorb(t, pItem("z0")), pItem("z1")) \in T
  BY <1>1
<1>. QED
  BY <1>4, <1>5, <1>6, <1>7, <1>8

LEMMA ReversedType ==
    ASSUME NEW s \in Points
    PROVE  Reversed(s) \in Points
<1>1. s \in Seq(Nat) /\ Len(s) \in Nat
  BY LenProperties DEF Points
<1>2. \A i \in 1..Len(s) : s[Len(s) + 1 - i] \in Nat
  <2>1. \A i \in 1..Len(s) : Len(s) + 1 - i \in 1..Len(s)
    BY <1>1
  <2>. QED
    BY <2>1, <1>1, ElementOfSeq
<1>3. \A n \in Nat : \A f : (\A i \in 1..n : f[i] \in Nat) => [i \in 1..n |-> f[i]] \in Seq(Nat)
  OBVIOUS
<1>4. \A i \in 1..Len(s) : Reversed(s)[i] \in Nat
  BY <1>2 DEF Reversed
<1>5. Reversed(s) = [i \in 1..Len(s) |-> Reversed(s)[i]]
  BY DEF Reversed
<1>6. [i \in 1..Len(s) |-> Reversed(s)[i]] \in Seq(Nat)
  BY <1>1, <1>3, <1>4, Zenon
<1>. QED
  BY <1>5, <1>6 DEF Points

\* Every stretch of the prover's rounds keeps its variables typed and its proof
\* in step with the round it is in.
LEMMA ProverStepInv ==
    ASSUME SessionTypeOK, ProverInv, ProverStep, UNCHANGED chain
    PROVE  ProverInv'
<1>. DEFINE c == chain
            T == Transcripts(Entry, Labels)
<1>1. /\ c \in Chains /\ Len(c) \in Nat /\ pRound \in 1..Len(c) /\ ProverTypeOK
      /\ SentProof(c, pProof) /\ pTranscript \in T /\ chain' = c
  BY ChainType DEF SessionTypeOK, ProverInv, ProverTypeOK, ProverWalk
<1>2. pCfg.kind \in {"Sumcheck", "Intermediate", "Simple"}
  BY <1>1, ConfigType DEF pCfg, Kinds
<1>. USE DEF ProverInv, ProverTypeOK, ProverWalk
<1>3. CASE SumcheckOpen
  <2>1. pTranscript' \in T
    BY <1>1, <1>3, ProverTranscripts DEF SumcheckOpen
  <2>. QED
    BY <1>1, <1>3, <2>1 DEF SumcheckOpen, PAdvance, PPhases
<1>4. CASE SumcheckFold
  <2>1. pTranscript' \in T
    BY <1>1, <1>4, ProverTranscripts DEF SumcheckFold
  <2>. QED
    BY <1>1, <1>4, <2>1 DEF SumcheckFold, PAdvance, PPhases, pCfg
<1>5. CASE BasicOpen
  <2>1. pTranscript' \in T
    BY <1>1, <1>5, ProverTranscripts DEF BasicOpen
  <2>. QED
    BY <1>1, <1>5, <2>1 DEF BasicOpen, PAdvance, PPhases
<1>6. CASE IntermediateFold
  <2>1. pItem("batched") \in Items /\ pItem("next") \in Items
    BY <1>1, ProverItemType DEF Fields
  <2>2. pTranscript' \in T
    BY <1>1, <1>6, <2>1, AbsorbType, DrawType DEF IntermediateFold, Labels
  <2>. QED
    BY <1>1, <1>6, <2>2 DEF IntermediateFold, PAdvance, PPhases, pCfg
<1>7. CASE SimpleFold
  <2>1. pItem("batched") \in Items
    BY <1>1, ProverItemType DEF Fields
  <2>2. pTranscript' \in T
    BY <1>1, <1>7, <2>1, AbsorbType, DrawType DEF SimpleFold, Labels
  <2>3. Len(pProof) = pRound - 1 /\ Len(pProof) < Len(c) /\ Len(pProof) + 1 = pRound
    BY <1>1, <1>7 DEF SimpleFold
  <2>4. SentProof(c, pProof') /\ Len(pProof') = pRound
    BY <1>1, <1>7, <2>3, SentProofType DEF SimpleFold, pCfg
  <2>. QED
    BY <1>1, <1>7, <2>2, <2>4 DEF SimpleFold, PPhases, SentProof
<1>8. CASE ProverClaims
  <2>1. pTranscript' \in T
    BY <1>1, <1>8, ProverTranscripts DEF ProverClaims
  <2>2. pSpent' \in [1..Len(c) -> BOOLEAN] /\ pLoads' \in [1..Len(c) -> Nat]
    BY <1>1, <1>8, SMTT(60) DEF ProverClaims, Spend
  <2>. QED
    BY <1>1, <1>8, <2>1, <2>2 DEF ProverClaims, PPhases, pCfg, Points
<1>9. CASE ContextRefused
  BY <1>1, <1>9 DEF ContextRefused, PPhases
<1>10. CASE RoundPoly
  <2>1. pItem("polys") \in Items /\ Len(pItem("polys").data) = pCfg.vars
    BY <1>1, <1>10, ProverItemType, SentType DEF RoundPoly, pItem, pCfg, Fields
  <2>2. pCfg.vars \in Nat /\ Len(pPoints) \in Nat /\ pPoints \in Seq(Nat)
    BY <1>1, ConfigType, LenProperties DEF pCfg, Points
  <2>3. Len(pPoints) + 1 \in 1..Len(pItem("polys").data)
    BY <2>1, <2>2, <1>10 DEF RoundPoly
  <2>4. Single(pItem("polys"), Len(pPoints) + 1) \in Items
    BY <2>1, <2>3, SingleType
  <2>5. pTranscript' \in T
    BY <1>1, <1>10, <2>4, AbsorbType, DrawType DEF RoundPoly, Labels
  <2>6. pPoints' \in Points
    BY <1>1, <1>10, <2>2, LastDrawType, AppendProperties DEF RoundPoly, Points
  <2>. QED
    BY <1>1, <1>10, <2>5, <2>6 DEF RoundPoly, PPhases, pCfg
<1>11. CASE CloseSumcheck
  <2>1. pTranscript' \in T
    BY <1>1, <1>11, ProverTranscripts DEF CloseSumcheck
  <2>2. pPoints' \in Points
    BY <1>1, <1>11, ReversedType DEF CloseSumcheck
  <2>3. Len(pProof) = pRound - 1 /\ Len(pProof) < Len(c) /\ Len(pProof) + 1 = pRound
    BY <1>1, <1>11 DEF CloseSumcheck
  <2>4. SentProof(c, pProof') /\ Len(pProof') = pRound
    BY <1>1, <1>11, <2>3, SentProofType DEF CloseSumcheck, pCfg
  <2>. QED
    BY <1>1, <1>11, <2>1, <2>2, <2>4 DEF CloseSumcheck, PPhases, SentProof, pCfg
<1>12. CASE CaptureBoundary
  <2>1. pCfg.kind # "Simple" /\ pRound + 1 \in Nat
    BY <1>1, <1>12 DEF CaptureBoundary
  <2>2. /\ pItem("z0") \in Items /\ Len(pItem("z0").data) = 1
        /\ pItem("z1") \in Items /\ Len(pItem("z1").data) = 1
    BY <1>1, <2>1, ProverItemType, SentType DEF pItem, pCfg, Fields
  <2>3. Claim(pItem("z0").data[1]) \in Claims /\ Claim(pItem("z1").data[1]) \in Claims
    BY <2>2, OnlyEntryType DEF Claim, Claims
  <2>4. SentCommitment(chain, pRound) \in Items
    BY <1>1, SentCommitmentType DEF SoundItems
  <2>5. pBoundary' \in SUBSET Boundaries
    BY <1>1, <1>12, <2>1, <2>3, <2>4 DEF CaptureBoundary, Boundaries
  <2>. QED
    BY <1>1, <1>12, <2>5 DEF CaptureBoundary, PPhases
<1>13. CASE BoundaryRefused
  BY <1>1, <1>13 DEF BoundaryRefused, PPhases
<1>14. CASE Descend
  <2>1. pRound' \in 1..Len(c) /\ pRound' = pRound + 1
    BY <1>1, <1>14 DEF Descend, HasNext, Last
  <2>2. pStatement' \in Seq(Points)
    BY <1>1, <1>14, AppendProperties DEF Descend
  <2>3. pCut' \in Nat
    BY <1>1, <1>14 DEF Descend, Advanced
  <2>. QED
    BY <1>1, <1>14, <2>1, <2>2, <2>3 DEF Descend, PPhases
<1>15. CASE FinishChain
  BY <1>1, <1>15 DEF FinishChain, PPhases
<1>. QED
  BY <1>3, <1>4, <1>5, <1>6, <1>7, <1>8, <1>9, <1>10, <1>11, <1>12, <1>13, <1>14, <1>15
  DEF ProverStep

-----------------------------------------------------------------------------
(***************************************************************************)
(* The verifier's steps.                                                   *)
(***************************************************************************)
LEMMA VerifierItemType ==
    ASSUME VerifierInv, vPc # "idle"
    PROVE  /\ vRound \in 1..Len(received)
           /\ \A f \in Fields : vItem(f) \in Items
           /\ vCfg.kind # "Simple" =>
                \A f \in {"z0", "z1"} : Len(vItem(f).data) = 1
<1>1. /\ received \in Seq(RoundProofs) /\ vRound \in 1..Len(received)
      /\ Decoded(chain, received)
  BY DEF VerifierInv, VerifierTypeOK, VerifierWalk
<1>2. received[vRound] \in RoundProofs
  BY <1>1, ElementOfSeq
<1>3. \A f \in Fields : vItem(f) \in Items
  BY <1>2 DEF RoundProofs, vItem, vProof
<1>4. vCfg.kind # "Simple" => \A f \in {"z0", "z1"} : Len(vItem(f).data) = 1
  BY <1>1 DEF Decoded, vItem, vProof, vCfg
<1>. QED
  BY <1>1, <1>3, <1>4

LEMMA VerifierTranscripts ==
    ASSUME VerifierInv, vPc # "idle", NEW t \in Transcripts(Entry, Labels)
    PROVE  /\ VOpened(t) \in Transcripts(Entry, Labels)
           /\ VFolded(t) \in Transcripts(Entry, Labels)
           /\ VImaged(t) \in Transcripts(Entry, Labels)
           /\ VClaimed(t) \in Transcripts(Entry, Labels)
           /\ VClosed(t) \in Transcripts(Entry, Labels)
<1>. DEFINE T == Transcripts(Entry, Labels)
<1>. USE AbsorbType, DrawType
<1>1. \A f \in {"opening", "coarse", "constantTerm", "batched", "next", "image", "norm",
                "mostInnerNorm", "projectionNorm", "constantTermClaims", "z0", "z1"} :
        vItem(f) \in Items
  BY VerifierItemType DEF Fields
<1>2. vStatement.commitment \in Items
  BY DEF VerifierInv, VerifierTypeOK, Statements
<1>3. Labels = {"projection", "batching", "fold", "flattener", "combination", "toField",
                "point"}
  BY DEF Labels
<1>4. VOpened(t) \in T
  BY <1>1, <1>2, <1>3 DEF VOpened
<1>5. VFolded(t) \in T
  <2>1. Absorb(t, vItem("coarse")) \in T
    BY <1>1
  <2>2. Absorb(Draw(Absorb(Absorb(t, vItem("coarse")), vItem("constantTerm")), "batching"),
               vItem("batched")) \in T
    BY <1>1, <1>3, <2>1
  <2>. QED
    BY <1>1, <1>3, <2>1, <2>2 DEF VFolded
<1>6. VImaged(t) \in T
  BY <1>1, <1>3, <1>4 DEF VImaged
<1>7. VClaimed(t) \in T
  BY <1>1, <1>3 DEF VClaimed, VFlattened
<1>8. VClosed(t) \in T
  BY <1>1 DEF VClosed
<1>. QED
  BY <1>4, <1>5, <1>6, <1>7, <1>8

LEMMA NextClaimsType ==
    ASSUME VerifierInv, vPc = "recurse"
    PROVE  NextClaims \in Seq(Claims)
<1>1. vCfg.kind # "Simple" /\ vPc # "idle"
  BY DEF VerifierInv, VerifierWalk
<1>2. /\ vItem("z0") \in Items /\ Len(vItem("z0").data) = 1
      /\ vItem("z1") \in Items /\ Len(vItem("z1").data) = 1
  BY <1>1, VerifierItemType DEF Fields
<1>3. Claim(vItem("z0").data[1]) \in Claims /\ Claim(vItem("z1").data[1]) \in Claims
  BY <1>2, OnlyEntryType DEF Claim, Claims
<1>4. Conjugate(Claim(vItem("z1").data[1])) \in Claims
  BY <1>3 DEF Conjugate, Claims
<1>. QED
  BY <1>3, <1>4 DEF NextClaims

\* Rejecting leaves everything but the outcome as it is.
LEMMA RejectInv ==
    ASSUME SessionTypeOK, VerifierInv, vPc # "idle", NEW reason \in Reasons,
           VReject(reason), UNCHANGED <<chain, received>>
    PROVE  VerifierInv'
BY DEF VerifierInv, VerifierTypeOK, VerifierWalk, VReject, VPhases, vCfg

LEMMA VerifierStepInv ==
    ASSUME SessionTypeOK, VerifierInv, vPc # "idle",
           NEW holds \in BOOLEAN, VerifierStep(holds), UNCHANGED <<chain, received>>
    PROVE  VerifierInv'
<1>. DEFINE c == chain
            T == Transcripts(Entry, Labels)
<1>1. /\ c \in Chains /\ Len(c) \in Nat /\ vRound \in 1..Len(c) /\ VerifierTypeOK
      /\ vRound \in 1..Len(received) /\ Decoded(c, received)
      /\ vTranscript \in T /\ chain' = c /\ received' = received
  BY ChainType DEF SessionTypeOK, VerifierInv, VerifierTypeOK, VerifierWalk
<1>2. vCfg.kind \in {"Sumcheck", "Intermediate", "Simple"}
  BY <1>1, ConfigType DEF vCfg, Kinds
<1>3. \A reason \in {"shape", "context", "equation", "chain"} :
        VReject(reason) => VerifierInv'
  BY RejectInv DEF Reasons
<1>4. Spend(vSpent, vRound) \in [1..Len(c) -> BOOLEAN]
  BY <1>1 DEF VerifierTypeOK, Spend
<1>. USE DEF VerifierInv, VerifierTypeOK, VerifierWalk
<1>5. CASE CheckShape
  BY <1>1, <1>3, <1>5 DEF CheckShape, VAdvance, VPhases
<1>6. CASE VSumcheckOpen
  <2>1. vTranscript' \in T
    BY <1>1, <1>6, VerifierTranscripts DEF VSumcheckOpen
  <2>. QED
    BY <1>1, <1>4, <1>6, <2>1 DEF VSumcheckOpen, VPhases
<1>7. CASE VContextRefused
  BY <1>3, <1>7 DEF VContextRefused
<1>8. CASE VSumcheckFold
  <2>1. vTranscript' \in T
    BY <1>1, <1>8, VerifierTranscripts DEF VSumcheckFold
  <2>. QED
    BY <1>1, <1>8, <2>1 DEF VSumcheckFold, VAdvance, VPhases, vCfg
<1>9. CASE VSumcheckClaims(holds)
  <2>1. CASE holds
    <3>1. vTranscript' \in T
      BY <1>1, <1>9, <2>1, VerifierTranscripts DEF VSumcheckClaims
    <3>. QED
      BY <1>1, <1>9, <2>1, <3>1 DEF VSumcheckClaims, VPhases, Points, vCfg
  <2>2. CASE ~holds
    BY <1>3, <1>9, <2>2 DEF VSumcheckClaims
  <2>. QED
    BY <2>1, <2>2
<1>10. CASE VBasicOpen
  <2>1. vTranscript' \in T
    BY <1>1, <1>10, VerifierTranscripts DEF VBasicOpen
  <2>. QED
    BY <1>1, <1>10, <2>1 DEF VBasicOpen, VAdvance, VPhases
<1>11. CASE VIntermediateFold(holds)
  <2>1. CASE holds
    <3>1. vItem("batched") \in Items /\ vItem("next") \in Items
      BY VerifierItemType DEF Fields
    <3>2. vTranscript' \in T
      BY <1>1, <1>11, <2>1, <3>1, AbsorbType, DrawType DEF VIntermediateFold, Labels
    <3>. QED
      BY <1>1, <1>11, <2>1, <3>2 DEF VIntermediateFold, VAdvance, VPhases, vCfg
  <2>2. CASE ~holds
    BY <1>3, <1>11, <2>2 DEF VIntermediateFold
  <2>. QED
    BY <2>1, <2>2
<1>12. CASE VIntermediateClaims(holds)
  <2>1. CASE holds
    <3>1. vItem("norm") \in Items
      BY VerifierItemType DEF Fields
    <3>2. vTranscript' \in T
      BY <1>1, <1>12, <2>1, <3>1, AbsorbType, DrawType DEF VIntermediateClaims, Labels
    <3>. QED
      BY <1>1, <1>4, <1>12, <2>1, <3>2 DEF VIntermediateClaims, VPhases, Points, vCfg
  <2>2. CASE ~holds
    BY <1>1, <1>4, <1>12, <2>2 DEF VIntermediateClaims, VPhases, Reasons
  <2>. QED
    BY <2>1, <2>2
<1>13. CASE VSimpleFold
  <2>1. vItem("batched") \in Items
    BY VerifierItemType DEF Fields
  <2>2. vTranscript' \in T
    BY <1>1, <1>13, <2>1, AbsorbType, DrawType DEF VSimpleFold, Labels
  <2>. QED
    BY <1>1, <1>13, <2>2 DEF VSimpleFold, VAdvance, VPhases
<1>14. CASE VSimpleClose(holds)
  <2>1. CASE holds
    BY <1>1, <1>14, <2>1 DEF VSimpleClose, VPhases
  <2>2. CASE ~holds
    BY <1>3, <1>14, <2>2 DEF VSimpleClose
  <2>. QED
    BY <2>1, <2>2
<1>15. CASE VRoundPoly(holds)
  <2>1. CASE holds
    <3>1. vItem("polys") \in Items
      BY VerifierItemType DEF Fields
    <3>2. Len(vPoints) \in Nat /\ Len(vItem("polys").data) \in Nat /\ vPoints \in Seq(Nat)
      BY <3>1, LenProperties DEF Items, Points
    <3>3. Len(vPoints) + 1 \in 1..Len(vItem("polys").data)
      BY <3>2, <1>15 DEF VRoundPoly
    <3>4. Single(vItem("polys"), Len(vPoints) + 1) \in Items
      BY <3>1, <3>3, SingleType
    <3>5. vTranscript' \in T
      BY <1>1, <1>15, <2>1, <3>4, AbsorbType, DrawType DEF VRoundPoly, Labels
    <3>6. vPoints' \in Points
      <4>1. LastDraw(vTranscript) + 1 \in Nat
        BY <1>1, LastDrawType
      <4>2. vPoints' = Append(vPoints, LastDraw(vTranscript) + 1)
        BY <1>15, <2>1 DEF VRoundPoly
      <4>. QED
        BY <3>2, <4>1, <4>2, AppendProperties DEF Points
    <3>. QED
      BY <1>1, <1>15, <2>1, <3>5, <3>6 DEF VRoundPoly, VPhases, vCfg
  <2>2. CASE ~holds
    BY <1>3, <1>15, <2>2 DEF VRoundPoly
  <2>. QED
    BY <2>1, <2>2
<1>16. CASE VCloseSumcheck(holds)
  <2>1. vLoads' \in [1..Len(c) -> Nat]
    BY <1>1, <1>16 DEF VCloseSumcheck
  <2>2. CASE holds
    <3>1. vTranscript' \in T
      BY <1>1, <1>16, <2>2, VerifierTranscripts DEF VCloseSumcheck
    <3>2. vPoints' \in Points
      BY <1>1, <1>16, <2>2, ReversedType DEF VCloseSumcheck
    <3>. QED
      BY <1>1, <1>16, <2>1, <2>2, <3>1, <3>2 DEF VCloseSumcheck, VPhases, vCfg
  <2>3. CASE ~holds
    BY <1>1, <1>16, <2>1, <2>3 DEF VCloseSumcheck, VPhases, Reasons
  <2>. QED
    BY <2>2, <2>3
<1>17. CASE VCaptureBoundary
  <2>1. NextClaims \in Seq(Claims)
    BY <1>17, NextClaimsType DEF VCaptureBoundary
  <2>2. vItem("next") \in Items /\ vRound + 1 \in Nat
    BY <1>1, VerifierItemType DEF Fields
  <2>3. vBoundary' \in SUBSET Boundaries
    BY <1>1, <1>17, <2>1, <2>2 DEF VCaptureBoundary, Boundaries
  <2>. QED
    BY <1>1, <1>17, <2>3 DEF VCaptureBoundary, VPhases
<1>18. CASE VDescend
  <2>1. vRound' = vRound + 1 /\ vRound' \in 1..Len(c) /\ vRound' \in 1..Len(received)
    <3>1. Len(received) \in Nat
      BY LenProperties
    <3>. QED
      BY <1>1, <1>18, <3>1 DEF VDescend, MayDescend, HasNext, Last
  <2>2. NextClaims \in Seq(Claims)
    BY <1>18, NextClaimsType DEF VDescend
  <2>3. vItem("next") \in Items
    BY VerifierItemType DEF Fields
  <2>4. vStatement' \in Statements
    BY <1>1, <1>18, <2>2, <2>3 DEF VDescend, Statements
  <2>5. vCut' \in Nat
    BY <1>1, <1>18 DEF VDescend, Advanced
  <2>. QED
    BY <1>1, <1>18, <2>1, <2>4, <2>5 DEF VDescend, VPhases
<1>19. CASE VAcceptChain
  BY <1>1, <1>19 DEF VAcceptChain, VPhases
<1>20. CASE VChainRefused
  BY <1>3, <1>20 DEF VChainRefused
<1>. QED
  BY <1>5, <1>6, <1>7, <1>8, <1>9, <1>10, <1>11, <1>12, <1>13, <1>14, <1>15, <1>16, <1>17,
     <1>18, <1>19, <1>20
  DEF VerifierStep

-----------------------------------------------------------------------------
(***************************************************************************)
(* The sessions.                                                           *)
(***************************************************************************)
LEMMA ProveInv ==
    ASSUME TypeInv, Prove
    PROVE  TypeInv'
<1>. DEFINE c == chain
<1>1. /\ c \in Chains /\ Len(c) \in Nat /\ 1 \in 1..Len(c) /\ chain' = c
      /\ ProverTypeOK /\ VerifierTypeOK /\ SessionTypeOK
  BY ChainType DEF TypeInv, ProverInv, VerifierInv, SessionTypeOK, Prove
<1>2. PICK fresh \in BOOLEAN, cut \in Cuts :
        /\ ProverStart(fresh, cut)
        /\ asked' = [asked EXCEPT !.pFresh = fresh, !.pCut = cut]
  BY DEF Prove
<1>3. cut \in Nat
  BY CutsAssumption
<1>4. /\ c[1].cols \in Nat /\ c[1].rows \in Nat
  BY <1>1, ConfigType
<1>5. RootPoint(c) \in Points
  BY <1>4 DEF RootPoint, Points
<1>6. NoContexts(c) \in [1..Len(c) -> BOOLEAN] /\ NoLoads(c) \in [1..Len(c) -> Nat]
  BY DEF NoContexts, NoLoads
<1>7. ProverTypeOK'
  BY <1>1, <1>2, <1>3, <1>5, <1>6, NewTranscriptType
  DEF ProverTypeOK, ProverStart, PPhases, Points
<1>8. ProverWalk'
  BY <1>1, <1>2 DEF ProverStart, ProverWalk, SentProof
<1>9. VerifierTypeOK'
  BY <1>1 DEF Prove, VerifierTypeOK, VPhases, Reasons
<1>10. VerifierWalk'
  BY DEF Prove, VerifierWalk
<1>11. SessionTypeOK'
  <2>1. sessions' \in 0..MaxSessions
    BY <1>1, MaxSessionsAssumption DEF Prove, SessionTypeOK
  <2>2. asked' \in [pFresh : BOOLEAN, vFresh : BOOLEAN, pCut : Nat, vCut : Nat]
    BY <1>1, <1>2, <1>3 DEF SessionTypeOK
  <2>. QED
    BY <1>1, <2>1, <2>2 DEF Prove, SessionTypeOK
<1>. QED
  BY <1>7, <1>8, <1>9, <1>10, <1>11 DEF TypeInv, ProverInv, VerifierInv

LEMMA DeliverInv ==
    ASSUME TypeInv, Deliver
    PROVE  TypeInv'
<1>. DEFINE c == chain
<1>1. /\ c \in Chains /\ Len(c) \in Nat /\ 1 \in 1..Len(c) /\ chain' = c
      /\ ProverInv /\ ProverTypeOK /\ VerifierTypeOK /\ SessionTypeOK
      /\ SentProof(c, pProof) /\ Len(pProof) = pRound /\ pRound \in 1..Len(c)
  BY ChainType
  DEF TypeInv, ProverInv, ProverTypeOK, ProverWalk, VerifierInv, SessionTypeOK, Deliver
<1>2. Len(pProof) # 0
  BY <1>1
<1>3. PICK fresh \in BOOLEAN, cut \in Cuts :
        /\ asked' = [asked EXCEPT !.vFresh = fresh, !.vCut = cut]
        /\ \/ /\ received' = pProof
              /\ VerifierStart(fresh, cut, HonestStatement)
              /\ fault' = "none"
           \/ /\ fault' \in Faults \ {"statement"}
              /\ received' \in FaultyProofs(fault', pProof)
              /\ VerifierStart(fresh, cut, HonestStatement)
           \/ /\ "statement" \in Faults
              /\ fault' = "statement"
              /\ received' = pProof
              /\ \E statement \in FaultyStatements : VerifierStart(fresh, cut, statement)
  BY DEF Deliver
<1>4. cut \in Nat
  BY CutsAssumption
<1>5. Decoded(c, pProof)
  BY <1>1, <1>2, SentIsDecoded
<1>6. Decoded(c, received')
  BY <1>1, <1>2, <1>3, <1>5, FaultyProofsType
<1>7. fault' \in FaultKinds \cup {"none"}
  BY <1>3, FaultsAssumption
<1>8. PICK statement \in Statements : VerifierStart(fresh, cut, statement)
  BY <1>1, <1>3, HonestStatementType, FaultyStatementsType
<1>9. received' \in Seq(RoundProofs) /\ Len(received') \in Nat /\ Len(received') \in 1..Len(c)
  BY <1>6, LenProperties DEF Decoded
<1>10. VerifierTypeOK'
  BY <1>1, <1>4, <1>8, <1>9, NewTranscriptType
  DEF VerifierTypeOK, VerifierStart, VPhases, Reasons, Points
<1>11. VerifierWalk'
  <2>1. vPc' = "shape" /\ vRound' = 1
    BY <1>8 DEF VerifierStart
  <2>2. vRound' \in 1..Len(received')
    BY <1>9, <2>1
  <2>. QED
    BY <1>1, <1>6, <2>1, <2>2 DEF VerifierWalk
<1>12. SessionTypeOK'
  BY <1>1, <1>3, <1>4, <1>7 DEF Deliver, SessionTypeOK
<1>13. ProverInv'
  BY <1>1 DEF Deliver, proverVars, ProverInv, ProverTypeOK, ProverWalk, pCfg
<1>. QED
  BY <1>10, <1>11, <1>12, <1>13 DEF TypeInv, VerifierInv

LEMMA NextTypeInv == TypeInv /\ [Next]_vars => TypeInv'
<1>. SUFFICES ASSUME TypeInv, [Next]_vars PROVE TypeInv'
  OBVIOUS
<1>. USE DEF TypeInv
<1>1. CASE Prove
  BY <1>1, ProveInv
<1>2. CASE Deliver
  BY <1>2, DeliverInv
<1>3. CASE ProverWorks
  <2>1. ProverInv'
    BY <1>3, ProverStepInv DEF ProverWorks
  <2>. QED
    BY <1>3, <2>1
    DEF ProverWorks, verifierVars, VerifierInv, VerifierTypeOK, VerifierWalk, SessionTypeOK,
        vCfg
<1>4. CASE VerifierWorks
  <2>1. PICK holds \in BOOLEAN : VerifierStep(holds)
    BY <1>4 DEF VerifierWorks, Outcomes
  <2>2. vPc # "idle" /\ UNCHANGED <<chain, received>>
    BY <1>4 DEF VerifierWorks, VRunning
  <2>3. VerifierInv'
    BY <2>1, <2>2, VerifierStepInv
  <2>. QED
    BY <1>4, <2>3
    DEF VerifierWorks, proverVars, ProverInv, ProverTypeOK, ProverWalk, SessionTypeOK, pCfg
<1>5. CASE NoMoreSessions \/ UNCHANGED vars
  BY <1>5
  DEF NoMoreSessions, vars, proverVars, verifierVars, ProverInv, ProverTypeOK, ProverWalk,
      VerifierInv, VerifierTypeOK, VerifierWalk, SessionTypeOK, pCfg, vCfg
<1>. QED
  BY <1>1, <1>2, <1>3, <1>4, <1>5 DEF Next

THEOREM TypeInvariant == Spec => []TypeInv
BY InitTypeInv, NextTypeInv, PTL DEF Spec

\* The type invariant TypeOK of the chain of rounds: prover_round and its kin
\* never count a cut below zero, walk past the configuration or build a proof
\* of another form, and the verifier reads every claim out of an item that has
\* it, whatever of the received items is missing, longer or of another shape.
THEOREM TypeCorrect == Spec => []TypeOK
<1>1. TypeInv => TypeOK
  BY DEF TypeInv, ProverInv, VerifierInv, TypeOK
<1>. QED
  BY <1>1, TypeInvariant, PTL

-----------------------------------------------------------------------------
(***************************************************************************)
(* A context serves one proof.  A load is paid for by the spent flag: the  *)
(* prover raises it in the step that loads, the verifier some steps before *)
(* it loads, so the flag of the round it is in is up and its context still *)
(* empty while its sumcheck runs.                                          *)
(***************************************************************************)
InSumcheck ==
    vPc = "poly" \/ (vPc \in {"fold", "claims"} /\ vCfg.kind = "Sumcheck")

\* A context that was loaded was loaded once, and is spent.
LoadedOnce(loads, spent) ==
    \A r \in 1..Len(chain) : loads[r] = 0 \/ (loads[r] = 1 /\ spent[r])

ContextInv ==
    /\ LoadedOnce(pLoads, pSpent)
    /\ LoadedOnce(vLoads, vSpent)
    /\ InSumcheck => vSpent[vRound] /\ vLoads[vRound] = 0

LEMMA InitContextInv == Init => ContextInv
BY DEF Init, ContextInv, LoadedOnce, InSumcheck, NoContexts, NoLoads

LEMMA ProverContexts ==
    ASSUME TypeInv, LoadedOnce(pLoads, pSpent), ProverStep, UNCHANGED chain
    PROVE  LoadedOnce(pLoads, pSpent)'
<1>1. /\ pRound \in 1..Len(chain)
      /\ pSpent \in [1..Len(chain) -> BOOLEAN] /\ pLoads \in [1..Len(chain) -> Nat]
  BY DEF TypeInv, ProverInv, ProverTypeOK
<1>2. CASE ProverClaims
  BY <1>1, <1>2 DEF ProverClaims, LoadedOnce, Spend
<1>3. CASE UNCHANGED <<pSpent, pLoads>>
  BY <1>3 DEF LoadedOnce
<1>4. ProverClaims \/ UNCHANGED <<pSpent, pLoads>>
  BY DEF ProverStep, SumcheckOpen, SumcheckFold, BasicOpen, IntermediateFold, SimpleFold,
         ContextRefused, RoundPoly, CloseSumcheck, CaptureBoundary, BoundaryRefused,
         Descend, FinishChain, PAdvance
<1>. QED
  BY <1>2, <1>3, <1>4

LEMMA VerifierContexts ==
    ASSUME TypeInv, ContextInv, VRunning, NEW holds \in BOOLEAN, VerifierStep(holds),
           UNCHANGED <<chain, received>>
    PROVE  /\ LoadedOnce(vLoads, vSpent)'
           /\ InSumcheck' => vSpent'[vRound'] /\ vLoads'[vRound'] = 0
<1>1. /\ vRound \in 1..Len(chain)
      /\ vSpent \in [1..Len(chain) -> BOOLEAN] /\ vLoads \in [1..Len(chain) -> Nat]
      /\ vPc \in {"claims", "poly", "recurse"} => vCfg.kind # "Simple"
  BY DEF TypeInv, VerifierInv, VerifierTypeOK, VerifierWalk
<1>2. LoadedOnce(vLoads, vSpent) /\ (InSumcheck => vSpent[vRound] /\ vLoads[vRound] = 0)
  BY DEF ContextInv
<1>3. CASE VSumcheckOpen
  BY <1>1, <1>2, <1>3 DEF VSumcheckOpen, LoadedOnce, Spend, InSumcheck
<1>4. CASE VIntermediateClaims(holds)
  BY <1>1, <1>2, <1>4 DEF VIntermediateClaims, LoadedOnce, Spend, InSumcheck
<1>5. CASE VCloseSumcheck(holds)
  <2>1. vPc' \in {"recurse", "rejected"} /\ UNCHANGED <<vSpent, vRound>>
    BY <1>5 DEF VCloseSumcheck
  <2>2. vSpent[vRound] /\ vLoads[vRound] = 0 /\ vLoads' = [vLoads EXCEPT ![vRound] = @ + 1]
    BY <1>2, <1>5 DEF VCloseSumcheck, InSumcheck
  <2>. QED
    BY <1>1, <1>2, <2>1, <2>2 DEF LoadedOnce, InSumcheck
<1>6. CASE VSumcheckFold \/ VSumcheckClaims(holds) \/ VRoundPoly(holds)
  <2>1. UNCHANGED <<vSpent, vLoads, vRound, chain>>
    BY <1>6 DEF VSumcheckFold, VSumcheckClaims, VRoundPoly, VAdvance, VReject
  <2>2. InSumcheck
    BY <1>6 DEF VSumcheckFold, VSumcheckClaims, VRoundPoly, InSumcheck
  <2>. QED
    BY <1>2, <2>1, <2>2 DEF LoadedOnce
<1>7. CASE \/ CheckShape \/ VContextRefused \/ VBasicOpen \/ VIntermediateFold(holds)
           \/ VSimpleFold \/ VSimpleClose(holds) \/ VCaptureBoundary \/ VDescend
           \/ VAcceptChain \/ VChainRefused
  <2>1. UNCHANGED <<vSpent, vLoads, chain>>
    BY <1>7
    DEF CheckShape, VContextRefused, VBasicOpen, VIntermediateFold, VSimpleFold,
        VSimpleClose, VCaptureBoundary, VDescend, VAcceptChain, VChainRefused, VAdvance,
        VReject
  <2>2. ~InSumcheck'
    BY <1>1, <1>7
    DEF CheckShape, VContextRefused, VBasicOpen, VIntermediateFold, VSimpleFold,
        VSimpleClose, VCaptureBoundary, VDescend, VAcceptChain, VChainRefused, VAdvance,
        VReject, InSumcheck, vCfg
  <2>. QED
    BY <1>2, <2>1, <2>2 DEF LoadedOnce
<1>. QED
  BY <1>3, <1>4, <1>5, <1>6, <1>7 DEF VerifierStep

LEMMA NextContextInv == TypeInv /\ ContextInv /\ [Next]_vars => ContextInv'
<1>. SUFFICES ASSUME TypeInv, ContextInv, [Next]_vars PROVE ContextInv'
  OBVIOUS
<1>1. CASE Prove
  BY <1>1
  DEF Prove, ProverStart, ContextInv, LoadedOnce, InSumcheck, NoContexts, NoLoads
<1>2. CASE Deliver
  <2>1. PICK fresh, cut, statement : fresh \in BOOLEAN /\ VerifierStart(fresh, cut, statement)
    BY <1>2 DEF Deliver
  <2>2. LoadedOnce(vLoads, vSpent)' /\ ~InSumcheck'
    BY <1>2, <2>1 DEF Deliver, VerifierStart, ContextInv, LoadedOnce, InSumcheck
  <2>3. LoadedOnce(pLoads, pSpent)'
    BY <1>2 DEF Deliver, proverVars, ContextInv, LoadedOnce
  <2>. QED
    BY <2>2, <2>3 DEF ContextInv
<1>3. CASE ProverWorks
  <2>1. LoadedOnce(pLoads, pSpent)'
    BY <1>3, ProverContexts DEF ProverWorks, ContextInv
  <2>. QED
    BY <1>3, <2>1
    DEF ProverWorks, verifierVars, ContextInv, LoadedOnce, InSumcheck, vCfg
<1>4. CASE VerifierWorks
  <2>1. PICK holds \in BOOLEAN : VerifierStep(holds)
    BY <1>4 DEF VerifierWorks, Outcomes
  <2>2. /\ LoadedOnce(vLoads, vSpent)'
        /\ InSumcheck' => vSpent'[vRound'] /\ vLoads'[vRound'] = 0
    BY <1>4, <2>1, VerifierContexts DEF VerifierWorks
  <2>. QED
    BY <1>4, <2>2 DEF VerifierWorks, proverVars, ContextInv, LoadedOnce
<1>5. CASE NoMoreSessions \/ UNCHANGED vars
  BY <1>5
  DEF NoMoreSessions, vars, proverVars, verifierVars, ContextInv, LoadedOnce, InSumcheck,
      vCfg
<1>. QED
  BY <1>1, <1>2, <1>3, <1>4, <1>5 DEF Next

\* ContextServesOneProof, for every chain and any number of sessions: prover
\* and verifier load no round's sumcheck context twice, the spent flag of
\* sumcheck, sumcheck_verifier and their intermediate counterparts being
\* raised before any load and lowered by a rebuild only.
THEOREM ContextsServeOneProof == Spec => []ContextServesOneProof
<1>1. ContextInv => ContextServesOneProof
  BY DEF ContextInv, LoadedOnce, ContextServesOneProof
<1>. QED
  BY <1>1, TypeInvariant, InitContextInv, NextContextInv, PTL DEF Spec

-----------------------------------------------------------------------------
(***************************************************************************)
(* An accepted proof was checked to its end.  While the verifier walks,    *)
(* what is left of its cut and the round it is in add up to the cut it was *)
(* asked for, a cut is only carried through sumcheck rounds, and the       *)
(* rounds walked have the kinds the configuration gives them.              *)
(***************************************************************************)
KindsWalked == \A r \in 1..vRound : received[r].kind = chain[r].kind

CutLeft ==
    /\ asked.vCut = 0 => vCut = 0
    /\ asked.vCut # 0 => vCut # 0 /\ vRound + vCut = asked.vCut + 1
    /\ vCut # 0 => vCfg.kind = "Sumcheck"

WalkInv ==
    /\ VRunning => KindsWalked /\ CutLeft
    /\ AcceptedRanWholeChain

\* A simple round is the last of the chain and of the proof.
LEMMA SimpleIsLast ==
    ASSUME TypeInv, vPc # "idle", vCfg.kind = "Simple"
    PROVE  vRound = Len(chain) /\ Len(received) = Len(chain)
<1>1. /\ chain \in Chains /\ Len(chain) \in Nat /\ vRound \in 1..Len(chain)
      /\ Len(received) \in 1..Len(chain) /\ vRound \in 1..Len(received)
  BY ChainType
  DEF TypeInv, SessionTypeOK, VerifierInv, VerifierTypeOK, VerifierWalk, Decoded
<1>2. ~(vRound < Len(chain))
  BY <1>1, ChainOrder DEF vCfg
<1>. QED
  BY <1>1, <1>2

LEMMA VerifierWalkInv ==
    ASSUME TypeInv, WalkInv, VRunning, NEW holds \in BOOLEAN, VerifierStep(holds),
           UNCHANGED <<chain, received, asked>>
    PROVE  WalkInv'
<1>1. /\ chain \in Chains /\ Len(chain) \in Nat /\ vRound \in 1..Len(chain)
      /\ Len(received) \in 1..Len(chain) /\ vRound \in 1..Len(received)
      /\ vCut \in Nat /\ asked.vCut \in Nat
  BY ChainType
  DEF TypeInv, SessionTypeOK, VerifierInv, VerifierTypeOK, VerifierWalk, Decoded, VRunning
<1>2. KindsWalked /\ CutLeft /\ vPc # "idle"
  BY DEF WalkInv, VRunning
<1>3. CASE vPc' \notin {"idle", "accepted", "rejected"} /\ UNCHANGED <<vRound, vCut>>
  BY <1>2, <1>3
  DEF WalkInv, VRunning, KindsWalked, CutLeft, AcceptedRanWholeChain, vCfg
<1>4. CASE vPc' = "rejected"
  BY <1>4 DEF WalkInv, VRunning, AcceptedRanWholeChain
<1>5. CASE VSimpleClose(TRUE)
  <2>1. /\ vPc' = "accepted" /\ vCfg.kind = "Simple"
        /\ UNCHANGED <<vRound, vCut, vBoundary>>
    BY <1>5 DEF VSimpleClose
  <2>2. asked.vCut = 0
    BY <1>2, <2>1 DEF CutLeft
  <2>3. vRound = Len(chain) /\ Len(received) = Len(chain)
    BY <1>2, <2>1, SimpleIsLast
  <2>. QED
    BY <1>2, <2>1, <2>2, <2>3 DEF WalkInv, VRunning, KindsWalked, AcceptedRanWholeChain
<1>6. CASE VCaptureBoundary
  <2>1. /\ vPc' = "accepted" /\ vCut = 1 /\ vBoundary' # {} /\ UNCHANGED vRound
        /\ HasNext(chain, vRound) /\ chain[vRound + 1].kind = "Sumcheck"
    BY <1>6 DEF VCaptureBoundary, VAtCut, VNextIsSumcheck
  <2>2. asked.vCut # 0 /\ vRound = asked.vCut
    BY <1>1, <1>2, <2>1 DEF CutLeft
  <2>. QED
    BY <1>2, <2>1, <2>2 DEF WalkInv, VRunning, KindsWalked, AcceptedRanWholeChain
<1>7. CASE VDescend
  <2>1. /\ vPc' = "shape" /\ vRound' = vRound + 1 /\ vCut' = Advanced(vCut) /\ vCut # 1
        /\ received[vRound + 1].kind = chain[vRound + 1].kind
        /\ vCut = 0 \/ chain[vRound + 1].kind = "Sumcheck"
    BY <1>7 DEF VDescend, MayDescend, VAtCut, VNextIsSumcheck
  <2>2. KindsWalked'
    BY <1>1, <1>2, <2>1 DEF KindsWalked
  <2>3. CutLeft'
    <3>1. CASE vCut = 0
      BY <1>1, <1>2, <2>1, <3>1 DEF CutLeft, Advanced, vCfg
    <3>2. CASE vCut # 0
      <4>1. vCut' = vCut - 1 /\ vCut' # 0 /\ vCfg'.kind = "Sumcheck"
        BY <1>1, <2>1, <3>2 DEF Advanced, vCfg
      <4>2. asked.vCut # 0 /\ vRound + vCut = asked.vCut + 1
        BY <1>2, <3>2 DEF CutLeft
      <4>3. vRound' + vCut' = asked.vCut + 1
        BY <1>1, <2>1, <4>1, <4>2
      <4>. QED
        BY <4>1, <4>2, <4>3 DEF CutLeft
    <3>. QED
      BY <3>1, <3>2
  <2>. QED
    BY <2>1, <2>2, <2>3 DEF WalkInv, AcceptedRanWholeChain
<1>8. CASE VAcceptChain
  <2>1. /\ vPc' = "accepted" /\ vCut = 0 /\ vRound = Len(received)
        /\ ~HasNext(chain, vRound) /\ UNCHANGED <<vRound, vBoundary>>
    BY <1>8 DEF VAcceptChain, MayAccept
  <2>2. asked.vCut = 0
    BY <1>2, <2>1 DEF CutLeft
  <2>3. vRound = Len(chain)
    BY <1>1, <2>1 DEF HasNext, Last
  <2>. QED
    BY <1>2, <2>1, <2>2, <2>3 DEF WalkInv, VRunning, KindsWalked, AcceptedRanWholeChain
<1>9. \/ vPc' \notin {"idle", "accepted", "rejected"} /\ UNCHANGED <<vRound, vCut>>
      \/ vPc' = "rejected"
      \/ VSimpleClose(TRUE) \/ VCaptureBoundary \/ VDescend \/ VAcceptChain
  BY DEF VerifierStep, CheckShape, VSumcheckOpen, VContextRefused, VSumcheckFold,
         VSumcheckClaims, VBasicOpen, VIntermediateFold, VIntermediateClaims, VSimpleFold,
         VSimpleClose, VRoundPoly, VCloseSumcheck, VChainRefused, VAdvance, VReject
<1>. QED
  BY <1>3, <1>4, <1>5, <1>6, <1>7, <1>8, <1>9

LEMMA NextWalkInv == TypeInv /\ WalkInv /\ [Next]_vars => WalkInv'
<1>. SUFFICES ASSUME TypeInv, WalkInv, [Next]_vars PROVE WalkInv'
  OBVIOUS
<1>. USE DEF WalkInv
<1>1. CASE Prove
  BY <1>1 DEF Prove, VRunning, AcceptedRanWholeChain
<1>2. CASE Deliver
  <2>1. PICK fresh, cut, statement :
          /\ fresh \in BOOLEAN /\ cut \in Cuts
          /\ VerifierStart(fresh, cut, statement)
          /\ asked' = [asked EXCEPT !.vFresh = fresh, !.vCut = cut]
    BY <1>2 DEF Deliver
  <2>2. cut \in Nat /\ asked'.vCut = cut /\ chain' = chain /\ chain[1].kind = "Sumcheck"
    BY <1>2, <2>1, CutsAssumption, ChainType DEF Deliver, TypeInv, SessionTypeOK
  <2>3. vPc' = "shape" /\ vRound' = 1 /\ vCut' = cut
    BY <2>1 DEF VerifierStart
  <2>4. CutLeft'
    BY <2>2, <2>3 DEF CutLeft, vCfg
  <2>5. KindsWalked'
    <3>1. TypeInv'
      BY <1>2, DeliverInv
    <3>2. received'[1].kind = chain[1].kind
      BY <2>2, <2>3, <3>1 DEF TypeInv, VerifierInv, VerifierWalk, Decoded
    <3>. QED
      BY <2>2, <2>3, <3>2 DEF KindsWalked
  <2>. QED
    BY <2>3, <2>4, <2>5 DEF AcceptedRanWholeChain
<1>3. CASE ProverWorks
  BY <1>3
  DEF ProverWorks, verifierVars, VRunning, KindsWalked, CutLeft, AcceptedRanWholeChain, vCfg
<1>4. CASE VerifierWorks
  <2>1. PICK holds \in BOOLEAN : VerifierStep(holds)
    BY <1>4 DEF VerifierWorks, Outcomes
  <2>. QED
    BY <1>4, <2>1, VerifierWalkInv DEF VerifierWorks
<1>5. CASE NoMoreSessions \/ UNCHANGED vars
  BY <1>5
  DEF NoMoreSessions, vars, proverVars, verifierVars, VRunning, KindsWalked, CutLeft,
      AcceptedRanWholeChain, vCfg
<1>. QED
  BY <1>1, <1>2, <1>3, <1>4, <1>5 DEF Next

\* AcceptedRanWholeChain, for every chain and every cut: verifier_round accepts
\* in the last configured round with nothing of the proof left over, or in the
\* round the caller's cut names, and every round above was of its own kind.
THEOREM AcceptanceRanWholeChain == Spec => []AcceptedRanWholeChain
<1>1. Init => WalkInv
  BY DEF Init, WalkInv, VRunning, AcceptedRanWholeChain
<1>2. WalkInv => AcceptedRanWholeChain
  BY DEF WalkInv
<1>. QED
  BY <1>1, <1>2, TypeInvariant, NextWalkInv, PTL DEF Spec

-----------------------------------------------------------------------------
(***************************************************************************)
(* Completeness of the chain of rounds, for every chain, every set of cuts *)
(* and any number of sessions.  First the prover's walk down the chain:    *)
(* what holds of the calls a session is made of, the sequence of states a  *)
(* proof is made through, and why what an honest prover sends gets past    *)
(* the structural pass.  Then the verifier of an unaltered proof walks     *)
(* through the states the prover walked through, so it absorbs and draws   *)
(* what the prover did, and is turned away for a used context only.  From  *)
(* it: the parties' captured boundaries agree, and every behaviour is one  *)
(* of the abstract argument.                                               *)
(***************************************************************************)
-----------------------------------------------------------------------------
(***************************************************************************)
(* The calls of a session: cuts, fresh contexts, and who runs when.        *)
(***************************************************************************)

\* What is left of the prover's cut and the round it is in add up to the cut
\* it was asked for, and a cut is only carried through sumcheck rounds.
ProverCut ==
    /\ asked.pCut = 0 => pCut = 0
    /\ asked.pCut # 0 => /\ pCut # 0
                         /\ pRound + pCut = asked.pCut + 1
                         /\ \A r \in 1..pRound : chain[r].kind = "Sumcheck"

\* Where a prover that is done has stopped: in a simple round, at its cut, or
\* at the end of the chain.
ProverStopped ==
    \/ pCfg.kind = "Simple" /\ asked.pCut = 0
    \/ pCfg.kind # "Simple" /\ asked.pCut = pRound /\ NextIsSumcheck
    \/ pCfg.kind # "Simple" /\ asked.pCut = 0 /\ ~HasNext(chain, pRound)

\* A fresh context is unspent until its round's sumcheck begins.
ProverFresh ==
    /\ \A r \in 1..Len(chain) : r > pRound => ~pSpent[r]
    /\ pPc \in {"open", "fold", "claims"} => ~pSpent[pRound]

VerifierFresh ==
    /\ \A r \in 1..Len(chain) : r > vRound => ~vSpent[r]
    /\ vPc \in {"shape", "open"} => ~vSpent[vRound]
    /\ vPc \in {"fold", "claims"} /\ vCfg.kind # "Sumcheck" => ~vSpent[vRound]

\* No sumcheck round starts where the prover's cut falls.
NoRoundAtCut ==
    /\ asked.pCut # 0
    /\ asked.pCut >= Len(chain) \/ chain[asked.pCut + 1].kind # "Sumcheck"

CallInv ==
    /\ PRunning \/ pPc = "done" => ProverCut
    /\ pPc = "done" => ProverStopped
    /\ pPc # "done" => vPc = "idle"
    /\ asked.pFresh /\ PRunning => ProverFresh
    /\ asked.pFresh /\ pPc = "panicked" => NoRoundAtCut
    /\ asked.vFresh /\ VRunning => VerifierFresh
    /\ asked.vFresh => vReason # "context"

\* No sumcheck round comes after a round that is none.
LEMMA SumchecksComeFirst ==
    ASSUME NEW c \in Chains, NEW r \in 1..Len(c), c[r].kind # "Sumcheck",
           NEW s \in r..Len(c)
    PROVE  c[s].kind # "Sumcheck"
<1>. DEFINE Late == {i \in r..Len(c) : c[i].kind = "Sumcheck"}
<1>1. Len(c) \in Nat
  BY ChainType
<1>2. SUFFICES ASSUME Late # {} PROVE FALSE
  OBVIOUS
<1>3. Late \subseteq Nat
  BY <1>1
<1>. HIDE DEF Late
<1>4. PICK i \in Late : \A j \in Late : i <= j
  BY <1>2, <1>3, LeastNatural
<1>. USE DEF Late
<1>5. i \in r..Len(c) /\ c[i].kind = "Sumcheck" /\ i # r
  BY <1>4
<1>6. i - 1 \in 1..Len(c) /\ i - 1 < Len(c) /\ i - 1 \in r..Len(c) /\ (i - 1) + 1 = i
  BY <1>1, <1>5
<1>7. c[i - 1].kind = "Sumcheck"
  <2>. DEFINE k == i - 1
  <2>1. k \in 1..Len(c) /\ k < Len(c) /\ c[k + 1].kind = "Sumcheck"
    BY <1>5, <1>6
  <2>. HIDE DEF k
  <2>2. c[k].kind = "Sumcheck"
    BY <2>1, ChainOrder
  <2>. QED
    BY <2>2 DEF k
<1>8. i - 1 \in Late
  BY <1>6, <1>7
<1>. QED
  BY <1>4, <1>5, <1>8

LEMMA InitCallInv == Init => CallInv
BY DEF Init, CallInv, PRunning, VRunning

LEMMA ProverCalls ==
    ASSUME TypeInv, CallInv, ProverStep,
           UNCHANGED <<chain, asked, vPc, vRound, vSpent, vReason>>
    PROVE  CallInv'
<1>1. /\ chain \in Chains /\ Len(chain) \in Nat /\ pRound \in 1..Len(chain)
      /\ pCut \in Nat /\ asked.pCut \in Nat
      /\ pSpent \in [1..Len(chain) -> BOOLEAN]
  BY ChainType DEF TypeInv, SessionTypeOK, ProverInv, ProverTypeOK
<1>2. PRunning
  BY DEF ProverStep, SumcheckOpen, SumcheckFold, BasicOpen, IntermediateFold, SimpleFold,
         ProverClaims, ContextRefused, RoundPoly, CloseSumcheck, CaptureBoundary,
         BoundaryRefused, Descend, FinishChain, PRunning
<1>3. /\ ProverCut /\ vPc = "idle"
      /\ asked.pFresh => ProverFresh
      /\ asked.vFresh => vReason # "context"
  BY <1>2 DEF CallInv, PRunning
<1>4. SUFFICES /\ PRunning' \/ pPc' = "done" => ProverCut'
               /\ pPc' = "done" => ProverStopped'
               /\ asked.pFresh /\ PRunning' => ProverFresh'
               /\ asked.pFresh /\ pPc' = "panicked" => NoRoundAtCut'
  BY <1>3 DEF CallInv, VRunning
<1>5. CASE SumcheckOpen \/ SumcheckFold \/ BasicOpen \/ IntermediateFold \/ RoundPoly
           \/ CloseSumcheck
  <2>1. /\ UNCHANGED <<pRound, pCut, pSpent, chain, asked>>
        /\ PRunning'
        /\ pPc' \in {"open", "fold", "claims"} => pPc \in {"open", "fold", "claims"}
    BY <1>5 DEF SumcheckOpen, SumcheckFold, BasicOpen, IntermediateFold, RoundPoly,
                CloseSumcheck, PAdvance, PRunning
  <2>2. ProverCut'
    BY <1>3, <2>1 DEF ProverCut
  <2>3. asked.pFresh => ProverFresh'
    BY <1>3, <2>1 DEF ProverFresh
  <2>. QED
    BY <2>1, <2>2, <2>3 DEF PRunning
<1>6. CASE ProverClaims
  <2>1. /\ UNCHANGED <<pRound, pCut, chain, asked>> /\ pPc' = "poly"
        /\ pSpent' = [pSpent EXCEPT ![pRound] = TRUE]
    BY <1>6 DEF ProverClaims, Spend
  <2>2. ProverCut'
    BY <1>3, <2>1 DEF ProverCut
  <2>3. asked.pFresh => ProverFresh'
    BY <1>1, <1>3, <2>1 DEF ProverFresh
  <2>. QED
    BY <2>1, <2>2, <2>3
<1>7. CASE ContextRefused
  BY <1>3, <1>7 DEF ContextRefused, ProverFresh, PRunning
<1>8. CASE SimpleFold \/ CaptureBoundary \/ FinishChain
  <2>1. UNCHANGED <<pRound, pCut, chain, asked>> /\ pPc' = "done"
    BY <1>8 DEF SimpleFold, CaptureBoundary, FinishChain
  <2>2. ProverCut'
    BY <1>3, <2>1 DEF ProverCut
  <2>3. ProverStopped'
    <3>1. CASE SimpleFold
      <4>1. pCfg.kind = "Simple"
        BY <3>1 DEF SimpleFold
      <4>2. asked.pCut = 0
        BY <1>1, <1>3, <4>1 DEF ProverCut, pCfg
      <4>. QED
        BY <2>1, <4>1, <4>2 DEF ProverStopped, pCfg
    <3>2. CASE CaptureBoundary
      <4>1. pCfg.kind # "Simple" /\ pCut = 1 /\ NextIsSumcheck
        BY <3>2 DEF CaptureBoundary, AtCut, TypeInv, ProverInv, ProverWalk
      <4>2. asked.pCut = pRound
        BY <1>1, <1>3, <4>1 DEF ProverCut
      <4>. QED
        BY <2>1, <4>1, <4>2 DEF ProverStopped, pCfg, NextIsSumcheck
    <3>3. CASE FinishChain
      <4>1. pCfg.kind # "Simple" /\ pCut = 0 /\ ~HasNext(chain, pRound)
        BY <3>3 DEF FinishChain, TypeInv, ProverInv, ProverWalk
      <4>2. asked.pCut = 0
        BY <1>1, <1>3, <4>1 DEF ProverCut
      <4>. QED
        BY <2>1, <4>1, <4>2 DEF ProverStopped, pCfg
    <3>. QED
      BY <1>8, <3>1, <3>2, <3>3
  <2>. QED
    BY <2>1, <2>2, <2>3 DEF PRunning
<1>9. CASE BoundaryRefused
  <2>1. pCut # 0 /\ ~NextIsSumcheck /\ pPc' = "panicked"
    BY <1>9 DEF BoundaryRefused
  <2>2. asked.pCut # 0 /\ pRound + pCut = asked.pCut + 1
    BY <1>3, <2>1 DEF ProverCut
  <2>3. pRound <= asked.pCut
    BY <1>1, <2>1, <2>2
  <2>4. asked.pCut >= Len(chain) \/ chain[asked.pCut + 1].kind # "Sumcheck"
    <3>1. CASE pRound = Len(chain)
      BY <1>1, <2>3, <3>1
    <3>2. CASE pRound # Len(chain) /\ asked.pCut < Len(chain)
      <4>1. pRound + 1 \in 1..Len(chain) /\ chain[pRound + 1].kind # "Sumcheck"
        BY <1>1, <2>1, <3>2 DEF NextIsSumcheck, HasNext, Last
      <4>2. asked.pCut + 1 \in (pRound + 1)..Len(chain)
        BY <1>1, <2>3, <3>2
      <4>. QED
        BY <1>1, <4>1, <4>2, SumchecksComeFirst
    <3>. QED
      BY <1>1, <3>1, <3>2
  <2>. QED
    BY <2>1, <2>2, <2>4 DEF NoRoundAtCut, PRunning
<1>10. CASE Descend
  <2>1. /\ pRound' = pRound + 1 /\ pCut' = Advanced(pCut) /\ pPc' = "open"
        /\ pRound < Len(chain) /\ pCut # 1
        /\ pCut = 0 \/ chain[pRound + 1].kind = "Sumcheck"
        /\ UNCHANGED <<pSpent, chain, asked>>
    BY <1>10 DEF Descend, AtCut, NextIsSumcheck, HasNext, Last
  <2>2. ProverCut'
    BY <1>1, <1>3, <2>1 DEF ProverCut, Advanced
  <2>3. asked.pFresh => ProverFresh'
    BY <1>1, <1>3, <2>1 DEF ProverFresh
  <2>. QED
    BY <2>1, <2>2, <2>3
<1>. QED
  BY <1>5, <1>6, <1>7, <1>8, <1>9, <1>10 DEF ProverStep

LEMMA VerifierCalls ==
    ASSUME TypeInv, CallInv, VRunning, NEW holds \in BOOLEAN, VerifierStep(holds),
           UNCHANGED <<chain, received, asked, proverVars>>
    PROVE  CallInv'
<1>1. /\ vRound \in 1..Len(chain) /\ Len(chain) \in Nat /\ chain \in Chains
      /\ vSpent \in [1..Len(chain) -> BOOLEAN]
      /\ vCfg.kind \in Kinds
      /\ vPc \in {"claims", "poly", "recurse"} => vCfg.kind # "Simple"
  BY ChainType, ConfigType
  DEF TypeInv, SessionTypeOK, VerifierInv, VerifierTypeOK, VerifierWalk, VRunning, vCfg
<1>2. /\ pPc = "done"
      /\ asked.vFresh => VerifierFresh /\ vReason # "context"
  BY DEF CallInv, VRunning
<1>3. SUFFICES asked.vFresh => (VRunning' => VerifierFresh') /\ vReason' # "context"
  BY <1>2
  DEF proverVars, CallInv, PRunning, ProverCut, ProverStopped, pCfg, NextIsSumcheck,
      ProverFresh, NoRoundAtCut
<1>4. SUFFICES ASSUME asked.vFresh
               PROVE  (VRunning' => VerifierFresh') /\ vReason' # "context"
  OBVIOUS
<1>. USE <1>2, <1>4
<1>5. CASE VSumcheckOpen
  BY <1>1, <1>5 DEF VSumcheckOpen, VerifierFresh, Spend, vCfg
<1>6. CASE VIntermediateClaims(holds)
  <2>1. /\ vPc' \in {"poly", "rejected"} /\ vReason' \in {vReason, "equation"}
        /\ vSpent' = Spend(vSpent, vRound) /\ UNCHANGED <<vRound, chain>>
    BY <1>6 DEF VIntermediateClaims
  <2>. QED
    BY <1>1, <2>1 DEF VerifierFresh, Spend, vCfg
<1>7. CASE VDescend
  BY <1>1, <1>7 DEF VDescend, MayDescend, HasNext, Last, VerifierFresh
<1>8. CASE VContextRefused
  BY <1>1, <1>8 DEF VContextRefused, VerifierFresh
<1>9. CASE vPc' \in {"accepted", "rejected"} /\ vReason' \in {vReason, "shape", "equation", "chain"}
  BY <1>9 DEF VRunning
<1>10. CASE /\ UNCHANGED <<vRound, vSpent, vReason, chain>>
            /\ \/ vPc' \in {"poly", "recurse", "close"}
               \/ vPc = "shape" /\ vPc' = "open"
               \/ vPc = "open" /\ vCfg.kind # "Sumcheck" /\ vPc' = "fold"
               \/ vPc = "fold" /\ vPc' = "claims"
  BY <1>1, <1>10 DEF VerifierFresh, vCfg
<1>11. CASE CheckShape
  BY <1>1, <1>9, <1>10, <1>11 DEF CheckShape, VAdvance, VReject
<1>12. CASE VSumcheckFold \/ VBasicOpen \/ VSimpleFold
  BY <1>1, <1>10, <1>12 DEF VSumcheckFold, VBasicOpen, VSimpleFold, VAdvance
<1>13. CASE \/ VSumcheckClaims(holds) \/ VIntermediateFold(holds) \/ VRoundPoly(holds)
            \/ VCloseSumcheck(holds) \/ VSimpleClose(holds)
  BY <1>1, <1>9, <1>10, <1>13
  DEF VSumcheckClaims, VIntermediateFold, VRoundPoly, VCloseSumcheck, VSimpleClose,
      VAdvance, VReject
<1>14. CASE VCaptureBoundary \/ VAcceptChain \/ VChainRefused
  BY <1>9, <1>14 DEF VCaptureBoundary, VAcceptChain, VChainRefused, VReject
<1>. QED
  BY <1>5, <1>6, <1>7, <1>8, <1>11, <1>12, <1>13, <1>14 DEF VerifierStep

LEMMA NextCallInv == TypeInv /\ CallInv /\ [Next]_vars => CallInv'
<1>. SUFFICES ASSUME TypeInv, CallInv, [Next]_vars PROVE CallInv'
  OBVIOUS
<1>1. /\ chain \in Chains /\ Len(chain) \in Nat /\ chain[1].kind = "Sumcheck"
      /\ asked \in [pFresh : BOOLEAN, vFresh : BOOLEAN, pCut : Nat, vCut : Nat]
  BY ChainType DEF TypeInv, SessionTypeOK
<1>2. CASE Prove
  <2>1. PICK fresh \in BOOLEAN, cut \in Cuts :
          /\ ProverStart(fresh, cut)
          /\ asked' = [asked EXCEPT !.pFresh = fresh, !.pCut = cut]
    BY <1>2 DEF Prove
  <2>2. /\ cut \in Nat /\ asked'.pFresh = fresh /\ asked'.pCut = cut
        /\ chain' = chain /\ vPc' = "idle" /\ vReason' = "none"
    BY <1>1, <1>2, <2>1, CutsAssumption DEF Prove
  <2>3. pPc' = "open" /\ pRound' = 1 /\ pCut' = cut
    BY <2>1 DEF ProverStart
  <2>4. ProverCut'
    BY <1>1, <2>2, <2>3 DEF ProverCut
  <2>5. asked'.pFresh => ProverFresh'
    <3>1. CASE fresh
      <4>1. \A r \in 1..Len(chain) : pSpent'[r] = FALSE
        BY <2>1, <3>1 DEF ProverStart, NoContexts
      <4>2. 1 \in 1..Len(chain)
        BY <1>1, ChainType
      <4>. QED
        BY <2>2, <2>3, <4>1, <4>2 DEF ProverFresh
    <3>2. CASE ~fresh
      BY <2>2, <3>2
    <3>. QED
      BY <3>1, <3>2
  <2>. QED
    BY <2>2, <2>3, <2>4, <2>5 DEF CallInv, VRunning
<1>3. CASE Deliver
  <2>1. PICK fresh, cut, statement :
          /\ fresh \in BOOLEAN /\ cut \in Cuts
          /\ VerifierStart(fresh, cut, statement)
          /\ asked' = [asked EXCEPT !.vFresh = fresh, !.vCut = cut]
    BY <1>3 DEF Deliver
  <2>2. /\ pPc = "done" /\ UNCHANGED <<chain, proverVars>>
        /\ asked'.pFresh = asked.pFresh /\ asked'.pCut = asked.pCut /\ asked'.vFresh = fresh
    BY <1>1, <1>3, <2>1 DEF Deliver
  <2>3. ProverCut' /\ ProverStopped' /\ pPc' = "done"
    BY <2>2
    DEF proverVars, CallInv, ProverCut, ProverStopped, pCfg, NextIsSumcheck
  <2>4. fresh => VerifierFresh'
    <3>1. CASE fresh
      <4>1. vSpent' = [r \in 1..Len(chain) |-> FALSE] /\ vRound' = 1
        BY <2>1, <3>1 DEF VerifierStart
      <4>2. \A r \in 1..Len(chain) : vSpent'[r] = FALSE
        BY <4>1
      <4>3. 1 \in 1..Len(chain)
        BY <1>1, ChainType
      <4>. QED
        BY <2>2, <4>1, <4>2, <4>3 DEF VerifierFresh
    <3>. QED
      BY <3>1
  <2>. QED
    BY <2>1, <2>2, <2>3, <2>4 DEF CallInv, PRunning, VerifierStart
<1>4. CASE ProverWorks
  BY <1>4, ProverCalls DEF ProverWorks, verifierVars
<1>5. CASE VerifierWorks
  <2>1. PICK holds \in BOOLEAN : VerifierStep(holds)
    BY <1>5 DEF VerifierWorks, Outcomes
  <2>. QED
    BY <1>5, <2>1, VerifierCalls DEF VerifierWorks
<1>6. CASE NoMoreSessions \/ UNCHANGED vars
  BY <1>6
  DEF NoMoreSessions, vars, proverVars, verifierVars, CallInv, PRunning, VRunning,
      ProverCut, ProverStopped, NextIsSumcheck, ProverFresh, VerifierFresh, NoRoundAtCut,
      pCfg, vCfg
<1>. QED
  BY <1>2, <1>3, <1>4, <1>5, <1>6 DEF Next

LEMMA CallInvariant == Spec => []CallInv
BY TypeInvariant, InitCallInv, NextCallInv, PTL DEF Spec

-----------------------------------------------------------------------------
(***************************************************************************)
(* The prover's walk.                                                      *)
(***************************************************************************)
WalkStates(c) ==
    {s \in [round : 1..Len(c), phase : {"open", "fold", "claims", "poly", "recurse", "done"},
            transcript : Transcripts(Entry, Labels), points : Points, point : Points] :
       /\ Len(s.point) = c[s.round].rows + c[s.round].cols
       /\ s.phase \in {"claims", "poly", "recurse"} => c[s.round].kind # "Simple"
       /\ s.phase = "recurse" => Len(s.points) = c[s.round].vars}

\* The state a prover starts a proof in.
WalkStart(c) ==
    [round |-> 1, phase |-> "open", transcript |-> NewTranscript, points |-> <<>>,
     point |-> RootPoint(c)]

\* What a round's stretches absorb and draw, of a transcript t.
OpenedAt(c, r, t) ==
    Draw(Absorb(Absorb(t, CommitmentOf(c, r)), Sent(c, r)["opening"]), "projection")

ProjectedAt(c, r, t) ==
    IF c[r].projection = "Coarse" THEN Absorb(t, Sent(c, r)["coarse"])
    ELSE IF c[r].projection = "Fine"
    THEN Absorb(Draw(Absorb(t, Sent(c, r)["constantTerm"]), "batching"), Sent(c, r)["batched"])
    ELSE t

FoldedAt(c, r, t) ==
    IF c[r].kind = "Sumcheck"
    THEN Absorb(Draw(ProjectedAt(c, r, t), "fold"), Sent(c, r)["next"])
    ELSE Absorb(Draw(Absorb(t, Sent(c, r)["batched"]), "fold"), Sent(c, r)["next"])

ImagedAt(c, r, t) == Draw(Absorb(OpenedAt(c, r, t), Sent(c, r)["image"]), "batching")

FlattenedAt(c, r, t) ==
    IF c[r].kind = "Sumcheck" /\ c[r].projection = "Coarse" THEN Draw(t, "flattener") ELSE t

ClaimedAt(c, r, t) ==
    LET norm == Absorb(FlattenedAt(c, r, t), Sent(c, r)["norm"])
        norms == Absorb(Absorb(norm, Sent(c, r)["mostInnerNorm"]), Sent(c, r)["projectionNorm"])
    IN Draw(Draw(Absorb(norms, Sent(c, r)["constantTermClaims"]), "combination"), "toField")

PolyAt(c, r, t, i) == Draw(Absorb(t, Single(Sent(c, r)["polys"], i)), "point")

ClosedAt(c, r, t) == Absorb(Absorb(t, Sent(c, r)["z0"]), Sent(c, r)["z1"])

\* One stretch of the walk, from state s to state u of WalkStates(c).
Stretch(c, s, u) ==
    LET cfg == c[s.round]
        r == s.round
        t == s.transcript
        on(phase, transcript, points) ==
            u = [round |-> r, phase |-> phase, transcript |-> transcript, points |-> points,
                 point |-> s.point]
    IN \/ /\ s.phase = "open" /\ cfg.kind = "Sumcheck"
          /\ on("fold", OpenedAt(c, r, t), s.points)
       \/ /\ s.phase = "open" /\ cfg.kind # "Sumcheck"
          /\ on("fold", ImagedAt(c, r, t), s.points)
       \/ /\ s.phase = "fold" /\ cfg.kind # "Simple"
          /\ on("claims", FoldedAt(c, r, t), s.points)
       \/ /\ s.phase = "fold" /\ cfg.kind = "Simple"
          /\ on("done", Draw(Absorb(t, Sent(c, r)["batched"]), "fold"), s.points)
       \/ /\ s.phase = "claims"
          /\ on("poly", ClaimedAt(c, r, t), <<>>)
       \/ /\ s.phase = "poly" /\ Len(s.points) < cfg.vars
          /\ on("poly", PolyAt(c, r, t, Len(s.points) + 1), Append(s.points, LastDraw(t) + 1))
       \/ /\ s.phase = "poly" /\ Len(s.points) = cfg.vars
          /\ on("recurse", ClosedAt(c, r, t), Reversed(s.points))
       \/ /\ s.phase = "recurse"
          /\ u = [round |-> r + 1, phase |-> "open", transcript |-> t, points |-> s.points,
                  point |-> s.points]

\* The state the prover has reached.  A prover that is done in a round with a
\* sumcheck stopped where it would have recursed.
Reached ==
    [round |-> pRound,
     phase |-> IF pPc = "done" /\ pCfg.kind # "Simple" THEN "recurse" ELSE pPc,
     transcript |-> pTranscript, points |-> pPoints, point |-> pStatement[pRound]]

\* The prover came to where it is in n stretches, through the states of w.
Walked(w, n) ==
    /\ w[0] = WalkStart(chain)
    /\ \A i \in 0..(n - 1) : Stretch(chain, w[i], w[i + 1])
    /\ w[n] = Reached
    /\ Len(pStatement) = pRound
    /\ \A i \in 0..n : /\ SameChallenges(w[i].transcript, pTranscript)
                       /\ w[i].round <= pRound
                       /\ pStatement[w[i].round] = w[i].point

\* Absorbing and drawing only ever add to a transcript.
Extending(t) == {u \in Transcripts(Entry, Labels) : SameChallenges(t, u)}

LEMMA ExtendingClosed ==
    ASSUME NEW t \in Transcripts(Entry, Labels)
    PROVE  /\ t \in Extending(t)
           /\ \A u \in Extending(t), item \in Items : Absorb(u, item) \in Extending(t)
           /\ \A u \in Extending(t), label \in Labels : Draw(u, label) \in Extending(t)
<1>1. t \in Extending(t)
  <2>1. Len(t.absorbed) \in Nat /\ Len(t.drawn) \in Nat
    BY LenProperties DEF Transcripts
  <2>. QED
    BY <2>1 DEF Extending, SameChallenges, PrefixOf
<1>2. ASSUME NEW u \in Extending(t), NEW item \in Items
      PROVE  Absorb(u, item) \in Extending(t)
  <2>1. /\ u \in Transcripts(Entry, Labels) /\ SameChallenges(t, u)
        /\ u.absorbed \in Seq(Entry) /\ item.data \in Seq(Entry)
        /\ t.absorbed \in Seq(Entry)
    BY DEF Extending, Transcripts, Items
  <2>2. PrefixOf(t.absorbed, u.absorbed \o item.data)
    <3>. DEFINE a == u.absorbed
                b == item.data
                p == t.absorbed
    <3>1. a \in Seq(Entry) /\ b \in Seq(Entry) /\ p \in Seq(Entry) /\ PrefixOf(p, a)
      BY <2>1 DEF SameChallenges
    <3>. HIDE DEF a, b, p
    <3>2. Len(a) \in Nat /\ Len(b) \in Nat /\ Len(p) \in Nat
      BY <3>1, LenProperties
    <3>3. Len(a \o b) = Len(a) + Len(b) /\ \A i \in 1..Len(a) : (a \o b)[i] = a[i]
      BY <3>1, <3>2, ConcatProperties
    <3>4. PrefixOf(p, a \o b)
      BY <3>1, <3>2, <3>3 DEF PrefixOf
    <3>. QED
      BY <3>4 DEF a, b, p
  <2>3. Absorb(u, item).absorbed = u.absorbed \o item.data /\ Absorb(u, item).drawn = u.drawn
    BY <2>1 DEF Absorb, Transcripts
  <2>4. SameChallenges(t, Absorb(u, item))
    BY <2>1, <2>2, <2>3 DEF SameChallenges
  <2>. QED
    BY <2>1, <2>4, AbsorbType DEF Extending
<1>3. ASSUME NEW u \in Extending(t), NEW label \in Labels
      PROVE  Draw(u, label) \in Extending(t)
  <2>. DEFINE draw == [label |-> label, at |-> Len(u.absorbed)]
              Draws == [label : Labels, at : Nat]
  <2>1. /\ u \in Transcripts(Entry, Labels) /\ SameChallenges(t, u)
        /\ u.drawn \in Seq(Draws) /\ t.drawn \in Seq(Draws)
    BY DEF Extending, Transcripts
  <2>2. draw \in Draws
    BY <2>1, LenProperties DEF Transcripts
  <2>3. Draw(u, label).drawn = Append(u.drawn, draw) /\ Draw(u, label).absorbed = u.absorbed
    BY <2>1 DEF Draw, Transcripts
  <2>. HIDE DEF draw, Draws
  <2>4. PrefixOf(t.drawn, Append(u.drawn, draw))
    BY <2>1, <2>2, AppendProperties, LenProperties DEF SameChallenges, PrefixOf
  <2>5. SameChallenges(t, Draw(u, label))
    BY <2>1, <2>3, <2>4 DEF SameChallenges
  <2>. QED
    BY <2>1, <2>5, DrawType DEF Extending
<1>. QED
  BY <1>1, <1>2, <1>3

LEMMA SameChallengesTransitive ==
    ASSUME NEW s \in Transcripts(Entry, Labels), NEW t \in Transcripts(Entry, Labels),
           NEW u, SameChallenges(s, t), SameChallenges(t, u)
    PROVE  SameChallenges(s, u)
<1>1. /\ Len(s.absorbed) \in Nat /\ Len(t.absorbed) \in Nat
      /\ Len(s.drawn) \in Nat /\ Len(t.drawn) \in Nat
  BY LenProperties DEF Transcripts
<1>2. /\ PrefixOf(s.absorbed, t.absorbed) /\ PrefixOf(t.absorbed, u.absorbed)
      /\ PrefixOf(s.drawn, t.drawn) /\ PrefixOf(t.drawn, u.drawn)
  BY DEF SameChallenges
<1>3. \A p, q, v : Len(p) \in Nat /\ Len(q) \in Nat /\ PrefixOf(p, q) /\ PrefixOf(q, v)
                    => PrefixOf(p, v)
  <2>. SUFFICES ASSUME NEW p, NEW q, NEW v, Len(p) \in Nat, Len(q) \in Nat,
                       PrefixOf(p, q), PrefixOf(q, v)
                PROVE  PrefixOf(p, v)
    OBVIOUS
  <2>1. Len(p) <= Len(q) /\ Len(q) <= Len(v) /\ Len(v) >= Len(q)
    BY DEF PrefixOf
  <2>2. \A i \in 1..Len(p) : i \in 1..Len(q)
    BY <2>1
  <2>. QED
    BY <2>1, <2>2 DEF PrefixOf
<1>. QED
  BY <1>1, <1>2, <1>3 DEF SameChallenges

\* Every stretch of a round extends the transcript.
LEMMA StretchesExtend ==
    ASSUME NEW c \in Chains, NEW r \in 1..Len(c), NEW t \in Transcripts(Entry, Labels)
    PROVE  /\ OpenedAt(c, r, t) \in Extending(t)
           /\ ImagedAt(c, r, t) \in Extending(t)
           /\ FoldedAt(c, r, t) \in Extending(t)
           /\ Draw(Absorb(t, Sent(c, r)["batched"]), "fold") \in Extending(t)
           /\ ClaimedAt(c, r, t) \in Extending(t)
           /\ ClosedAt(c, r, t) \in Extending(t)
           /\ \A i \in 1..Len(Sent(c, r)["polys"].data) : PolyAt(c, r, t, i) \in Extending(t)
<1>. DEFINE E == Extending(t)
            sent(f) == Sent(c, r)[f]
<1>1. \A f \in Fields : sent(f) \in Items
  BY SentType DEF SoundItems
<1>2. CommitmentOf(c, r) \in Items
  BY CommitmentOfType DEF SoundItems
<1>3. Labels = {"projection", "batching", "fold", "flattener", "combination", "toField",
                "point"}
  BY DEF Labels
<1>4. /\ t \in E
      /\ \A u \in E, item \in Items : Absorb(u, item) \in E
      /\ \A u \in E, label \in Labels : Draw(u, label) \in E
  BY ExtendingClosed
<1>5. \A f \in {"opening", "coarse", "constantTerm", "batched", "next", "image", "norm",
                "mostInnerNorm", "projectionNorm", "constantTermClaims", "z0", "z1", "polys"} :
        f \in Fields
  BY DEF Fields
<1>. HIDE DEF E, sent
<1>6. \A u \in E, f \in {"opening", "coarse", "constantTerm", "batched", "next", "image",
                         "norm", "mostInnerNorm", "projectionNorm", "constantTermClaims",
                         "z0", "z1", "polys"} : Absorb(u, sent(f)) \in E
  BY <1>1, <1>4, <1>5
<1>7. OpenedAt(c, r, t) \in E
  <2>1. OpenedAt(c, r, t)
          = Draw(Absorb(Absorb(t, CommitmentOf(c, r)), sent("opening")), "projection")
    BY DEF OpenedAt, sent
  <2>. QED
    BY <1>2, <1>3, <1>4, <1>6, <2>1
<1>8. ImagedAt(c, r, t) \in E
  <2>1. ImagedAt(c, r, t) = Draw(Absorb(OpenedAt(c, r, t), sent("image")), "batching")
    BY DEF ImagedAt, sent
  <2>. QED
    BY <1>3, <1>4, <1>6, <1>7, <2>1
<1>9. Draw(Absorb(t, sent("batched")), "fold") \in E
  BY <1>3, <1>4, <1>6
<1>10. FoldedAt(c, r, t) \in E
  <2>1. ProjectedAt(c, r, t) \in {Absorb(t, sent("coarse")), t,
          Absorb(Draw(Absorb(t, sent("constantTerm")), "batching"), sent("batched"))}
    BY DEF ProjectedAt, sent
  <2>2. Absorb(Draw(Absorb(t, sent("constantTerm")), "batching"), sent("batched")) \in E
    BY <1>3, <1>4, <1>6
  <2>3. ProjectedAt(c, r, t) \in E
    BY <1>4, <1>6, <2>1, <2>2
  <2>4. FoldedAt(c, r, t) \in {Absorb(Draw(ProjectedAt(c, r, t), "fold"), sent("next")),
                               Absorb(Draw(Absorb(t, sent("batched")), "fold"), sent("next"))}
    BY DEF FoldedAt, sent
  <2>. QED
    BY <1>3, <1>4, <1>6, <1>9, <2>3, <2>4
<1>11. ClaimedAt(c, r, t) \in E
  <2>1. FlattenedAt(c, r, t) \in {t, Draw(t, "flattener")}
    BY DEF FlattenedAt
  <2>2. FlattenedAt(c, r, t) \in E
    BY <1>3, <1>4, <2>1
  <2>. DEFINE norms == Absorb(Absorb(Absorb(FlattenedAt(c, r, t), sent("norm")),
                                     sent("mostInnerNorm")), sent("projectionNorm"))
  <2>3. norms \in E
    BY <1>6, <2>2
  <2>4. ClaimedAt(c, r, t)
          = Draw(Draw(Absorb(norms, sent("constantTermClaims")), "combination"), "toField")
    BY DEF ClaimedAt, sent
  <2>. HIDE DEF norms
  <2>. QED
    BY <1>3, <1>4, <1>6, <2>3, <2>4
<1>12. ClosedAt(c, r, t) \in E
  <2>1. ClosedAt(c, r, t) = Absorb(Absorb(t, sent("z0")), sent("z1"))
    BY DEF ClosedAt, sent
  <2>. QED
    BY <1>4, <1>6, <2>1
<1>13. \A i \in 1..Len(sent("polys").data) : PolyAt(c, r, t, i) \in E
  <2>1. sent("polys") \in Items
    BY <1>1, <1>5
  <2>2. \A i \in 1..Len(sent("polys").data) : Single(sent("polys"), i) \in Items
    BY <2>1, SingleType
  <2>3. \A i : PolyAt(c, r, t, i) = Draw(Absorb(t, Single(sent("polys"), i)), "point")
    BY DEF PolyAt, sent
  <2>. QED
    BY <1>3, <1>4, <2>2, <2>3
<1>. QED
  BY <1>7, <1>8, <1>9, <1>10, <1>11, <1>12, <1>13 DEF E, sent

\* A stretch leads from a state of the walk to one.
LEMMA StretchStates ==
    ASSUME NEW c \in Chains, NEW s \in WalkStates(c), NEW u, Stretch(c, s, u),
           s.phase = "recurse" => s.round < Len(c)
    PROVE  /\ u \in WalkStates(c)
           /\ u.transcript \in Extending(s.transcript)
           /\ u.round = IF s.phase = "recurse" THEN s.round + 1 ELSE s.round
<1>. DEFINE r == s.round
            cfg == c[r]
            t == s.transcript
            T == Transcripts(Entry, Labels)
            step(phase, v, points) == [round |-> r, phase |-> phase, transcript |-> v,
                                       points |-> points, point |-> s.point]
<1>1. /\ r \in 1..Len(c) /\ Len(c) \in Nat /\ t \in T /\ s.points \in Points
      /\ s.point \in Points /\ Len(s.point) = cfg.rows + cfg.cols
      /\ s.phase \in {"claims", "poly", "recurse"} => cfg.kind # "Simple"
      /\ s.phase = "recurse" => Len(s.points) = cfg.vars
      /\ s = [round |-> s.round, phase |-> s.phase, transcript |-> s.transcript,
              points |-> s.points, point |-> s.point]
  BY ChainType DEF WalkStates
<1>2. cfg.kind \in {"Sumcheck", "Intermediate", "Simple"} /\ cfg.vars \in Nat
  BY <1>1, ConfigType DEF Kinds
<1>3. \A v \in Extending(t) : v \in T
  BY DEF Extending
<1>4. ASSUME NEW phase \in {"fold", "claims", "poly", "recurse", "done"},
             NEW v \in Extending(t), NEW points \in Points,
             phase \in {"claims", "poly", "recurse"} => cfg.kind # "Simple",
             phase = "recurse" => Len(points) = cfg.vars, s.phase # "recurse",
             u = step(phase, v, points)
      PROVE  /\ u \in WalkStates(c)
             /\ u.transcript \in Extending(t)
             /\ u.round = r
  BY <1>1, <1>3, <1>4 DEF WalkStates
<1>. HIDE DEF t
<1>5. CASE s.phase = "open"
  <2>1. \E v \in {OpenedAt(c, r, t), ImagedAt(c, r, t)} :
          u = step("fold", v, s.points)
    BY <1>5 DEF Stretch, t
  <2>2. \A v \in {OpenedAt(c, r, t), ImagedAt(c, r, t)} : v \in Extending(t)
    BY <1>1, StretchesExtend
  <2>. QED
    BY <1>1, <1>4, <1>5, <2>1, <2>2 DEF t
<1>6. CASE s.phase = "fold"
  <2>1. CASE cfg.kind # "Simple"
    <3>1. u = step("claims", FoldedAt(c, r, t), s.points)
      BY <1>6, <2>1 DEF Stretch, t
    <3>2. FoldedAt(c, r, t) \in Extending(t)
      BY <1>1, StretchesExtend
    <3>. QED
      BY <1>1, <1>4, <1>6, <2>1, <3>1, <3>2 DEF t
  <2>2. CASE cfg.kind = "Simple"
    <3>. DEFINE v == Draw(Absorb(t, Sent(c, r)["batched"]), "fold")
    <3>1. u = step("done", v, s.points)
      BY <1>6, <2>2 DEF Stretch, t
    <3>2. v \in Extending(t)
      BY <1>1, StretchesExtend
    <3>. HIDE DEF v
    <3>. QED
      BY <1>1, <1>4, <1>6, <2>2, <3>1, <3>2 DEF t
  <2>. QED
    BY <2>1, <2>2
<1>7. CASE s.phase = "claims"
  <2>1. u = step("poly", ClaimedAt(c, r, t), <<>>)
    BY <1>7 DEF Stretch, t
  <2>2. ClaimedAt(c, r, t) \in Extending(t)
    BY <1>1, StretchesExtend
  <2>3. <<>> \in Points
    BY DEF Points
  <2>. QED
    BY <1>1, <1>4, <1>7, <2>1, <2>2, <2>3 DEF t
<1>8. CASE s.phase = "poly"
  <2>1. cfg.kind # "Simple" /\ Len(Sent(c, r)["polys"].data) = cfg.vars
    BY <1>1, <1>8, SentType
  <2>2. Len(s.points) \in Nat /\ s.points \in Seq(Nat)
    BY <1>1, LenProperties DEF Points
  <2>3. CASE Len(s.points) < cfg.vars
    <3>. DEFINE i == Len(s.points) + 1
    <3>1. u = step("poly", PolyAt(c, r, t, i), Append(s.points, LastDraw(t) + 1))
      BY <1>2, <1>8, <2>2, <2>3 DEF Stretch, t
    <3>2. i \in 1..Len(Sent(c, r)["polys"].data)
      BY <1>2, <2>1, <2>2, <2>3
    <3>3. PolyAt(c, r, t, i) \in Extending(t)
      BY <1>1, <3>2, StretchesExtend
    <3>4. LastDraw(t) + 1 \in Nat
      BY <1>1, LastDrawType DEF t
    <3>5. Append(s.points, LastDraw(t) + 1) \in Points
      BY <2>2, <3>4, AppendProperties DEF Points
    <3>. HIDE DEF i
    <3>. QED
      BY <1>1, <1>4, <1>8, <2>1, <3>1, <3>3, <3>5 DEF t
  <2>4. CASE ~(Len(s.points) < cfg.vars)
    <3>1. u = step("recurse", ClosedAt(c, r, t), Reversed(s.points))
          /\ Len(s.points) = cfg.vars
      BY <1>2, <1>8, <2>2, <2>4 DEF Stretch, t
    <3>2. ClosedAt(c, r, t) \in Extending(t)
      BY <1>1, StretchesExtend
    <3>3. Reversed(s.points) \in Points /\ Len(Reversed(s.points)) = Len(s.points)
      BY <1>1, <2>2, ReversedType DEF Reversed
    <3>. QED
      BY <1>1, <1>4, <1>8, <2>1, <3>1, <3>2, <3>3 DEF t
  <2>. QED
    BY <2>3, <2>4
<1>9. CASE s.phase = "recurse"
  <2>1. u = [round |-> r + 1, phase |-> "open", transcript |-> t, points |-> s.points,
             point |-> s.points]
    BY <1>1, <1>9 DEF Stretch, t
  <2>2. r + 1 \in 1..Len(c)
    BY <1>1, <1>9
  <2>3. cfg.vars = c[r + 1].rows + c[r + 1].cols
    BY <1>1, <1>9, ChainsAssumption DEF WellFormed, Follows, HasNext, Last
  <2>4. t \in Extending(t)
    BY <1>1, ExtendingClosed DEF t
  <2>. QED
    BY <1>1, <1>9, <2>1, <2>2, <2>3, <2>4 DEF WalkStates, t
<1>. QED
  BY <1>5, <1>6, <1>7, <1>8, <1>9 DEF Stretch

\* What the prover's actions do to its transcript is what the walk says.
LEMMA ProverTranscriptsAt ==
    ASSUME NEW t
    PROVE  /\ Opened(t) = OpenedAt(chain, pRound, t)
           /\ Imaged(t) = ImagedAt(chain, pRound, t)
           /\ pCfg.kind = "Sumcheck" => Folded(t) = FoldedAt(chain, pRound, t)
           /\ Claimed(t) = ClaimedAt(chain, pRound, t)
<1>1. Opened(t) = OpenedAt(chain, pRound, t)
  BY DEF Opened, OpenedAt, pItem
<1>2. Imaged(t) = ImagedAt(chain, pRound, t)
  BY <1>1 DEF Imaged, ImagedAt, pItem
<1>3. pCfg.kind = "Sumcheck" => Folded(t) = FoldedAt(chain, pRound, t)
  BY DEF Folded, FoldedAt, ProjectedAt, pItem, pCfg
<1>4. Claimed(t) = ClaimedAt(chain, pRound, t)
  BY DEF Claimed, ClaimedAt, FlattenedAt, pItem, pCfg
<1>. QED
  BY <1>1, <1>2, <1>3, <1>4

\* Every step of the prover is a stretch of the walk, or leaves it where it is.
LEMMA ProverStretch ==
    ASSUME TypeInv, ProverStep, UNCHANGED chain, pPc' # "panicked", Len(pStatement) = pRound
    PROVE  \/ /\ Stretch(chain, Reached, Reached')
              /\ Reached.phase = "recurse" => pRound < Len(chain)
              /\ IF Reached.phase = "recurse"
                 THEN pRound' = pRound + 1 /\ pStatement' = Append(pStatement, pPoints)
                 ELSE UNCHANGED <<pRound, pStatement>>
           \/ UNCHANGED <<Reached, pRound, pTranscript, pStatement>>
<1>1. /\ pCfg.kind \in {"Sumcheck", "Intermediate", "Simple"}
      /\ pPc \in {"claims", "poly", "recurse"} => pCfg.kind # "Simple"
      /\ pRound \in 1..Len(chain) /\ Len(chain) \in Nat /\ pStatement \in Seq(Points)
      /\ pPoints \in Points
  BY ChainType, ConfigType
  DEF TypeInv, SessionTypeOK, ProverInv, ProverTypeOK, ProverWalk, pCfg, Kinds
<1>2. pPc # "done" => Reached = [round |-> pRound, phase |-> pPc, transcript |-> pTranscript,
                                 points |-> pPoints, point |-> pStatement[pRound]]
  BY DEF Reached
<1>3. pPc' # "done" => Reached' = [round |-> pRound', phase |-> pPc',
                                   transcript |-> pTranscript', points |-> pPoints',
                                   point |-> pStatement'[pRound']]
  BY DEF Reached
<1>4. CASE SumcheckOpen
  <2>1. /\ pPc = "open" /\ pPc' = "fold" /\ pTranscript' = OpenedAt(chain, pRound, pTranscript)
        /\ pCfg.kind = "Sumcheck" /\ UNCHANGED <<pRound, pPoints, pStatement>>
    BY <1>4, ProverTranscriptsAt DEF SumcheckOpen, PAdvance
  <2>. QED
    BY <1>2, <1>3, <2>1 DEF Stretch, pCfg
<1>5. CASE BasicOpen
  <2>1. /\ pPc = "open" /\ pPc' = "fold" /\ pTranscript' = ImagedAt(chain, pRound, pTranscript)
        /\ pCfg.kind # "Sumcheck" /\ UNCHANGED <<pRound, pPoints, pStatement>>
    BY <1>5, ProverTranscriptsAt DEF BasicOpen, PAdvance
  <2>. QED
    BY <1>2, <1>3, <2>1 DEF Stretch, pCfg
<1>6. CASE SumcheckFold
  <2>1. /\ pPc = "fold" /\ pPc' = "claims" /\ pCfg.kind = "Sumcheck"
        /\ pTranscript' = FoldedAt(chain, pRound, pTranscript)
        /\ UNCHANGED <<pRound, pPoints, pStatement>>
    BY <1>6, ProverTranscriptsAt DEF SumcheckFold, PAdvance
  <2>. QED
    BY <1>2, <1>3, <2>1 DEF Stretch, pCfg
<1>7. CASE IntermediateFold
  <2>1. /\ pPc = "fold" /\ pPc' = "claims" /\ pCfg.kind = "Intermediate"
        /\ pTranscript' = FoldedAt(chain, pRound, pTranscript)
        /\ UNCHANGED <<pRound, pPoints, pStatement>>
    BY <1>7 DEF IntermediateFold, PAdvance, FoldedAt, pItem, pCfg
  <2>. QED
    BY <1>2, <1>3, <2>1 DEF Stretch, pCfg
<1>8. CASE SimpleFold
  <2>1. /\ pPc = "fold" /\ pPc' = "done" /\ pCfg.kind = "Simple"
        /\ pTranscript' = Draw(Absorb(pTranscript, Sent(chain, pRound)["batched"]), "fold")
        /\ UNCHANGED <<pRound, pPoints, pStatement>>
    BY <1>8 DEF SimpleFold, pItem
  <2>2. Reached' = [round |-> pRound, phase |-> "done", transcript |-> pTranscript',
                    points |-> pPoints, point |-> pStatement[pRound]]
    BY <2>1 DEF Reached, pCfg
  <2>. QED
    BY <1>2, <2>1, <2>2 DEF Stretch, pCfg
<1>9. CASE ProverClaims
  <2>1. /\ pPc = "claims" /\ pPc' = "poly" /\ pPoints' = <<>>
        /\ pTranscript' = ClaimedAt(chain, pRound, pTranscript)
        /\ UNCHANGED <<pRound, pStatement>>
    BY <1>9, ProverTranscriptsAt DEF ProverClaims
  <2>. QED
    BY <1>2, <1>3, <2>1 DEF Stretch
<1>10. CASE ContextRefused \/ BoundaryRefused
  BY <1>10 DEF ContextRefused, BoundaryRefused
<1>11. CASE RoundPoly
  <2>1. /\ pPc = "poly" /\ pPc' = "poly" /\ Len(pPoints) < pCfg.vars
        /\ pPoints' = Append(pPoints, LastDraw(pTranscript) + 1)
        /\ pTranscript' = PolyAt(chain, pRound, pTranscript, Len(pPoints) + 1)
        /\ UNCHANGED <<pRound, pStatement>>
    BY <1>11 DEF RoundPoly, PolyAt, pItem
  <2>. QED
    BY <1>2, <1>3, <2>1 DEF Stretch, pCfg
<1>12. CASE CloseSumcheck
  <2>1. /\ pPc = "poly" /\ pPc' = "recurse" /\ Len(pPoints) = pCfg.vars
        /\ pPoints' = Reversed(pPoints)
        /\ pTranscript' = ClosedAt(chain, pRound, pTranscript)
        /\ UNCHANGED <<pRound, pStatement>>
    BY <1>12 DEF CloseSumcheck, ClosedAt, pItem
  <2>. QED
    BY <1>2, <1>3, <2>1 DEF Stretch, pCfg
<1>13. CASE CaptureBoundary \/ FinishChain
  <2>1. /\ pPc = "recurse" /\ pPc' = "done" /\ pCfg.kind # "Simple"
        /\ UNCHANGED <<pRound, pTranscript, pPoints, pStatement, chain>>
    BY <1>1, <1>13 DEF CaptureBoundary, FinishChain
  <2>2. Reached' = Reached
    BY <2>1 DEF Reached, pCfg
  <2>. QED
    BY <2>1, <2>2
<1>14. CASE Descend
  <2>1. /\ pPc = "recurse" /\ pPc' = "open" /\ pRound' = pRound + 1 /\ pRound < Len(chain)
        /\ pStatement' = Append(pStatement, pPoints)
        /\ UNCHANGED <<pTranscript, pPoints>>
    BY <1>14 DEF Descend, HasNext, Last
  <2>2. pStatement'[pRound'] = pPoints
    BY <1>1, <2>1, AppendProperties
  <2>. QED
    BY <1>2, <1>3, <2>1, <2>2 DEF Stretch
<1>. QED
  BY <1>4, <1>5, <1>6, <1>7, <1>8, <1>9, <1>10, <1>11, <1>12, <1>13, <1>14 DEF ProverStep

\* Some walk leads to where the prover is.
LEMMA WalkBegins ==
    ASSUME TypeInv', pPc' = "open", pRound' = 1, pTranscript' = NewTranscript,
           pPoints' = <<>>, pStatement' = <<RootPoint(chain)>>, UNCHANGED chain
    PROVE  \E n \in Nat, w \in [Nat -> WalkStates(chain)] : Walked(w, n)'
<1>1. /\ chain \in Chains /\ 1 \in 1..Len(chain) /\ Len(chain) \in Nat
      /\ chain[1].rows \in Nat /\ chain[1].cols \in Nat
      /\ NewTranscript \in Transcripts(Entry, Labels)
  BY ChainType, ConfigType, NewTranscriptType DEF TypeInv, SessionTypeOK
<1>2. /\ RootPoint(chain) \in Points
      /\ Len(RootPoint(chain)) = chain[1].rows + chain[1].cols
  <2>. DEFINE k == chain[1].cols + chain[1].rows
  <2>1. k \in Nat /\ RootPoint(chain) = [i \in 1..k |-> 0]
    BY <1>1 DEF RootPoint
  <2>2. k = chain[1].rows + chain[1].cols
    BY <1>1
  <2>. HIDE DEF k
  <2>. QED
    BY <2>1, <2>2 DEF Points
<1>3. PICK start : start = WalkStart(chain)
  OBVIOUS
<1>4. start \in WalkStates(chain)
  BY <1>1, <1>2, <1>3 DEF WalkStart, WalkStates, Points
<1>5. PICK w \in [Nat -> WalkStates(chain)] : w[0] = start
  <2>1. [i \in Nat |-> start] \in [Nat -> WalkStates(chain)] /\ [i \in Nat |-> start][0] = start
    BY <1>4
  <2>. QED
    BY <2>1
<1>6. Reached' = start /\ WalkStart(chain)' = start
  BY <1>3 DEF Reached, WalkStart
<1>7. SameChallenges(NewTranscript, NewTranscript)
  BY <1>1, ExtendingClosed DEF Extending
<1>8. /\ start.round = 1 /\ start.transcript = NewTranscript
      /\ start.point = RootPoint(chain)
  BY <1>3 DEF WalkStart
<1>9. \A i \in 0..0 : i = 0
  OBVIOUS
<1>10. Walked(w, 0)'
  BY <1>5, <1>6, <1>7, <1>8, <1>9 DEF Walked
<1>. QED
  BY <1>5, <1>10

LEMMA WalkContinues ==
    ASSUME TypeInv, ProverStep, UNCHANGED chain, pPc' # "panicked",
           NEW n \in Nat, NEW w \in [Nat -> WalkStates(chain)], Walked(w, n)
    PROVE  \E k \in Nat, v \in [Nat -> WalkStates(chain)] : Walked(v, k)'
<1>1. /\ w[0] = WalkStart(chain) /\ w[n] = Reached /\ Len(pStatement) = pRound
      /\ \A i \in 0..(n - 1) : Stretch(chain, w[i], w[i + 1])
      /\ \A i \in 0..n : /\ SameChallenges(w[i].transcript, pTranscript)
                         /\ w[i].round <= pRound
                         /\ pStatement[w[i].round] = w[i].point
  BY DEF Walked
<1>2. /\ chain \in Chains /\ pRound \in 1..Len(chain) /\ Len(chain) \in Nat
      /\ pStatement \in Seq(Points) /\ pPoints \in Points
      /\ pTranscript \in Transcripts(Entry, Labels)
      /\ \A i \in 0..n : w[i] \in WalkStates(chain)
  BY ChainType DEF TypeInv, SessionTypeOK, ProverInv, ProverTypeOK
<1>5. \A i \in 0..n : /\ w[i].transcript \in Transcripts(Entry, Labels)
                      /\ w[i].round \in 1..Len(chain)
  BY <1>2 DEF WalkStates
<1>3. CASE UNCHANGED <<Reached, pRound, pTranscript, pStatement>>
  <2>1. Walked(w, n)'
    BY <1>1, <1>3 DEF Walked
  <2>. QED
    BY <2>1
<1>4. CASE /\ Stretch(chain, Reached, Reached')
           /\ Reached.phase = "recurse" => pRound < Len(chain)
           /\ IF Reached.phase = "recurse"
              THEN pRound' = pRound + 1 /\ pStatement' = Append(pStatement, pPoints)
              ELSE UNCHANGED <<pRound, pStatement>>
  <2>1. PICK u : u = Reached'
    OBVIOUS
  <2>2. /\ Reached \in WalkStates(chain) /\ Reached.round = pRound
        /\ Reached.transcript = pTranscript /\ u.transcript = pTranscript'
        /\ u.round = pRound' /\ u.point = pStatement'[pRound']
    BY <1>1, <1>2, <2>1 DEF Reached
  <2>3. u \in WalkStates(chain) /\ pTranscript' \in Extending(pTranscript)
    BY <1>2, <1>4, <2>1, <2>2, StretchStates
  <2>4. PICK v \in [Nat -> WalkStates(chain)] : v[n + 1] = u /\ \A i \in 0..n : v[i] = w[i]
    <3>1. /\ [w EXCEPT ![n + 1] = u] \in [Nat -> WalkStates(chain)]
          /\ [w EXCEPT ![n + 1] = u][n + 1] = u
          /\ \A i \in 0..n : [w EXCEPT ![n + 1] = u][i] = w[i]
      BY <2>3
    <3>. QED
      BY <3>1
  <2>5. /\ SameChallenges(pTranscript, pTranscript')
        /\ SameChallenges(pTranscript', pTranscript')
    <3>1. pTranscript' \in Transcripts(Entry, Labels)
      BY <2>3 DEF Extending
    <3>. QED
      BY <2>3, <3>1, ExtendingClosed DEF Extending
  <2>6. /\ pRound' >= pRound /\ pRound' \in Nat /\ Len(pStatement') = pRound'
        /\ \A i \in 1..pRound : pStatement'[i] = pStatement[i]
    <3>1. CASE pRound' = pRound + 1 /\ pStatement' = Append(pStatement, pPoints)
      BY <1>1, <1>2, <3>1, AppendProperties
    <3>2. CASE UNCHANGED <<pRound, pStatement>>
      BY <1>1, <1>2, <3>2
    <3>. QED
      BY <1>4, <3>1, <3>2
  <2>7. ASSUME NEW i \in 0..n
        PROVE  /\ SameChallenges(v[i].transcript, pTranscript')
               /\ v[i].round <= pRound'
               /\ pStatement'[v[i].round] = v[i].point
    <3>1. /\ v[i] = w[i] /\ w[i].round \in 1..pRound
          /\ pStatement[w[i].round] = w[i].point
      BY <1>1, <1>2, <1>5, <2>4
    <3>2. SameChallenges(w[i].transcript, pTranscript')
      BY <1>1, <1>2, <1>5, <2>5, SameChallengesTransitive
    <3>. QED
      BY <1>1, <1>2, <2>6, <3>1, <3>2
  <2>8. ASSUME NEW i \in 0..(n + 1)
        PROVE  /\ SameChallenges(v[i].transcript, pTranscript')
               /\ v[i].round <= pRound'
               /\ pStatement'[v[i].round] = v[i].point
    <3>1. i \in 0..n \/ i = n + 1
      OBVIOUS
    <3>2. CASE i = n + 1
      BY <2>2, <2>4, <2>5, <2>6, <3>2
    <3>. QED
      BY <2>7, <3>1, <3>2
  <2>9. ASSUME NEW i \in 0..((n + 1) - 1)
        PROVE  Stretch(chain, v[i], v[i + 1])
    <3>1. CASE i = n
      BY <1>1, <1>4, <2>1, <2>4, <3>1
    <3>2. CASE i # n
      <4>1. i \in 0..(n - 1) /\ i \in 0..n /\ i + 1 \in 0..n
        BY <3>2
      <4>. QED
        BY <1>1, <2>4, <4>1
    <3>. QED
      BY <3>1, <3>2
  <2>10. v[0] = WalkStart(chain) /\ n + 1 \in Nat
    BY <1>1, <2>4
  <2>11. Walked(v, n + 1)'
    BY <2>1, <2>4, <2>6, <2>8, <2>9, <2>10 DEF Walked
  <2>. QED
    BY <2>4, <2>10, <2>11
<1>. QED
  BY <1>1, <1>3, <1>4, ProverStretch

-----------------------------------------------------------------------------
(***************************************************************************)
(* What an honest prover sends gets past the structural pass.              *)
(***************************************************************************)
LEMMA HonestItemFits ==
    ASSUME NEW r, NEW f, NEW shape, NEW pads, Entries(shape) \in Nat,
           pads \subseteq 1..Entries(shape)
    PROVE  /\ FitsShape(HonestItem(r, f, shape, pads), shape)
           /\ ZeroAt(HonestItem(r, f, shape, pads), pads)
<1>1. Len(HonestItem(r, f, shape, pads).data) = Entries(shape)
  BY DEF HonestItem
<1>. QED
  BY <1>1 DEF HonestItem, FitsShape, ZeroAt

LEMMA VectorFits ==
    ASSUME NEW r, NEW f, NEW n \in Nat
    PROVE  FitsShape(HonestItem(r, f, <<n>>, {}), <<n>>)
<1>1. Entries(<<n>>) = n
  BY DEF Entries
<1>. QED
  BY <1>1, HonestItemFits

LEMMA ScalarFits ==
    ASSUME NEW r, NEW f
    PROVE  FitsShape(HonestItem(r, f, <<1>>, {}), <<1>>)
<1>. DEFINE fits(n) == FitsShape(HonestItem(r, f, <<n>>, {}), <<n>>)
<1>1. \A n \in Nat : fits(n)
  BY VectorFits
<1>2. fits(1)
  <2>. HIDE DEF fits
  <2>. QED
    BY <1>1
<1>. QED
  BY <1>2

LEMMA AbsentFits == FitsShape(Absent, NoShape)
BY DEF FitsShape, Absent, NoShape, Entries

\* The commitment a round absorbs has the shape its configuration asks for,
\* and the one it sends the shape the next round's does.
LEMMA CommitmentFits ==
    ASSUME NEW c \in Chains, NEW r \in 1..Len(c)
    PROVE  /\ FitsNextCommitment(SentCommitment(c, r), c, r)
           /\ IF c[r].kind = "Sumcheck"
              THEN FitsShape(CommitmentOf(c, r), <<c[r].rank["commitment"]>>)
              ELSE FitsBasicCommitment(CommitmentOf(c, r), c[r])
<1>1. Len(c) \in Nat
  BY ChainType
<1>2. ASSUME NEW q \in 1..Len(c), HasNext(c, q)
      PROVE  IF c[q + 1].kind = "Sumcheck"
             THEN FitsShape(SentCommitment(c, q), <<c[q + 1].rank["commitment"]>>)
             ELSE FitsBasicCommitment(SentCommitment(c, q), c[q + 1])
  <2>. DEFINE nxt == c[q + 1]
              shape == BasicCommitmentShape(nxt)
  <2>1. q + 1 \in 1..Len(c)
    BY <1>1, <1>2 DEF HasNext, Last
  <2>2. /\ nxt.rank["commitment"] \in Nat /\ Width(nxt) \in Nat
        /\ NextPowerOfTwo(nxt.rank["commitment"]) \in Nat
    BY <2>1, ConfigType DEF Roots
  <2>3. CASE nxt.kind = "Sumcheck"
    BY <1>2, <2>2, <2>3, VectorFits DEF SentCommitment
  <2>4. CASE nxt.kind # "Sumcheck"
    <3>1. SentCommitment(c, q) = HonestItem(q, "next", shape, PaddingRows(nxt))
      BY <1>2, <2>4 DEF SentCommitment
    <3>2. Entries(shape) \in Nat
      BY <2>2 DEF Entries, BasicCommitmentShape
    <3>3. PaddingRows(nxt) \subseteq 1..Entries(shape)
      <4>1. nxt.rank["commitment"] * Width(nxt) \in Nat
        BY <2>2
      <4>. QED
        BY <3>2, <4>1 DEF PaddingRows
    <3>4. FitsBasicCommitment(SentCommitment(c, q), nxt)
      <4>. HIDE DEF nxt, shape
      <4>1. /\ FitsShape(SentCommitment(c, q), shape)
            /\ ZeroAt(SentCommitment(c, q), PaddingRows(nxt))
        BY <3>1, <3>2, <3>3, HonestItemFits
      <4>. QED
        BY <4>1 DEF FitsBasicCommitment, shape
    <3>. QED
      BY <2>4, <3>4
  <2>. QED
    BY <2>3, <2>4
<1>3. FitsNextCommitment(SentCommitment(c, r), c, r)
  <2>1. CASE HasNext(c, r)
    BY <1>2, <2>1 DEF FitsNextCommitment
  <2>2. CASE ~HasNext(c, r)
    BY <2>2, AbsentFits DEF FitsNextCommitment, SentCommitment
  <2>. QED
    BY <2>1, <2>2
<1>4. CASE r = 1
  <2>1. c[1].rank["commitment"] \in Nat /\ c[1].kind = "Sumcheck"
    BY <1>4, ChainType, ConfigType DEF Roots
  <2>2. FitsShape(CommitmentOf(c, 1), <<c[1].rank["commitment"]>>)
    BY <2>1, VectorFits DEF CommitmentOf, RootCommitment
  <2>. QED
    BY <1>3, <1>4, <2>1, <2>2
<1>5. CASE r # 1
  <2>. DEFINE q == r - 1
  <2>1. q \in 1..Len(c) /\ HasNext(c, q) /\ q + 1 = r
    BY <1>1, <1>5 DEF HasNext, Last
  <2>2. CommitmentOf(c, r) = SentCommitment(c, q)
    BY <1>5 DEF CommitmentOf
  <2>. HIDE DEF q
  <2>. QED
    BY <1>2, <1>3, <2>1, <2>2
<1>. QED
  BY <1>4, <1>5

\* Every round opens at as many claims as the statement of it makes.
LEMMA ClaimsFit ==
    ASSUME NEW c \in Chains, NEW r \in 1..Len(c)
    PROVE  Len(TrueClaims(c, r)) = c[r].openings
<1>1. CASE r = 1
  <2>1. c[1].openings \in Nat
    BY <1>1, ConfigType
  <2>. QED
    BY <1>1, <2>1 DEF TrueClaims, RootClaims
<1>2. CASE r # 1
  <2>. DEFINE q == r - 1
  <2>1. Len(c) \in Nat
    BY ChainType
  <2>2. q \in 1..Len(c) /\ HasNext(c, q) /\ q + 1 = r
    BY <1>2, <2>1 DEF HasNext, Last
  <2>3. c[r].openings = 2
    <3>. HIDE DEF q
    <3>. QED
      BY <2>2, ChainsAssumption DEF WellFormed, Follows
  <2>4. Len(TrueClaims(c, r)) = 2
    BY <1>2 DEF TrueClaims
  <2>. QED
    BY <2>3, <2>4
<1>. QED
  BY <1>1, <1>2

LEMMA SumcheckShapeFits ==
    ASSUME NEW c \in Chains, NEW r \in 1..Len(c), c[r].kind = "Sumcheck",
           NEW statement, statement.commitment = CommitmentOf(c, r),
           statement.claims = TrueClaims(c, r),
           Len(statement.point) = c[r].rows + c[r].cols
    PROVE  SumcheckShapePasses(c, r, Sent(c, r), statement)
<1>. DEFINE cfg == c[r]
            sent(f) == SumcheckSent(c, r)[f]
<1>1. /\ \A f \in Roots : cfg.rank[f] \in Nat
      /\ cfg.vars \in Nat /\ NofBatches \in Nat
      /\ cfg.projection \in Projections /\ cfg.exactProjectionNorm \in BOOLEAN
  BY ConfigType, NofBatchesAssumption
<1>2. Sent(c, r) = SumcheckSent(c, r)
  BY DEF Sent
<1>3. Len(statement.claims) = cfg.openings
  BY ClaimsFit
<1>4. FitsShape(statement.commitment, <<cfg.rank["commitment"]>>)
  BY CommitmentFits
<1>5. FitsPolys(sent("polys"), cfg)
  BY <1>1, VectorFits DEF SumcheckSent, FitsPolys, Fields
<1>6. FitsShape(sent("projectionNorm"), OptionalShape(HasProjectionNorm(cfg), <<1>>))
  BY ScalarFits, AbsentFits DEF SumcheckSent, OptionalShape, Fields
<1>7. FitsShape(sent("opening"), <<cfg.rank["opening"]>>)
  BY <1>1, VectorFits DEF SumcheckSent, Fields, Roots
<1>8. FitsShape(sent("coarse"),
                OptionalShape(cfg.projection = "Coarse", <<cfg.rank["coarse"]>>))
  BY <1>1, VectorFits, AbsentFits DEF SumcheckSent, OptionalShape, Fields, Roots
<1>9. \A f \in {"constantTerm", "batched"} :
        FitsShape(sent(f), OptionalShape(cfg.projection = "Fine", <<cfg.rank[f]>>))
  BY <1>1, VectorFits, AbsentFits DEF SumcheckSent, OptionalShape, Fields, Roots
<1>10. FitsShape(sent("constantTermClaims"),
                 OptionalShape(cfg.projection = "Fine", <<NofBatches>>))
  BY <1>1, VectorFits, AbsentFits DEF SumcheckSent, OptionalShape, Fields
<1>11. FitsNextCommitment(sent("next"), c, r)
  BY CommitmentFits DEF SumcheckSent, Fields
<1>. QED
  BY <1>2, <1>3, <1>4, <1>5, <1>6, <1>7, <1>8, <1>9, <1>10, <1>11 DEF SumcheckShapePasses

LEMMA LastColumnFits ==
    ASSUME NEW rows \in Nat, NEW width \in Nat \ {0}
    PROVE  LastColumn(rows, width) \subseteq 1..(rows * width)
<1>1. SUFFICES ASSUME NEW i \in 1..rows PROVE i * width \in 1..(rows * width)
  BY DEF LastColumn
<1>2. (rows - i) * width \in Nat /\ (i - 1) * width \in Nat
  <2>1. rows - i \in Nat /\ i - 1 \in Nat
    OBVIOUS
  <2>2. \A a, b \in Nat : a * b \in Nat
    OBVIOUS
  <2>. QED
    BY <2>1, <2>2
<1>3. (rows - i) * width = rows * width - i * width /\ (i - 1) * width = i * width - width
  OBVIOUS
<1>. QED
  BY <1>2, <1>3

LEMMA BasicShapeFits ==
    ASSUME NEW c \in Chains, NEW r \in 1..Len(c), c[r].kind # "Sumcheck",
           NEW statement, statement.commitment = CommitmentOf(c, r),
           statement.claims = TrueClaims(c, r)
    PROVE  BasicShapePasses(c, r, Sent(c, r), statement)
<1>. DEFINE cfg == c[r]
            w == Width(cfg)
            k == cfg.openings
            sent(f) == BasicSent(c, r)[f]
<1>1. /\ cfg.vars \in Nat /\ NofBatches \in Nat /\ cfg.image \in Nat /\ k \in Nat
      /\ w \in Nat \ {0} /\ Height(cfg) \in Nat
      /\ cfg.kind \in {"Intermediate", "Simple"}
  BY ConfigType, NofBatchesAssumption DEF Kinds
<1>2. Sent(c, r) = BasicSent(c, r)
  BY DEF Sent
<1>3. Len(statement.claims) = k
  BY ClaimsFit
<1>4. FitsBasicCommitment(statement.commitment, cfg)
  BY CommitmentFits
<1>5. FitsShape(sent("opening"), <<k, w>>) /\ ZeroAt(sent("opening"), LastColumn(k, w))
  <2>1. sent("opening") = HonestItem(r, "opening", <<k, w>>, LastColumn(k, w))
    BY DEF BasicSent, Fields
  <2>. HIDE DEF k, w
  <2>2. Entries(<<k, w>>) = k * w /\ k * w \in Nat
    BY <1>1 DEF Entries
  <2>3. LastColumn(k, w) \subseteq 1..(k * w)
    BY <1>1, LastColumnFits
  <2>. QED
    BY <2>1, <2>2, <2>3, HonestItemFits
<1>6. FitsShape(sent("image"), <<cfg.image, w, w>>)
  <2>1. sent("image") = HonestItem(r, "image", <<cfg.image, w, w>>, {})
    BY DEF BasicSent, Fields
  <2>2. \A a, b \in Nat : Entries(<<a, b, b>>) \in Nat
    BY DEF Entries
  <2>3. Entries(<<cfg.image, w, w>>) \in Nat
    BY <1>1, <2>2
  <2>. QED
    BY <2>1, <2>3, HonestItemFits
<1>7. FitsShape(sent("batched"), <<NofBatches, w>>)
  <2>1. sent("batched") = HonestItem(r, "batched", <<NofBatches, w>>, {})
    BY DEF BasicSent, Fields
  <2>2. \A a, b \in Nat : Entries(<<a, b>>) \in Nat
    BY DEF Entries
  <2>3. Entries(<<NofBatches, w>>) \in Nat
    BY <1>1, <2>2
  <2>. QED
    BY <2>1, <2>3, HonestItemFits
<1>8. CASE cfg.kind = "Simple"
  <2>1. sent("folded") = HonestItem(r, "folded", <<Height(cfg), 1, 1>>, {})
    BY <1>8 DEF BasicSent, Fields
  <2>2. \A a \in Nat : Entries(<<a, 1, 1>>) \in Nat
    BY DEF Entries
  <2>3. Entries(<<Height(cfg), 1, 1>>) \in Nat
    BY <1>1, <2>2
  <2>4. FitsShape(sent("folded"), <<Height(cfg), 1, 1>>)
    BY <2>1, <2>3, HonestItemFits
  <2>. QED
    BY <1>2, <1>3, <1>4, <1>5, <1>6, <1>7, <1>8, <2>4 DEF BasicShapePasses
<1>9. CASE cfg.kind = "Intermediate"
  <2>1. FitsPolys(sent("polys"), cfg)
    BY <1>1, <1>9, VectorFits DEF BasicSent, FitsPolys, Fields
  <2>2. FitsNextCommitment(sent("next"), c, r)
    BY CommitmentFits DEF BasicSent, Fields
  <2>. QED
    BY <1>2, <1>3, <1>4, <1>5, <1>6, <1>7, <1>9, <2>1, <2>2 DEF BasicShapePasses
<1>. QED
  BY <1>1, <1>8, <1>9

\* check_sumcheck_round_shape and its kin let an honest round through.
LEMMA HonestShapePasses ==
    ASSUME NEW c \in Chains, NEW r \in 1..Len(c),
           NEW statement, statement.commitment = CommitmentOf(c, r),
           statement.claims = TrueClaims(c, r),
           Len(statement.point) = c[r].rows + c[r].cols
    PROVE  ShapePasses(c, r, Sent(c, r), statement)
BY SumcheckShapeFits, BasicShapeFits DEF ShapePasses

-----------------------------------------------------------------------------
(***************************************************************************)
(* The verifier of an unaltered proof.                                     *)
(***************************************************************************)


\* An unaltered proof, verified up to the cut it was made with.
Paired == fault = "none" /\ asked.vCut = asked.pCut

\* The state of the walk the verifier is in: the structural pass comes before
\* a round is opened, the checks of a simple round after its last challenge.
VerifierReached ==
    [round |-> vRound,
     phase |-> CASE vPc = "shape" -> "open" [] vPc = "close" -> "done" [] OTHER -> vPc,
     transcript |-> vTranscript, points |-> vPoints, point |-> vStatement.point]

\* The verifier reads the prover's proof against the statement the prover
\* proved.
ReadsProof ==
    /\ received = pProof
    /\ vStatement.commitment = CommitmentOf(chain, vRound)
    /\ vStatement.claims = TrueClaims(chain, vRound)

OnWalk(w, n) == ReadsProof /\ \E m \in 0..n : VerifierReached = w[m]

WalkedInv ==
    PRunning \/ pPc = "done" =>
      \E n \in Nat, w \in [Nat -> WalkStates(chain)] :
        /\ Walked(w, n)
        /\ Paired /\ VRunning => OnWalk(w, n)

\* A paired verifier that turned the proof away had a used context.
RefusedInv == Paired /\ vPc = "rejected" => vReason = "context"

\* A boundary is captured when a party stops at its cut, from what it has then.
BoundaryInv ==
    /\ pPc # "done" => pBoundary = {}
    /\ \A b \in pBoundary : /\ b.round = pRound + 1 /\ b.point = pPoints
                            /\ b.commitment = SentCommitment(chain, pRound)
                            /\ b.transcript = pTranscript
    /\ vPc # "accepted" => vBoundary = {}
    /\ Paired =>
         \A b \in vBoundary : /\ b.round = pRound + 1 /\ b.point = pPoints
                              /\ b.commitment = SentCommitment(chain, pRound)
                              /\ b.transcript = pTranscript
                              /\ b.claims = TrueClaims(chain, b.round)

FaithInv == WalkedInv /\ RefusedInv /\ BoundaryInv

-----------------------------------------------------------------------------
(***************************************************************************)
(* On honest items the verifier's stretches are the prover's.              *)
(***************************************************************************)
LEMMA AbsorbNothing ==
    ASSUME NEW t \in Transcripts(Entry, Labels)
    PROVE  Absorb(t, Absent) = t
<1>1. t.absorbed \in Seq(Entry)
  BY DEF Transcripts
<1>2. t.absorbed \o <<>> = t.absorbed
  BY <1>1
<1>. QED
  BY <1>2 DEF Absorb, Absent, Transcripts

\* What a round leaves out, and what a projection does not.
LEMMA SentItems ==
    ASSUME NEW c \in Chains, NEW r \in 1..Len(c)
    PROVE  /\ c[r].kind = "Sumcheck" =>
                /\ c[r].projection # "Coarse" => Sent(c, r)["coarse"] = Absent
                /\ (c[r].projection = "Fine") <=> (Sent(c, r)["constantTerm"] # Absent)
           /\ c[r].kind = "Intermediate" =>
                \A f \in {"mostInnerNorm", "projectionNorm", "constantTermClaims"} :
                  Sent(c, r)[f] = Absent
           /\ Sent(c, r)["next"] = SentCommitment(c, r)
<1>1. CASE c[r].kind = "Sumcheck"
  <2>. DEFINE item == HonestItem(r, "constantTerm", <<c[r].rank["constantTerm"]>>, {})
  <2>1. item # Absent
    <3>1. item.shape = <<c[r].rank["constantTerm"]>> /\ Absent.shape = <<>>
      BY DEF HonestItem, Absent, NoShape
    <3>2. Len(item.shape) = 1 /\ Len(Absent.shape) = 0
      BY <3>1
    <3>. QED
      BY <3>2
  <2>2. /\ c[r].projection # "Coarse" => Sent(c, r)["coarse"] = Absent
        /\ Sent(c, r)["constantTerm"] = IF c[r].projection = "Fine" THEN item ELSE Absent
        /\ Sent(c, r)["next"] = SentCommitment(c, r)
    BY <1>1 DEF Sent, SumcheckSent, Fields
  <2>. HIDE DEF item
  <2>. QED
    BY <1>1, <2>1, <2>2
<1>2. CASE c[r].kind # "Sumcheck"
  BY <1>2 DEF Sent, BasicSent, Fields
<1>. QED
  BY <1>1, <1>2

\* The items the verifier reads are the ones the prover sent.
LEMMA ReadItems ==
    ASSUME TypeInv, vPc # "idle", received = pProof
    PROVE  /\ \A f : vItem(f) = Sent(chain, vRound)[f]
           /\ vRound \in 1..Len(pProof)
           /\ \A r \in 1..Len(pProof) : received[r].kind = chain[r].kind
<1>1. SentProof(chain, pProof) /\ vRound \in 1..Len(pProof)
  BY DEF TypeInv, ProverInv, ProverWalk, VerifierInv, VerifierWalk
<1>2. \A r \in 1..Len(pProof) :
        pProof[r].kind = chain[r].kind /\ pProof[r].items = Sent(chain, r)
  BY <1>1, SentRound
<1>. QED
  BY <1>1, <1>2 DEF vItem, vProof

LEMMA VerifierTranscriptsAt ==
    ASSUME TypeInv, vPc # "idle", ReadsProof, NEW t \in Transcripts(Entry, Labels)
    PROVE  /\ VOpened(t) = OpenedAt(chain, vRound, t)
           /\ VImaged(t) = ImagedAt(chain, vRound, t)
           /\ vCfg.kind = "Sumcheck" => /\ VFolded(t) = FoldedAt(chain, vRound, t)
                                        /\ VClaimed(t) = ClaimedAt(chain, vRound, t)
           /\ vCfg.kind = "Intermediate" =>
                Draw(Draw(Absorb(t, vItem("norm")), "combination"), "toField")
                  = ClaimedAt(chain, vRound, t)
           /\ VClosed(t) = ClosedAt(chain, vRound, t)
<1>. DEFINE c == chain
            r == vRound
            T == Transcripts(Entry, Labels)
<1>1. c \in Chains /\ r \in 1..Len(c) /\ c[r].projection \in {"Coarse", "Fine", "Skip"}
  BY ConfigType DEF TypeInv, SessionTypeOK, VerifierInv, VerifierTypeOK, Projections
<1>2. \A f : vItem(f) = Sent(c, r)[f]
  BY ReadItems DEF ReadsProof
<1>3. VOpened(t) = OpenedAt(c, r, t)
  BY <1>2 DEF VOpened, OpenedAt, ReadsProof
<1>4. VImaged(t) = ImagedAt(c, r, t)
  BY <1>2, <1>3 DEF VImaged, ImagedAt
<1>5. vCfg.kind = "Sumcheck" => VFolded(t) = FoldedAt(c, r, t)
  <2>. SUFFICES ASSUME c[r].kind = "Sumcheck" PROVE VFolded(t) = FoldedAt(c, r, t)
    BY DEF vCfg
  <2>1. /\ c[r].projection # "Coarse" => Sent(c, r)["coarse"] = Absent
        /\ (c[r].projection = "Fine") <=> (Sent(c, r)["constantTerm"] # Absent)
    BY <1>1, SentItems
  <2>2. Absorb(t, Absent) = t
    BY AbsorbNothing
  <2>. DEFINE coarse == Absorb(t, vItem("coarse"))
              projected ==
                IF vItem("constantTerm") # Absent
                THEN Absorb(Draw(Absorb(coarse, vItem("constantTerm")), "batching"),
                            vItem("batched"))
                ELSE coarse
  <2>3. projected = ProjectedAt(c, r, t)
    BY <1>1, <1>2, <2>1, <2>2 DEF ProjectedAt
  <2>4. VFolded(t) = Absorb(Draw(projected, "fold"), vItem("next"))
    BY DEF VFolded
  <2>. HIDE DEF projected
  <2>. QED
    BY <1>2, <2>3, <2>4 DEF FoldedAt
<1>6. vCfg.kind = "Sumcheck" => VClaimed(t) = ClaimedAt(c, r, t)
  BY <1>2 DEF VClaimed, VFlattened, ClaimedAt, FlattenedAt, vCfg
<1>7. vCfg.kind = "Intermediate" =>
        Draw(Draw(Absorb(t, vItem("norm")), "combination"), "toField") = ClaimedAt(c, r, t)
  <2>. SUFFICES ASSUME c[r].kind = "Intermediate"
                PROVE  Draw(Draw(Absorb(t, vItem("norm")), "combination"), "toField")
                         = ClaimedAt(c, r, t)
    BY DEF vCfg
  <2>1. \A f \in {"mostInnerNorm", "projectionNorm", "constantTermClaims"} :
          Sent(c, r)[f] = Absent
    BY <1>1, SentItems
  <2>2. PICK u : u = Absorb(t, vItem("norm"))
    OBVIOUS
  <2>3. u \in T
    BY <2>2, AbsorbType, VerifierItemType DEF TypeInv, Fields
  <2>4. Absorb(u, Absent) = u
    BY <2>3, AbsorbNothing
  <2>. QED
    BY <1>2, <2>1, <2>2, <2>4 DEF ClaimedAt, FlattenedAt
<1>8. VClosed(t) = ClosedAt(c, r, t)
  BY <1>2 DEF VClosed, ClosedAt
<1>. QED
  BY <1>3, <1>4, <1>5, <1>6, <1>7, <1>8

\* The claims of a round's last variable are what the next round verifies.
LEMMA NextStatement ==
    ASSUME TypeInv, vPc # "idle", ReadsProof, vCfg.kind # "Simple"
    PROVE  /\ vItem("next") = CommitmentOf(chain, vRound + 1)
           /\ vItem("next") = SentCommitment(chain, vRound)
           /\ NextClaims = TrueClaims(chain, vRound + 1)
<1>. DEFINE c == chain
            r == vRound
<1>1. /\ c \in Chains /\ r \in 1..Len(c) /\ Len(c) \in Nat
      /\ c[r].kind \in {"Sumcheck", "Intermediate"}
  BY ChainType, ConfigType
  DEF TypeInv, SessionTypeOK, VerifierInv, VerifierTypeOK, Kinds, vCfg
<1>2. \A f : vItem(f) = Sent(c, r)[f]
  BY ReadItems DEF ReadsProof
<1>3. r + 1 # 1 /\ (r + 1) - 1 = r
  BY <1>1
<1>4. vItem("next") = SentCommitment(c, r)
  BY <1>1, <1>2, SentItems
<1>5. CommitmentOf(c, r + 1) = SentCommitment(c, r)
  BY <1>3 DEF CommitmentOf
<1>6. \A f \in {"z0", "z1"} : vItem(f).data[1] = <<r, f, 1>>
  <2>1. \A f \in {"z0", "z1"} : vItem(f) = HonestItem(r, f, <<1>>, {})
    BY <1>1, <1>2 DEF Sent, SumcheckSent, BasicSent, Fields
  <2>2. Len(<<1>>) = 1 /\ <<1>>[1] = 1
    OBVIOUS
  <2>3. Entries(<<1>>) = 1
    BY <2>2 DEF Entries
  <2>4. \A f : HonestItem(r, f, <<1>>, {}).data = [i \in 1..1 |-> <<r, f, i>>]
    BY <2>3 DEF HonestItem
  <2>5. \A f : [i \in 1..1 |-> <<r, f, i>>][1] = <<r, f, 1>>
    OBVIOUS
  <2>. QED
    BY <2>1, <2>4, <2>5, Zenon
<1>7. NextClaims = TrueClaims(c, r + 1)
  BY <1>3, <1>6 DEF NextClaims, TrueClaims
<1>. QED
  BY <1>4, <1>5, <1>7

\* The steps that end a verification no equation fails in.
VStops ==
    VContextRefused \/ VSimpleClose(TRUE) \/ VCaptureBoundary \/ VAcceptChain \/ VChainRefused

\* Every other step of the verifier is a stretch of the walk, or the structural
\* pass.
LEMMA VerifierStretch ==
    ASSUME TypeInv, VRunning, ReadsProof, VerifierReached \in WalkStates(chain),
           VerifierStep(TRUE), ~VStops, UNCHANGED chain
    PROVE  /\ VRunning'
           /\ \/ UNCHANGED <<VerifierReached, vRound, vStatement>>
              \/ /\ Stretch(chain, VerifierReached, VerifierReached')
                 /\ \/ VDescend
                    \/ /\ VerifierReached.phase \notin {"recurse", "done"}
                       /\ UNCHANGED <<vRound, vStatement>>
<1>. DEFINE c == chain
            r == vRound
            t == vTranscript
<1>1. /\ c \in Chains /\ r \in 1..Len(c) /\ Len(c) \in Nat /\ vPc # "idle"
      /\ vCfg.kind \in {"Sumcheck", "Intermediate", "Simple"}
      /\ vPc \in {"claims", "poly", "recurse"} => vCfg.kind # "Simple"
      /\ t \in Transcripts(Entry, Labels)
  BY ChainType, ConfigType
  DEF TypeInv, SessionTypeOK, VerifierInv, VerifierTypeOK, VerifierWalk, VRunning, vCfg,
      Kinds
<1>2. \A f : vItem(f) = Sent(c, r)[f]
  BY <1>1, ReadItems DEF ReadsProof
<1>3. /\ VOpened(t) = OpenedAt(c, r, t)
      /\ VImaged(t) = ImagedAt(c, r, t)
      /\ vCfg.kind = "Sumcheck" => /\ VFolded(t) = FoldedAt(c, r, t)
                                   /\ VClaimed(t) = ClaimedAt(c, r, t)
      /\ vCfg.kind = "Intermediate" =>
           Draw(Draw(Absorb(t, vItem("norm")), "combination"), "toField") = ClaimedAt(c, r, t)
      /\ VClosed(t) = ClosedAt(c, r, t)
  BY <1>1, VerifierTranscriptsAt
<1>4. vPc \notin {"shape", "close"} =>
        VerifierReached = [round |-> r, phase |-> vPc, transcript |-> t, points |-> vPoints,
                           point |-> vStatement.point]
  BY DEF VerifierReached
<1>5. vPc' \notin {"shape", "close"} =>
        VerifierReached' = [round |-> vRound', phase |-> vPc', transcript |-> vTranscript',
                            points |-> vPoints', point |-> vStatement'.point]
  BY DEF VerifierReached
<1>6. CASE CheckShape
  <2>1. Len(vStatement.point) = c[r].rows + c[r].cols
    BY DEF WalkStates, VerifierReached
  <2>2. vProof.items = Sent(c, r)
    <3>1. SentProof(c, pProof) /\ r \in 1..Len(pProof)
      BY <1>1, ReadItems DEF ReadsProof, TypeInv, ProverInv, ProverWalk
    <3>. QED
      BY <3>1, SentRound DEF ReadsProof, vProof
  <2>3. ShapePasses(c, r, vProof.items, vStatement)
    BY <1>1, <2>1, <2>2, HonestShapePasses DEF ReadsProof
  <2>4. /\ vPc = "shape" /\ vPc' = "open"
        /\ UNCHANGED <<vRound, vTranscript, vPoints, vStatement>>
    BY <1>6, <2>3 DEF CheckShape, VAdvance
  <2>. QED
    BY <2>4 DEF VerifierReached, VRunning
<1>7. CASE VSumcheckOpen
  <2>1. /\ vPc = "open" /\ vPc' = "fold" /\ vCfg.kind = "Sumcheck"
        /\ vTranscript' = OpenedAt(c, r, t) /\ UNCHANGED <<vRound, vPoints, vStatement>>
    BY <1>3, <1>7 DEF VSumcheckOpen
  <2>. QED
    BY <1>4, <1>5, <2>1 DEF Stretch, vCfg, VRunning
<1>8. CASE VBasicOpen
  <2>1. /\ vPc = "open" /\ vPc' = "fold" /\ vCfg.kind # "Sumcheck"
        /\ vTranscript' = ImagedAt(c, r, t) /\ UNCHANGED <<vRound, vPoints, vStatement>>
    BY <1>3, <1>8 DEF VBasicOpen, VAdvance
  <2>. QED
    BY <1>4, <1>5, <2>1 DEF Stretch, vCfg, VRunning
<1>9. CASE VSumcheckFold \/ VIntermediateFold(TRUE)
  <2>1. /\ vPc = "fold" /\ vPc' = "claims" /\ vCfg.kind # "Simple"
        /\ vTranscript' = FoldedAt(c, r, t) /\ UNCHANGED <<vRound, vPoints, vStatement>>
    <3>1. CASE VSumcheckFold
      BY <1>3, <3>1 DEF VSumcheckFold, VAdvance
    <3>2. CASE VIntermediateFold(TRUE)
      BY <1>2, <3>2 DEF VIntermediateFold, VAdvance, FoldedAt, vCfg
    <3>. QED
      BY <1>9, <3>1, <3>2
  <2>. QED
    BY <1>4, <1>5, <2>1 DEF Stretch, vCfg, VRunning
<1>10. CASE VSimpleFold
  <2>1. /\ vPc = "fold" /\ vPc' = "close" /\ vCfg.kind = "Simple"
        /\ vTranscript' = Draw(Absorb(t, Sent(c, r)["batched"]), "fold")
        /\ UNCHANGED <<vRound, vPoints, vStatement>>
    BY <1>2, <1>10 DEF VSimpleFold, VAdvance
  <2>2. VerifierReached' = [round |-> r, phase |-> "done", transcript |-> vTranscript',
                            points |-> vPoints, point |-> vStatement.point]
    BY <2>1 DEF VerifierReached
  <2>. QED
    BY <1>4, <2>1, <2>2 DEF Stretch, vCfg, VRunning
<1>11. CASE VSumcheckClaims(TRUE) \/ VIntermediateClaims(TRUE)
  <2>1. /\ vPc = "claims" /\ vPc' = "poly" /\ vPoints' = <<>>
        /\ vTranscript' = ClaimedAt(c, r, t) /\ UNCHANGED <<vRound, vStatement>>
    BY <1>3, <1>11 DEF VSumcheckClaims, VIntermediateClaims
  <2>. QED
    BY <1>4, <1>5, <2>1 DEF Stretch, VRunning
<1>12. CASE VRoundPoly(TRUE) \/ VCloseSumcheck(TRUE)
  <2>1. vPc = "poly" /\ Len(vItem("polys").data) = c[r].vars
    BY <1>1, <1>2, <1>12, SentType DEF VRoundPoly, VCloseSumcheck, vCfg
  <2>2. CASE VRoundPoly(TRUE)
    <3>1. /\ vPc' = "poly" /\ Len(vPoints) < c[r].vars
          /\ vPoints' = Append(vPoints, LastDraw(t) + 1)
          /\ vTranscript' = PolyAt(c, r, t, Len(vPoints) + 1)
          /\ UNCHANGED <<vRound, vStatement>>
      BY <1>2, <2>1, <2>2 DEF VRoundPoly, PolyAt
    <3>. QED
      BY <1>4, <1>5, <2>1, <3>1 DEF Stretch, VRunning
  <2>3. CASE VCloseSumcheck(TRUE)
    <3>1. /\ vPc' = "recurse" /\ Len(vPoints) = c[r].vars /\ vPoints' = Reversed(vPoints)
          /\ vTranscript' = ClosedAt(c, r, t) /\ UNCHANGED <<vRound, vStatement>>
      BY <1>3, <2>1, <2>3 DEF VCloseSumcheck
    <3>. QED
      BY <1>4, <1>5, <2>1, <3>1 DEF Stretch, VRunning
  <2>. QED
    BY <1>12, <2>2, <2>3
<1>13. CASE VDescend
  <2>1. /\ vPc = "recurse" /\ vPc' = "shape" /\ vRound' = r + 1
        /\ vStatement'.point = vPoints /\ UNCHANGED <<vTranscript, vPoints>>
    BY <1>13 DEF VDescend
  <2>2. VerifierReached' = [round |-> r + 1, phase |-> "open", transcript |-> t,
                            points |-> vPoints, point |-> vPoints]
    BY <2>1 DEF VerifierReached
  <2>. QED
    BY <1>4, <1>13, <2>1, <2>2 DEF Stretch, VRunning
<1>. QED
  BY <1>6, <1>7, <1>8, <1>9, <1>10, <1>11, <1>12, <1>13 DEF VerifierStep, VStops

\* A state of the walk leads to one state.
LEMMA StretchIsDetermined ==
    ASSUME NEW c, NEW s, NEW u, NEW v, Stretch(c, s, u), Stretch(c, s, v)
    PROVE  u = v
<1>. DEFINE r == s.round
            t == s.transcript
<1>1. CASE s.phase = "open"
  BY <1>1 DEF Stretch
<1>2. CASE s.phase = "fold"
  BY <1>2 DEF Stretch
<1>3. CASE s.phase = "poly"
  BY <1>3 DEF Stretch
<1>4. CASE s.phase \in {"claims", "recurse"}
  BY <1>4 DEF Stretch
<1>. QED
  BY <1>1, <1>2, <1>3, <1>4 DEF Stretch

-----------------------------------------------------------------------------
(***************************************************************************)
(* The steps of a paired verifier that is on the prover's walk.            *)
(***************************************************************************)

\* What a verifier on the walk has read and drawn is the prover's, so every
\* equation it checks holds.
LEMMA OnWalkIsFaithful ==
    ASSUME TypeInv, vPc # "idle", NEW n \in Nat, NEW w, Walked(w, n), OnWalk(w, n)
    PROVE  Faithful
<1>1. PICK m \in 0..n : VerifierReached = w[m]
  BY DEF OnWalk
<1>2. /\ SameChallenges(w[m].transcript, pTranscript)
      /\ pStatement[w[m].round] = w[m].point
  BY DEF Walked
<1>3. /\ VerifierReached.transcript = vTranscript /\ VerifierReached.round = vRound
      /\ VerifierReached.point = vStatement.point
  BY DEF VerifierReached
<1>. QED
  BY <1>1, <1>2, <1>3 DEF Faithful, OnWalk, ReadsProof

\* Where a prover stops, and where a paired verifier then stands.
LEMMA PairedCuts ==
    ASSUME TypeInv, CallInv, WalkInv, Paired, VRunning, vRound <= pRound
    PROVE  /\ Len(pProof) = pRound /\ pRound \in 1..Len(chain)
           /\ vRound < pRound =>
                vCut # 1 /\ (vCut = 0 \/ chain[vRound + 1].kind = "Sumcheck")
           /\ vRound = pRound /\ vCfg.kind # "Simple" =>
                \/ vCut = 1 /\ VNextIsSumcheck
                \/ vCut = 0 /\ ~HasNext(chain, vRound)
<1>1. /\ pPc = "done" /\ ProverCut /\ ProverStopped /\ CutLeft
      /\ asked.vCut = asked.pCut
  BY DEF CallInv, VRunning, WalkInv, Paired
<1>2. /\ Len(pProof) = pRound /\ pRound \in 1..Len(chain) /\ vRound \in 1..Len(chain)
      /\ vCut \in Nat /\ asked.vCut \in Nat /\ pCut \in Nat
      /\ chain \in Chains /\ Len(chain) \in Nat
  BY <1>1, ChainType
  DEF TypeInv, ProverInv, ProverWalk, ProverTypeOK, VerifierInv, VerifierTypeOK,
      SessionTypeOK
<1>3. ASSUME vRound < pRound
      PROVE  vCut # 1 /\ (vCut = 0 \/ chain[vRound + 1].kind = "Sumcheck")
  <2>1. CASE asked.vCut = 0
    BY <1>1, <2>1 DEF CutLeft
  <2>2. CASE asked.vCut # 0
    <3>1. vRound + vCut = asked.vCut + 1 /\ pCut # 0 /\ pRound + pCut = asked.vCut + 1
      BY <1>1, <2>2 DEF CutLeft, ProverCut
    <3>2. vRound + 1 \in 1..pRound /\ vCut # 1
      BY <1>2, <1>3, <3>1
    <3>. QED
      BY <1>1, <2>2, <3>2 DEF ProverCut
  <2>. QED
    BY <2>1, <2>2
<1>4. ASSUME vRound = pRound, vCfg.kind # "Simple"
      PROVE  \/ vCut = 1 /\ VNextIsSumcheck
             \/ vCut = 0 /\ ~HasNext(chain, vRound)
  <2>1. pCfg.kind # "Simple"
    BY <1>4 DEF pCfg, vCfg
  <2>2. CASE asked.pCut = pRound /\ NextIsSumcheck
    <3>1. asked.vCut # 0 /\ vRound + vCut = asked.vCut + 1
      BY <1>1, <1>2, <2>2 DEF CutLeft
    <3>. QED
      BY <1>1, <1>2, <1>4, <2>2, <3>1 DEF NextIsSumcheck, VNextIsSumcheck
  <2>3. CASE asked.pCut = 0 /\ ~HasNext(chain, pRound)
    BY <1>1, <1>4, <2>3 DEF CutLeft
  <2>. QED
    BY <1>1, <2>1, <2>2, <2>3 DEF ProverStopped
<1>. QED
  BY <1>2, <1>3, <1>4

\* A step of a paired verifier takes it along the walk, or ends the
\* verification: it accepts, or refuses a used context.
LEMMA PairedStep ==
    ASSUME TypeInv, CallInv, WalkInv, Paired, VRunning,
           NEW n \in Nat, NEW w \in [Nat -> WalkStates(chain)], Walked(w, n), OnWalk(w, n),
           VerifierStep(TRUE), UNCHANGED <<chain, proverVars, received, fault, asked>>
    PROVE  /\ VRunning' => OnWalk(w, n)'
           /\ vPc' = "rejected" => vReason' = "context"
           /\ VCaptureBoundary => /\ vRound = pRound /\ vPoints = pPoints
                                  /\ vTranscript = pTranscript
<1>1. PICK m \in 0..n : VerifierReached = w[m]
  BY DEF OnWalk
<1>2. /\ VerifierReached \in WalkStates(chain)
      /\ VerifierReached.round = vRound /\ VerifierReached.transcript = vTranscript
      /\ VerifierReached.points = vPoints
  BY <1>1 DEF VerifierReached
<1>3. /\ w[n] = Reached /\ \A i \in 0..n : w[i].round <= pRound
      /\ \A i \in 0..(n - 1) : Stretch(chain, w[i], w[i + 1])
      /\ Reached.round = pRound /\ Reached.transcript = pTranscript
      /\ Reached.points = pPoints
  BY DEF Walked, Reached
<1>4. vRound <= pRound
  BY <1>1, <1>2, <1>3
<1>5. /\ pPc = "done" /\ pRound \in Nat /\ vRound \in 1..Len(chain) /\ Len(chain) \in Nat
      /\ vPc \in {"claims", "poly", "recurse"} => vCfg.kind # "Simple"
      /\ ReadsProof /\ vPc # "idle" /\ chain \in Chains
  BY ChainType
  DEF CallInv, VRunning, TypeInv, ProverInv, ProverTypeOK, VerifierInv, VerifierTypeOK,
      VerifierWalk, SessionTypeOK, OnWalk
<1>6. Reached.phase \in {"recurse", "done"}
  BY <1>5 DEF Reached
<1>7. /\ Len(pProof) = pRound /\ pRound \in 1..Len(chain)
      /\ vRound < pRound =>
           vCut # 1 /\ (vCut = 0 \/ chain[vRound + 1].kind = "Sumcheck")
      /\ vRound = pRound /\ vCfg.kind # "Simple" =>
           \/ vCut = 1 /\ VNextIsSumcheck
           \/ vCut = 0 /\ ~HasNext(chain, vRound)
  BY <1>4, PairedCuts
\* In the middle of the walk a verifier that would recurse has a round below.
<1>8. ASSUME m < n, VerifierReached.phase = "recurse"
      PROVE  vRound < pRound
  <2>1. m \in 0..(n - 1) /\ m + 1 \in 0..n
    BY <1>8
  <2>2. Stretch(chain, VerifierReached, w[m + 1])
    BY <1>1, <1>3, <2>1
  <2>3. \A s, u : Stretch(chain, s, u) /\ s.phase = "recurse" => u.round = s.round + 1
    BY DEF Stretch
  <2>4. w[m + 1].round = vRound + 1
    BY <1>2, <1>8, <2>2, <2>3
  <2>. QED
    BY <1>3, <1>5, <2>1, <2>4
<1>9. m = n => vRound = pRound
  BY <1>1, <1>2, <1>3
<1>10. vPc = "recurse" => VerifierReached.phase = "recurse"
  BY DEF VerifierReached
<1>11. CASE VContextRefused \/ VSimpleClose(TRUE) \/ VAcceptChain
  BY <1>5, <1>11
  DEF VContextRefused, VReject, VSimpleClose, VAcceptChain, VCaptureBoundary, VRunning, VAtCut,
      MayAccept
<1>12. CASE VCaptureBoundary
  <2>1. vPc = "recurse" /\ vPc' = "accepted" /\ vCut = 1
    BY <1>12 DEF VCaptureBoundary, VAtCut
  <2>2. ~(m < n)
    BY <1>7, <1>8, <1>10, <2>1
  <2>3. m = n
    BY <1>1, <2>2
  <2>. QED
    BY <1>1, <1>2, <1>3, <2>1, <2>3 DEF VRunning
<1>13. CASE VChainRefused
  <2>1. /\ vPc = "recurse" /\ ~(VAtCut /\ VNextIsSumcheck) /\ ~MayDescend /\ ~MayAccept
        /\ vCfg.kind # "Simple" /\ received = pProof
    BY <1>5, <1>13 DEF VChainRefused, ReadsProof
  <2>2. CASE vRound = pRound
    BY <1>7, <2>1, <2>2 DEF VAtCut, MayAccept
  <2>3. CASE vRound # pRound
    <3>1. vRound < pRound /\ vRound + 1 \in 1..Len(pProof) /\ HasNext(chain, vRound)
      BY <1>4, <1>5, <1>7, <2>3 DEF HasNext, Last
    <3>2. received[vRound + 1].kind = chain[vRound + 1].kind
      BY <1>5, <3>1, ReadItems DEF ReadsProof
    <3>. QED
      BY <1>7, <2>1, <3>1, <3>2 DEF MayDescend, VAtCut, VNextIsSumcheck
  <2>. QED
    BY <2>2, <2>3
<1>14. CASE ~VStops
  <2>1. /\ VRunning'
        /\ \/ UNCHANGED <<VerifierReached, vRound, vStatement>>
           \/ /\ Stretch(chain, VerifierReached, VerifierReached')
              /\ \/ VDescend
                 \/ /\ VerifierReached.phase \notin {"recurse", "done"}
                    /\ UNCHANGED <<vRound, vStatement>>
    BY <1>2, <1>5, <1>14, VerifierStretch
  <2>2. pProof' = pProof /\ ~VCaptureBoundary /\ vPc' # "rejected"
    BY <1>14, <2>1 DEF proverVars, VStops, VRunning
  <2>3. CASE UNCHANGED <<VerifierReached, vRound, vStatement>>
    <3>1. ReadsProof'
      BY <1>5, <2>2, <2>3 DEF ReadsProof
    <3>2. VerifierReached' = w[m]
      BY <1>1, <2>3
    <3>. QED
      BY <2>2, <3>1, <3>2 DEF OnWalk
  <2>4. CASE /\ Stretch(chain, VerifierReached, VerifierReached')
             /\ VDescend \/ VerifierReached.phase \notin {"recurse", "done"}
             /\ VDescend \/ UNCHANGED <<vRound, vStatement>>
    <3>1. m # n
      <4>1. CASE VDescend
        <5>1. /\ vPc = "recurse" /\ vCfg.kind # "Simple" /\ vCut # 1
              /\ HasNext(chain, vRound)
          BY <1>5, <4>1 DEF VDescend, MayDescend, VAtCut
        <5>. QED
          BY <1>7, <1>9, <5>1
      <4>2. CASE VerifierReached.phase \notin {"recurse", "done"}
        BY <1>1, <1>3, <1>6, <4>2
      <4>. QED
        BY <2>4, <4>1, <4>2
    <3>2. m \in 0..(n - 1) /\ m + 1 \in 0..n
      BY <3>1
    <3>3. Stretch(chain, VerifierReached, w[m + 1])
      BY <1>1, <1>3, <3>2
    <3>4. VerifierReached' = w[m + 1]
      BY <2>4, <3>3, StretchIsDetermined
    <3>5. ReadsProof'
      <4>1. CASE VDescend
        <5>1. vCfg.kind # "Simple"
          BY <1>5, <4>1 DEF VDescend
        <5>2. /\ vItem("next") = CommitmentOf(chain, vRound + 1)
              /\ NextClaims = TrueClaims(chain, vRound + 1)
          BY <1>5, <5>1, NextStatement
        <5>3. /\ vRound' = vRound + 1
              /\ vStatement'.commitment = vItem("next") /\ vStatement'.claims = NextClaims
          BY <4>1 DEF VDescend
        <5>. QED
          BY <1>5, <2>2, <5>2, <5>3 DEF ReadsProof
      <4>2. CASE UNCHANGED <<vRound, vStatement>>
        BY <1>5, <2>2, <4>2 DEF ReadsProof
      <4>. QED
        BY <2>4, <4>1, <4>2
    <3>. QED
      BY <2>2, <3>2, <3>4, <3>5 DEF OnWalk
  <2>. QED
    BY <2>1, <2>3, <2>4
<1>. QED
  BY <1>11, <1>12, <1>13, <1>14 DEF VStops

-----------------------------------------------------------------------------
(***************************************************************************)
(* The sessions.                                                           *)
(***************************************************************************)
LEMMA InitFaithInv == Init => FaithInv
BY DEF Init, FaithInv, WalkedInv, RefusedInv, BoundaryInv, PRunning, VRunning

LEMMA ProveFaithful ==
    ASSUME TypeInv, Prove
    PROVE  FaithInv'
<1>1. PICK fresh \in BOOLEAN, cut \in Cuts : ProverStart(fresh, cut)
  BY DEF Prove
<1>2. /\ pPc' = "open" /\ pRound' = 1 /\ pTranscript' = NewTranscript /\ pPoints' = <<>>
      /\ pStatement' = <<RootPoint(chain)>> /\ pBoundary' = {} /\ vPc' = "idle"
      /\ vBoundary' = {} /\ chain' = chain
  BY <1>1 DEF Prove, ProverStart
<1>3. \E n \in Nat, w \in [Nat -> WalkStates(chain)] : Walked(w, n)'
  BY <1>2, ProveInv, WalkBegins
<1>4. WalkedInv'
  BY <1>2, <1>3 DEF WalkedInv, VRunning
<1>5. RefusedInv' /\ BoundaryInv'
  BY <1>2 DEF RefusedInv, BoundaryInv
<1>. QED
  BY <1>4, <1>5 DEF FaithInv

LEMMA DeliverFaithful ==
    ASSUME TypeInv, WalkedInv, BoundaryInv, Deliver
    PROVE  FaithInv'
<1>1. /\ pPc = "done" /\ UNCHANGED <<chain, proverVars>> /\ chain \in Chains
  BY DEF Deliver, TypeInv, SessionTypeOK
<1>2. PICK statement : \E fresh \in BOOLEAN, cut \in Cuts :
        /\ VerifierStart(fresh, cut, statement)
        /\ fault' = "none" => received' = pProof /\ statement = HonestStatement
  BY FaultsAssumption DEF Deliver, FaultKinds
<1>3. /\ vPc' = "shape" /\ vRound' = 1 /\ vTranscript' = NewTranscript /\ vPoints' = <<>>
      /\ vStatement' = statement /\ vBoundary' = {}
  BY <1>2 DEF VerifierStart
<1>4. PICK n \in Nat, w \in [Nat -> WalkStates(chain)] : Walked(w, n)
  BY <1>1 DEF WalkedInv
<1>5. Walked(w, n)'
  BY <1>1, <1>4 DEF proverVars, Walked, Reached, pCfg
<1>6. ASSUME fault' = "none"
      PROVE  OnWalk(w, n)'
  <2>1. received' = pProof' /\ vStatement' = HonestStatement
    BY <1>1, <1>2, <1>3, <1>6 DEF proverVars
  <2>2. ReadsProof'
    BY <1>1, <1>3, <2>1 DEF ReadsProof, HonestStatement, CommitmentOf, TrueClaims
  <2>3. VerifierReached' = WalkStart(chain)
    BY <1>3, <2>1 DEF VerifierReached, WalkStart, HonestStatement
  <2>4. w[0] = WalkStart(chain) /\ 0 \in 0..n
    BY <1>4 DEF Walked
  <2>. QED
    BY <2>2, <2>3, <2>4 DEF OnWalk
<1>7. WalkedInv'
  BY <1>1, <1>4, <1>5, <1>6 DEF WalkedInv, Paired
<1>8. RefusedInv'
  BY <1>3 DEF RefusedInv
<1>9. BoundaryInv'
  BY <1>1, <1>3 DEF BoundaryInv, proverVars
<1>. QED
  BY <1>7, <1>8, <1>9 DEF FaithInv

LEMMA ProverFaithful ==
    ASSUME TypeInv, CallInv, FaithInv, ProverWorks
    PROVE  FaithInv'
<1>1. /\ ProverStep /\ UNCHANGED <<chain, received, verifierVars, fault, asked>>
      /\ chain \in Chains
  BY DEF ProverWorks, TypeInv, SessionTypeOK
<1>2. PRunning
  BY <1>1 DEF ProverStep, SumcheckOpen, SumcheckFold, BasicOpen, IntermediateFold, SimpleFold,
         ProverClaims, ContextRefused, RoundPoly, CloseSumcheck, CaptureBoundary,
         BoundaryRefused, Descend, FinishChain, PRunning
<1>3. vPc = "idle" /\ vPc' = "idle" /\ pPc # "done"
  BY <1>1, <1>2 DEF CallInv, PRunning, verifierVars
<1>4. ASSUME pPc' # "panicked"
      PROVE  WalkedInv'
  <2>1. PICK n \in Nat, w \in [Nat -> WalkStates(chain)] : Walked(w, n)
    BY <1>2 DEF FaithInv, WalkedInv
  <2>2. \E k \in Nat, v \in [Nat -> WalkStates(chain)] : Walked(v, k)'
    BY <1>1, <1>4, <2>1, WalkContinues
  <2>. QED
    BY <1>1, <1>3, <2>2 DEF WalkedInv, VRunning
<1>5. WalkedInv'
  BY <1>4 DEF WalkedInv, PRunning
<1>6. RefusedInv'
  BY <1>3 DEF RefusedInv
<1>7. pBoundary = {} /\ vBoundary = {} /\ vBoundary' = {}
  BY <1>1, <1>3 DEF FaithInv, BoundaryInv, verifierVars
<1>8. BoundaryInv'
  <2>1. CASE CaptureBoundary
    <3>1. /\ pPc' = "done"
          /\ pBoundary' = {[round |-> pRound + 1,
                            claims |-> <<Claim(pItem("z0").data[1]),
                                         Claim(pItem("z1").data[1])>>,
                            commitment |-> SentCommitment(chain, pRound),
                            point |-> pPoints, transcript |-> pTranscript]}
          /\ UNCHANGED <<pRound, pPoints, pTranscript>>
      BY <2>1 DEF CaptureBoundary
    <3>. QED
      BY <1>1, <1>7, <3>1 DEF BoundaryInv
  <2>2. CASE ~CaptureBoundary
    <3>1. pBoundary' = {}
      BY <1>1, <1>7, <2>2
      DEF ProverStep, SumcheckOpen, SumcheckFold, BasicOpen, IntermediateFold, SimpleFold,
          ProverClaims, ContextRefused, RoundPoly, CloseSumcheck, BoundaryRefused, Descend,
          FinishChain, PAdvance
    <3>. QED
      BY <1>7, <3>1 DEF BoundaryInv
  <2>. QED
    BY <2>1, <2>2
<1>. QED
  BY <1>5, <1>6, <1>8 DEF FaithInv

LEMMA VerifierFaithful ==
    ASSUME TypeInv, CallInv, WalkInv, FaithInv, VerifierWorks
    PROVE  FaithInv'
<1>1. /\ VRunning /\ UNCHANGED <<chain, proverVars, received, fault, asked>>
      /\ chain \in Chains
  BY DEF VerifierWorks, TypeInv, SessionTypeOK
<1>2. PICK holds \in BOOLEAN : VerifierStep(holds) /\ (Faithful => holds)
  BY DEF VerifierWorks, Outcomes
<1>3. pPc = "done" /\ pPc' = "done" /\ vPc # "idle" /\ vBoundary = {}
  BY <1>1 DEF CallInv, VRunning, proverVars, FaithInv, BoundaryInv
<1>4. PICK n \in Nat, w \in [Nat -> WalkStates(chain)] :
        Walked(w, n) /\ (Paired => OnWalk(w, n))
  BY <1>1, <1>3 DEF FaithInv, WalkedInv
<1>5. Walked(w, n)' /\ Paired' = Paired
  BY <1>1, <1>4 DEF proverVars, Walked, Reached, pCfg, Paired
<1>6. ASSUME Paired
      PROVE  /\ VRunning' => OnWalk(w, n)'
             /\ vPc' = "rejected" => vReason' = "context"
             /\ VCaptureBoundary => /\ vRound = pRound /\ vPoints = pPoints
                                    /\ vTranscript = pTranscript
             /\ ReadsProof
  <2>1. OnWalk(w, n) /\ ReadsProof
    BY <1>4, <1>6 DEF OnWalk
  <2>2. Faithful
    BY <1>3, <1>4, <2>1, OnWalkIsFaithful
  <2>3. holds = TRUE
    BY <1>2, <2>2
  <2>4. VerifierStep(TRUE)
    BY <1>2, <2>3
  <2>. QED
    BY <1>1, <1>4, <1>6, <2>1, <2>4, PairedStep
<1>7. WalkedInv'
  BY <1>1, <1>5, <1>6 DEF WalkedInv
<1>8. RefusedInv'
  BY <1>5, <1>6 DEF RefusedInv
<1>9. BoundaryInv'
  <2>1. /\ pPc' = "done" /\ UNCHANGED <<chain, pBoundary, pRound, pPoints, pTranscript>>
        /\ \A b \in pBoundary : /\ b.round = pRound + 1 /\ b.point = pPoints
                                /\ b.commitment = SentCommitment(chain, pRound)
                                /\ b.transcript = pTranscript
    BY <1>1, <1>3 DEF proverVars, FaithInv, BoundaryInv
  <2>2. CASE VCaptureBoundary
    <3>1. /\ vPc' = "accepted" /\ vPc = "recurse"
          /\ vBoundary' = {[round |-> vRound + 1, claims |-> NextClaims,
                            commitment |-> vItem("next"), point |-> vPoints,
                            transcript |-> vTranscript]}
      BY <2>2 DEF VCaptureBoundary
    <3>2. vCfg.kind # "Simple"
      BY <3>1 DEF TypeInv, VerifierInv, VerifierWalk
    <3>3. Paired => /\ vItem("next") = SentCommitment(chain, vRound)
                    /\ NextClaims = TrueClaims(chain, vRound + 1)
      BY <1>3, <1>6, <3>2, NextStatement
    <3>4. Paired => \A b \in vBoundary' :
            /\ b.round = pRound + 1 /\ b.point = pPoints
            /\ b.commitment = SentCommitment(chain, pRound)
            /\ b.transcript = pTranscript
            /\ b.claims = TrueClaims(chain, b.round)
      BY <1>6, <2>2, <3>1, <3>3
    <3>. QED
      BY <1>5, <2>1, <3>1, <3>4 DEF BoundaryInv
  <2>3. CASE ~VCaptureBoundary
    <3>1. vBoundary' = {}
      BY <1>2, <1>3, <2>3
      DEF VerifierStep, CheckShape, VSumcheckOpen, VContextRefused, VSumcheckFold,
          VSumcheckClaims, VBasicOpen, VIntermediateFold, VIntermediateClaims, VSimpleFold,
          VSimpleClose, VRoundPoly, VCloseSumcheck, VDescend, VAcceptChain, VChainRefused,
          VAdvance, VReject
    <3>. QED
      BY <2>1, <3>1 DEF BoundaryInv
  <2>. QED
    BY <2>2, <2>3
<1>. QED
  BY <1>7, <1>8, <1>9 DEF FaithInv

LEMMA NextFaithInv ==
    TypeInv /\ CallInv /\ WalkInv /\ FaithInv /\ [Next]_vars => FaithInv'
<1>. SUFFICES ASSUME TypeInv, CallInv, WalkInv, FaithInv, [Next]_vars PROVE FaithInv'
  OBVIOUS
<1>1. CASE Prove
  BY <1>1, ProveFaithful
<1>2. CASE Deliver
  BY <1>2, DeliverFaithful DEF FaithInv
<1>3. CASE ProverWorks
  BY <1>3, ProverFaithful
<1>4. CASE VerifierWorks
  BY <1>4, VerifierFaithful
<1>5. CASE NoMoreSessions \/ UNCHANGED vars
  <2>1. UNCHANGED <<chain, proverVars, received, verifierVars, fault, asked>>
    BY <1>5 DEF NoMoreSessions, vars
  <2>2. PRunning' = PRunning /\ VRunning' = VRunning /\ Paired' = Paired /\ chain' = chain
        /\ pPc' = pPc
    BY <2>1 DEF proverVars, verifierVars, PRunning, VRunning, Paired
  <2>3. WalkedInv'
    <3>. SUFFICES ASSUME PRunning \/ pPc = "done" PROVE WalkedInv'
      BY <2>2 DEF WalkedInv
    <3>1. PICK n \in Nat, w \in [Nat -> WalkStates(chain)] :
            Walked(w, n) /\ (Paired /\ VRunning => OnWalk(w, n))
      BY DEF FaithInv, WalkedInv
    <3>2. Walked(w, n)' /\ (OnWalk(w, n) => OnWalk(w, n)')
      BY <2>1, <3>1
      DEF proverVars, verifierVars, Walked, Reached, pCfg, OnWalk, ReadsProof,
          VerifierReached
    <3>. QED
      BY <2>2, <3>1, <3>2 DEF WalkedInv
  <2>4. RefusedInv' /\ BoundaryInv'
    BY <2>1 DEF proverVars, verifierVars, FaithInv, RefusedInv, BoundaryInv, Paired
  <2>. QED
    BY <2>3, <2>4 DEF FaithInv
<1>. QED
  BY <1>1, <1>2, <1>3, <1>4, <1>5 DEF Next

\* The invariants of a session, and that each is kept.
LEMMA WalkInvariant == Spec => []WalkInv
<1>1. Init => WalkInv
  BY DEF Init, WalkInv, VRunning, AcceptedRanWholeChain
<1>. QED
  BY <1>1, TypeInvariant, NextWalkInv, PTL DEF Spec

LEMMA FaithInvariant == Spec => []FaithInv
BY InitFaithInv, TypeInvariant, CallInvariant, WalkInvariant, NextFaithInv, PTL DEF Spec

\* HonestSessionSucceeds, for every chain, every cut and any number of sessions:
\* with fresh contexts and the same cut asked of both, prover_round panics only
\* where the chain has no sumcheck round for the cut, and verifier_round turns
\* nothing away.  Both absorb and draw the same things in the same order
\* through every kind of round, whichever projections and norms each round has.
THEOREM HonestSessionsSucceed == Spec => []HonestSessionSucceeds
<1>1. CallInv /\ FaithInv => HonestSessionSucceeds
  BY DEF CallInv, NoRoundAtCut, FaithInv, RefusedInv, Paired, HonestSessionSucceeds
<1>. QED
  BY <1>1, CallInvariant, FaithInvariant, PTL

\* BoundariesAgree, for every chain and every cut: what execute_to_boundary
\* captures from the prover and from the verifier of its unaltered proof has
\* the same round, commitment, evaluation point and transcript, and states the
\* claims of the round below the cut.
THEOREM CapturedBoundariesAgree == Spec => []BoundariesAgree
<1>1. TypeInv /\ FaithInv => BoundariesAgree
  <2>. SUFFICES ASSUME TypeInv, FaithInv, fault = "none", asked.pCut = asked.vCut,
                       NEW p \in pBoundary, NEW v \in vBoundary
                PROVE  /\ p.round = v.round /\ p.commitment = v.commitment
                       /\ p.point = v.point /\ p.transcript = v.transcript
                       /\ StatesRound(v)
    BY DEF BoundariesAgree
  <2>1. /\ p.round = pRound + 1 /\ p.point = pPoints
        /\ p.commitment = SentCommitment(chain, pRound) /\ p.transcript = pTranscript
        /\ v.round = pRound + 1 /\ v.point = pPoints
        /\ v.commitment = SentCommitment(chain, pRound) /\ v.transcript = pTranscript
        /\ v.claims = TrueClaims(chain, v.round)
    BY DEF FaithInv, BoundaryInv, Paired
  <2>2. pRound + 1 # 1 /\ (pRound + 1) - 1 = pRound
    BY DEF TypeInv, ProverInv, ProverTypeOK
  <2>3. CommitmentOf(chain, v.round) = SentCommitment(chain, pRound)
    BY <2>1, <2>2 DEF CommitmentOf
  <2>. QED
    BY <2>1, <2>3 DEF StatesRound
<1>. QED
  BY <1>1, TypeInvariant, FaithInvariant, PTL

-----------------------------------------------------------------------------
(***************************************************************************)
(* The chain implements RoundArgument: every step is a step of the         *)
(* argument, or leaves the argument where it is.                           *)
(***************************************************************************)
Verified == IF ~Delivered THEN 0 ELSE IF vPc = "accepted" THEN vRound ELSE vRound - 1
Target == IF ~Delivered THEN 0 ELSE IF asked.vCut = 0 THEN Len(chain) ELSE asked.vCut
Intact == Delivered /\ fault = "none" /\ asked.vFresh /\ asked.vCut = asked.pCut

LEMMA ProveRefines ==
    ASSUME Prove
    PROVE  Argument!Prove
<1>1. ArgumentPhase \notin {"proving", "verifying"}
  BY DEF Prove, SessionOver, ArgumentPhase
<1>2. pPc' = "open" /\ vPc' = "idle"
  BY DEF Prove, ProverStart
<1>3. ArgumentPhase' = "proving" /\ ~Delivered'
  BY <1>2 DEF ArgumentPhase, Delivered
<1>. QED
  BY <1>1, <1>3 DEF Argument!Prove

LEMMA DeliverRefines ==
    ASSUME TypeInv, Deliver
    PROVE  Argument!Deliver
<1>1. pPc = "done" /\ vPc = "idle" /\ pPc' = "done" /\ chain' = chain
  BY DEF Deliver, proverVars
<1>2. vPc' = "shape" /\ vRound' = 1
  BY DEF Deliver, VerifierStart
<1>3. Len(chain) \in Nat \ {0} /\ asked'.vCut \in Nat /\ asked'.vFresh \in BOOLEAN
  BY DeliverInv, <1>1, ChainType DEF TypeInv, SessionTypeOK
<1>4. ArgumentPhase = "proving" /\ ArgumentPhase' = "verifying" /\ ~Delivered /\ Delivered'
  BY <1>1, <1>2 DEF ArgumentPhase, Delivered
<1>5. Target' \in Nat \ {0} /\ Verified' = 0 /\ Verified = 0 /\ Intact' \in BOOLEAN
  BY <1>1, <1>2, <1>3, <1>4 DEF Target, Verified, Intact
<1>. QED
  BY <1>4, <1>5 DEF Argument!Deliver, Target, Verified, Intact

LEMMA ProverRefines ==
    ASSUME CallInv, ProverWorks
    PROVE  Argument!Abandon \/ UNCHANGED Argument!argumentVars
<1>1. PRunning
  BY DEF ProverWorks, ProverStep, SumcheckOpen, SumcheckFold, BasicOpen, IntermediateFold,
         SimpleFold, ProverClaims, ContextRefused, RoundPoly, CloseSumcheck,
         CaptureBoundary, BoundaryRefused, Descend, FinishChain, PRunning
<1>2. vPc = "idle" /\ vPc' = "idle"
  BY <1>1 DEF CallInv, PRunning, ProverWorks, verifierVars
<1>3. ArgumentPhase = "proving" /\ ~Delivered /\ ~Delivered'
  BY <1>1, <1>2 DEF ArgumentPhase, Delivered, PRunning
<1>4. pPc' # "idle"
  BY <1>1
  DEF ProverWorks, ProverStep, SumcheckOpen, SumcheckFold, BasicOpen, IntermediateFold,
      SimpleFold, ProverClaims, ContextRefused, RoundPoly, CloseSumcheck, CaptureBoundary,
      BoundaryRefused, Descend, FinishChain, PRunning, PAdvance
<1>5. ArgumentPhase' = IF pPc' = "panicked" THEN "abandoned" ELSE "proving"
  BY <1>2, <1>4 DEF ArgumentPhase
<1>. QED
  BY <1>3, <1>5 DEF Argument!Abandon, Argument!argumentVars

LEMMA VerifierRefines ==
    ASSUME TypeInv, CallInv, WalkInv, VerifierWorks,
           CallInv', WalkInv', FaithInv'
    PROVE  \/ Argument!VerifyRound \/ Argument!Accept \/ Argument!Reject
           \/ UNCHANGED Argument!argumentVars
<1>1. /\ pPc = "done" /\ pPc' = "done" /\ VRunning /\ UNCHANGED <<chain, fault, asked>>
      /\ vRound \in 1..Len(chain) /\ Len(chain) \in Nat
      /\ vCut \in Nat /\ asked.vCut \in Nat /\ CutLeft
  BY ChainType
  DEF VerifierWorks, CallInv, VRunning, proverVars, TypeInv, SessionTypeOK, VerifierInv,
      VerifierTypeOK, WalkInv
<1>2. PICK holds \in BOOLEAN : VerifierStep(holds)
  BY DEF VerifierWorks, Outcomes
<1>3. ArgumentPhase = "verifying" /\ Delivered /\ Verified = vRound - 1
  BY <1>1 DEF ArgumentPhase, Delivered, VRunning, Verified
<1>4. Target = IF asked.vCut = 0 THEN Len(chain) ELSE asked.vCut
  BY <1>3 DEF Target
<1>5. vPc' # "idle"
  BY <1>1, <1>2
  DEF VerifierStep, CheckShape, VSumcheckOpen, VContextRefused, VSumcheckFold,
      VSumcheckClaims, VBasicOpen, VIntermediateFold, VIntermediateClaims, VSimpleFold,
      VSimpleClose, VRoundPoly, VCloseSumcheck, VCaptureBoundary, VDescend, VAcceptChain,
      VChainRefused, VAdvance, VReject, VRunning
<1>6. Delivered' /\ Target' = Target /\ Intact' = Intact
  BY <1>1, <1>3, <1>5 DEF Delivered, Target, Intact
<1>7. vRound' = vRound \/ VDescend
  BY <1>2
  DEF VerifierStep, CheckShape, VSumcheckOpen, VContextRefused, VSumcheckFold,
      VSumcheckClaims, VBasicOpen, VIntermediateFold, VIntermediateClaims, VSimpleFold,
      VSimpleClose, VRoundPoly, VCloseSumcheck, VCaptureBoundary, VAcceptChain,
      VChainRefused, VAdvance, VReject
<1>. USE DEF Argument!VerifyRound, Argument!Accept, Argument!Reject, Argument!argumentVars,
             Verified, Target, Intact
<1>8. CASE VDescend
  <2>1. /\ vPc' = "shape" /\ vRound' = vRound + 1 /\ vCut # 1 /\ vRound < Len(chain)
    BY <1>8 DEF VDescend, MayDescend, VAtCut, HasNext, Last
  <2>2. (vRound - 1) + 1 < Target
    BY <1>1, <1>4, <2>1 DEF CutLeft
  <2>3. ArgumentPhase' = "verifying" /\ Verified' = Verified + 1
    BY <1>1, <1>3, <1>6, <2>1 DEF ArgumentPhase
  <2>. QED
    BY <1>3, <1>6, <2>2, <2>3
<1>9. CASE ~VDescend /\ vPc' = "accepted"
  <2>1. vRound' = vRound /\ Verified' = vRound /\ ArgumentPhase' = "accepted"
    BY <1>1, <1>6, <1>7, <1>9 DEF ArgumentPhase
  <2>2. AcceptedRanWholeChain'
    BY DEF WalkInv
  <2>3. vRound = Target
    BY <1>1, <1>4, <1>9, <2>1, <2>2 DEF AcceptedRanWholeChain
  <2>4. Verified + 1 = Target
    BY <1>1, <1>3, <2>3
  <2>. QED
    BY <1>3, <1>6, <2>1, <2>3, <2>4
<1>10. CASE ~VDescend /\ vPc' = "rejected"
  <2>1. vRound' = vRound /\ Verified' = Verified /\ ArgumentPhase' = "rejected"
    BY <1>1, <1>3, <1>6, <1>7, <1>10 DEF ArgumentPhase
  <2>2. ~Intact
    <3>1. SUFFICES ASSUME Intact PROVE FALSE
      OBVIOUS
    <3>2. asked'.vFresh /\ Paired'
      BY <1>1, <3>1 DEF Paired
    <3>. QED
      BY <1>10, <3>2 DEF CallInv, FaithInv, RefusedInv
  <2>. QED
    BY <1>3, <1>6, <2>1, <2>2
<1>11. CASE ~VDescend /\ vPc' \notin {"accepted", "rejected"}
  <2>1. vRound' = vRound /\ Verified' = Verified /\ ArgumentPhase' = "verifying"
    BY <1>1, <1>3, <1>5, <1>6, <1>7, <1>11 DEF ArgumentPhase
  <2>. QED
    BY <1>3, <1>6, <2>1
<1>. QED
  BY <1>8, <1>9, <1>10, <1>11

\* ImplementsArgument, for every chain and every set of faults and cuts: a
\* session of prover_round and verifier_round is one of RoundArgument.  Rounds
\* are verified one after the other, verifier_round accepts in the round the
\* caller's cut names or the configuration ends in and in no other, and rejects
\* no proof that was delivered as it was sent, under the prover's cut, to
\* contexts that are fresh.
THEOREM ChainImplementsArgument == Spec => ImplementsArgument
<1>1. Init => Argument!Init
  BY DEF Init, Argument!Init, ArgumentPhase, Delivered
<1>2. /\ TypeInv /\ CallInv /\ WalkInv
      /\ CallInv' /\ WalkInv' /\ FaithInv'
      /\ [Next]_vars
      => [Argument!Next]_Argument!argumentVars
  <2>. SUFFICES ASSUME TypeInv, CallInv, WalkInv, CallInv', WalkInv', FaithInv', [Next]_vars
                PROVE  Argument!Next \/ UNCHANGED Argument!argumentVars
    OBVIOUS
  <2>1. CASE Prove
    BY <2>1, ProveRefines DEF Argument!Next
  <2>2. CASE Deliver
    BY <2>2, DeliverRefines DEF Argument!Next
  <2>3. CASE ProverWorks
    BY <2>3, ProverRefines DEF Argument!Next
  <2>4. CASE VerifierWorks
    BY <2>4, VerifierRefines DEF Argument!Next
  <2>5. CASE NoMoreSessions \/ UNCHANGED vars
    <3>1. UNCHANGED <<chain, pPc, vPc, vRound, fault, asked>>
      BY <2>5 DEF NoMoreSessions, vars, proverVars, verifierVars
    <3>. QED
      BY <3>1 DEF Argument!argumentVars, ArgumentPhase, Delivered
  <2>. QED
    BY <2>1, <2>2, <2>3, <2>4, <2>5 DEF Next
<1>. QED
  BY <1>1, <1>2, TypeInvariant, CallInvariant, WalkInvariant, FaithInvariant, PTL
  DEF Spec, ImplementsArgument, Argument!Spec

-----------------------------------------------------------------------------
(***************************************************************************)
(* The second part: what the verifier's transcript binds, for every chain, *)
(* every cut and every modelled fault in the proof it reads. All it reads  *)
(* is absorbed, every challenge is drawn after what it randomises, every   *)
(* variable of a sumcheck has a challenge of its own, and entries absorbed *)
(* as the prover absorbed them belong to the items the prover sent, shapes *)
(* included.                                                               *)
(***************************************************************************)

(***************************************************************************)
(* What the structural pass does not look at.                              *)
(***************************************************************************)

\* The fields a round of a kind has no use for, the folded witness apart.
Unused(kind) ==
    IF kind = "Sumcheck" THEN {"image"}
    ELSE IF kind = "Intermediate"
    THEN {"coarse", "constantTerm", "mostInnerNorm", "projectionNorm", "constantTermClaims"}
    ELSE {"coarse", "constantTerm", "norm", "mostInnerNorm", "projectionNorm",
          "constantTermClaims", "polys", "z0", "z1", "next"}

\* Of the fields no pass checks, the ones a round has no use for are left out,
\* and single elements remain single elements.
FormKept(c, proof) ==
    \A r \in 1..Len(proof) :
      /\ \A f \in Unused(c[r].kind) : proof[r].items[f] = Absent
      /\ \A f \in SingleElements :
           /\ proof[r].items[f].shape = Sent(c, r)[f].shape
           /\ Len(proof[r].items[f].data) = Len(Sent(c, r)[f].data)

LEMMA UnusedIsNotSent ==
    ASSUME NEW c \in Chains, NEW r \in 1..Len(c), NEW f \in Unused(c[r].kind)
    PROVE  f \in Fields /\ Sent(c, r)[f] = Absent
<1>1. c[r].kind \in {"Sumcheck", "Intermediate", "Simple"} /\ Len(c) \in Nat
  BY ConfigType, ChainType DEF Kinds
<1>2. f \in Fields
  BY <1>1 DEF Unused, Fields
<1>3. CASE c[r].kind = "Sumcheck"
  BY <1>3 DEF Unused, Sent, SumcheckSent, Fields
<1>4. CASE c[r].kind = "Intermediate"
  BY <1>4 DEF Unused, Sent, BasicSent, Fields
<1>5. CASE c[r].kind = "Simple"
  <2>1. ~HasNext(c, r)
    <3>1. ~(r < Len(c))
      BY <1>5, ChainOrder
    <3>. QED
      BY <3>1 DEF HasNext, Last
  <2>2. Sent(c, r)["next"] = Absent
    BY <1>5, <2>1 DEF Sent, BasicSent, SentCommitment, Fields
  <2>3. f # "next" => Sent(c, r)[f] = Absent
    BY <1>5 DEF Unused, Sent, BasicSent, Fields
  <2>. QED
    BY <1>2, <2>2, <2>3
<1>. QED
  BY <1>1, <1>2, <1>3, <1>4, <1>5

\* Where one fault in a round's items cannot reach: an item that is left out,
\* unless it is an option somebody adds or regroups; the form of an element.
LEMMA FaultsReach ==
    ASSUME NEW items \in [Fields -> SoundItems], NEW kind, NEW round,
           \A f \in SingleElements : Len(items[f].shape) <= 1,
           NEW got \in FaultyItems(kind, round, items)
    PROVE  /\ \A f \in Fields :
                /\ items[f] = Absent
                /\ \/ f = "image"
                   \/ round.kind # "Sumcheck" /\ items["constantTermClaims"] = Absent
                => got[f] = Absent
           /\ \A f \in SingleElements :
                /\ got[f].shape = items[f].shape
                /\ Len(got[f].data) = Len(items[f].data)
<1>. DEFINE present == {f \in Fields : items[f] # Absent}
            sized == {f \in present \ SingleElements : Len(items[f].data) > 0}
            Option(f) == \/ f = "image"
                         \/ round.kind # "Sumcheck" /\ items["constantTermClaims"] = Absent
            Kept(g) == /\ \A f \in Fields : items[f] = Absent /\ Option(f) => g[f] = Absent
                       /\ \A f \in SingleElements :
                            /\ g[f].shape = items[f].shape
                            /\ Len(g[f].data) = Len(items[f].data)
<1>1. SingleElements \subseteq Fields /\ \A f \in Fields : items[f] \in SoundItems
  BY DEF SingleElements, Fields
<1>2. ASSUME NEW h \in present, NEW item,
             h \in SingleElements => /\ item.shape = items[h].shape
                                     /\ Len(item.data) = Len(items[h].data)
      PROVE  Kept(OneItem(items, h, item))
  BY <1>1, <1>2 DEF OneItem
<1>3. ASSUME NEW S \in SUBSET (Fields \ SingleElements), NEW item,
             item = Absent \/ (round.kind = "Sumcheck" /\ "image" \notin S)
      PROVE  Kept([f \in Fields |-> IF f \in S THEN item ELSE items[f]])
  <2>1. \A f \in Fields : items[f] = Absent /\ Option(f) =>
          (IF f \in S THEN item ELSE items[f]) = Absent
    BY <1>3
  <2>. QED
    BY <1>1, <1>3, <2>1
<1>4. \A f \in sized : f \in present /\ f \notin SingleElements
  OBVIOUS
<1>5. \A group \in OptionalGroups :
        group \in SUBSET (Fields \ SingleElements) /\ "image" \notin group
  BY DEF OptionalGroups, Fields, SingleElements
<1>. HIDE DEF Kept
<1>6. CASE kind = "value"
  <2>1. PICK h \in present :
          \E i \in DOMAIN items[h].data : got = OneItem(items, h, WithValue(items[h], i))
    BY <1>6 DEF FaultyItems
  <2>2. PICK i \in DOMAIN items[h].data : got = OneItem(items, h, WithValue(items[h], i))
    BY <2>1
  <2>3. items[h] \in Items
    BY <1>1 DEF SoundItems
  <2>4. /\ WithValue(items[h], i).shape = items[h].shape
        /\ Len(WithValue(items[h], i).data) = Len(items[h].data)
    BY <2>3, WithValueType DEF WithValue, Items
  <2>. QED
    BY <2>2, <2>4, <1>2 DEF Kept
<1>7. CASE kind = "shorter"
  <2>1. PICK h \in sized : got = OneItem(items, h, Popped(items[h]))
    BY <1>7 DEF FaultyItems
  <2>. QED
    BY <2>1, <1>2, <1>4 DEF Kept
<1>8. CASE kind = "longer"
  <2>1. PICK h \in sized : got = OneItem(items, h, Pushed(items[h]))
    BY <1>8 DEF FaultyItems
  <2>. QED
    BY <2>1, <1>2, <1>4 DEF Kept
<1>9. CASE kind = "missing"
  <2>1. PICK group \in OptionalGroups :
          got = [f \in Fields |-> IF f \in group THEN Absent ELSE items[f]]
    BY <1>9 DEF FaultyItems
  <2>. QED
    BY <2>1, <1>3, <1>5 DEF Kept
<1>10. CASE kind = "unasked"
  <2>. DEFINE unasked == [shape |-> <<1>>, data |-> <<Foreign>>]
  <2>1. /\ round.kind = "Sumcheck"
        /\ \E group \in OptionalGroups :
             got = [f \in Fields |-> IF f \in group THEN unasked ELSE items[f]]
    BY <1>10 DEF FaultyItems
  <2>. HIDE DEF unasked
  <2>. QED
    BY <2>1, <1>3, <1>5 DEF Kept
<1>11. CASE kind = "transposed"
  <2>1. PICK h \in {g \in present : Len(items[g].shape) > 1} :
          got = OneItem(items, h, Transposed(items[h]))
    BY <1>11 DEF FaultyItems
  <2>2. h \in present /\ h \notin SingleElements
    <3>1. items[h].shape \in Seq(Nat) /\ Len(items[h].shape) \in Nat
      BY <1>1, LenProperties DEF SoundItems, Items
    <3>. QED
      BY <2>1, <3>1
  <2>. QED
    BY <2>1, <2>2, <1>2 DEF Kept
<1>12. CASE kind = "regrouped"
  <2>1. got = Regrouped(items) /\ items["constantTermClaims"] # Absent
    BY <1>12 DEF FaultyItems
  <2>2. \A f \in Fields \ {"projectionNorm", "constantTermClaims"} : got[f] = items[f]
    BY <2>1 DEF Regrouped
  <2>3. "image" \in Fields \ {"projectionNorm", "constantTermClaims"}
        /\ SingleElements \subseteq Fields \ {"projectionNorm", "constantTermClaims"}
    BY DEF SingleElements, Fields
  <2>. QED
    BY <2>1, <2>2, <2>3 DEF Kept
<1>13. CASE kind \notin {"value", "shorter", "longer", "transposed", "missing",
                         "unasked", "regrouped", "miscounted"}
  BY <1>13 DEF FaultyItems
<1>14. CASE kind = "miscounted"
  <2>1. /\ "polys" \in present
        /\ \E i \in DOMAIN items["polys"].data :
             got = OneItem(items, "polys", Miscounted(items["polys"], i))
    BY <1>14 DEF FaultyItems
  <2>2. "polys" \notin SingleElements
    BY DEF SingleElements
  <2>. QED
    BY <2>1, <2>2, <1>2 DEF Kept
<1>. QED
  BY <1>6, <1>7, <1>8, <1>9, <1>10, <1>11, <1>12, <1>13, <1>14

\* The elements of a round are single, and the sent proof keeps its own form.
LEMMA SentElements ==
    ASSUME NEW c \in Chains, NEW r \in 1..Len(c), NEW f \in SingleElements
    PROVE  Len(Sent(c, r)[f].shape) <= 1
<1>1. f \in Fields
  BY DEF SingleElements, Fields
<1>2. Len(Absent.shape) = 0
  BY DEF Absent, NoShape
<1>3. \A item : item = HonestItem(r, f, <<1>>, {}) => Len(item.shape) = 1
  BY DEF HonestItem
<1>4. Sent(c, r)[f] = Absent \/ Sent(c, r)[f] = HonestItem(r, f, <<1>>, {})
  BY <1>1 DEF Sent, SumcheckSent, BasicSent, SingleElements
<1>5. Len(Sent(c, r)[f].shape) = 0 \/ Len(Sent(c, r)[f].shape) = 1
  <2>1. CASE Sent(c, r)[f] = Absent
    BY <1>2, <2>1, Zenon
  <2>2. CASE Sent(c, r)[f] = HonestItem(r, f, <<1>>, {})
    BY <1>3, <2>2, Zenon
  <2>. QED
    BY <1>4, <2>1, <2>2, Zenon
<1>6. \A n : n = 0 \/ n = 1 => n <= 1
  OBVIOUS
<1>. QED
  BY <1>5, <1>6, Zenon

LEMMA SentKeepsForm ==
    ASSUME NEW c \in Chains, NEW proof, SentProof(c, proof)
    PROVE  FormKept(c, proof)
<1>1. \A r \in 1..Len(proof) : r \in 1..Len(c)
  BY ChainType, LenProperties DEF SentProof
<1>2. \A r \in 1..Len(proof) : proof[r].items = Sent(c, r)
  BY SentRound
<1>. QED
  BY <1>1, <1>2, UnusedIsNotSent DEF FormKept

LEMMA FaultsKeepForm ==
    ASSUME chain \in Chains, NEW proof, SentProof(chain, proof), Len(proof) # 0,
           NEW kind, NEW got \in FaultyProofs(kind, proof)
    PROVE  FormKept(chain, got) /\ Len(got) <= Len(proof)
<1>1. /\ proof \in Seq(RoundProofs) /\ Len(proof) \in Nat /\ Len(chain) \in Nat
      /\ DOMAIN proof = 1..Len(proof) /\ \A r \in 1..Len(proof) : r \in 1..Len(chain)
  BY ChainType, LenProperties DEF SentProof
<1>2. FormKept(chain, proof)
  BY SentKeepsForm
<1>3. \A r \in 1..Len(proof) : proof[r] \in RoundProofs
  BY <1>1, ElementOfSeq
<1>4. CASE kind = "truncated"
  <2>1. PICK n \in 1..(Len(proof) - 1) : got = SubSeq(proof, 1, n)
    BY <1>4 DEF FaultyProofs
  <2>2. \A i \in 1..n : i \in 1..Len(proof)
    BY <1>1
  <2>3. Len(got) = n /\ \A i \in 1..n : got[i] = proof[i]
    BY <2>1, <2>2, <1>3, SubSeqProperties
  <2>. QED
    BY <1>1, <2>2, <2>3, <1>2 DEF FormKept
<1>5. CASE kind = "otherKind"
  <2>1. PICK r \in 2..Len(proof), k \in Kinds : got = [proof EXCEPT ![r].kind = k]
    BY <1>5 DEF FaultyProofs
  <2>2. r \in 1..Len(proof)
    BY <1>1
  <2>. DEFINE round == [proof[r] EXCEPT !.kind = k]
  <2>3. round.items = proof[r].items /\ round \in RoundProofs
    BY <2>2, <1>3 DEF RoundProofs
  <2>. HIDE DEF round
  <2>4. got = [proof EXCEPT ![r] = round]
    BY <2>1 DEF round
  <2>5. /\ Len(got) = Len(proof)
        /\ \A i \in 1..Len(proof) : got[i] = IF i = r THEN round ELSE proof[i]
    BY <2>2, <2>3, <2>4, <1>1, ExceptSeq
  <2>6. \A i \in 1..Len(proof) : got[i].items = proof[i].items
    BY <2>3, <2>5
  <2>. QED
    BY <1>1, <2>5, <2>6, <1>2 DEF FormKept
<1>6. CASE kind \notin {"truncated", "otherKind"}
  <2>1. got \in UNION {{[proof EXCEPT ![r].items = items] :
                          items \in FaultyItems(kind, chain[r], proof[r].items)}
                         : r \in DOMAIN proof}
    BY <1>6 DEF FaultyProofs
  <2>2. PICK r \in DOMAIN proof :
          \E items \in FaultyItems(kind, chain[r], proof[r].items) :
            got = [proof EXCEPT ![r].items = items]
    BY <2>1, Zenon
  <2>3. PICK items \in FaultyItems(kind, chain[r], proof[r].items) :
          got = [proof EXCEPT ![r].items = items]
    BY <2>2
  <2>4. r \in 1..Len(proof) /\ r \in 1..Len(chain) /\ proof[r].items = Sent(chain, r)
    BY <1>1, SentRound
  <2>5. Sent(chain, r) \in [Fields -> SoundItems]
        /\ \A f \in SingleElements : Len(Sent(chain, r)[f].shape) <= 1
    BY <2>4, SentType, SentElements
  <2>6. items \in FaultyItems(kind, chain[r], Sent(chain, r))
    BY <2>3, <2>4
  <2>7. /\ \A f \in Fields :
             /\ Sent(chain, r)[f] = Absent
             /\ \/ f = "image"
                \/ chain[r].kind # "Sumcheck"
                   /\ Sent(chain, r)["constantTermClaims"] = Absent
             => items[f] = Absent
        /\ \A f \in SingleElements :
             /\ items[f].shape = Sent(chain, r)[f].shape
             /\ Len(items[f].data) = Len(Sent(chain, r)[f].data)
    <3>. DEFINE sent == Sent(chain, r)
    <3>1. sent \in [Fields -> SoundItems] /\ items \in FaultyItems(kind, chain[r], sent)
          /\ \A f \in SingleElements : Len(sent[f].shape) <= 1
      BY <2>5, <2>6
    <3>. HIDE DEF sent
    <3>2. /\ \A f \in Fields :
               /\ sent[f] = Absent
               /\ \/ f = "image"
                  \/ chain[r].kind # "Sumcheck" /\ sent["constantTermClaims"] = Absent
               => items[f] = Absent
          /\ \A f \in SingleElements :
               /\ items[f].shape = sent[f].shape
               /\ Len(items[f].data) = Len(sent[f].data)
      BY <3>1, FaultsReach
    <3>. QED
      BY <3>2 DEF sent
  <2>8. \A f \in Unused(chain[r].kind) : items[f] = Absent
    <3>1. \A f \in Unused(chain[r].kind) : f \in Fields /\ Sent(chain, r)[f] = Absent
      BY <2>4, UnusedIsNotSent
    <3>2. CASE chain[r].kind = "Sumcheck"
      BY <2>7, <3>1, <3>2 DEF Unused
    <3>3. CASE chain[r].kind # "Sumcheck"
      <4>1. "constantTermClaims" \in Unused(chain[r].kind)
        BY <3>3 DEF Unused
      <4>. QED
        BY <2>7, <3>1, <3>3, <4>1
    <3>. QED
      BY <3>2, <3>3
  <2>. DEFINE round == [proof[r] EXCEPT !.items = items]
  <2>9. items \in [Fields -> Items]
    BY <2>4, <2>5, <2>6, SentClaimsType, FaultyItemsType
  <2>10. round.items = items /\ round \in RoundProofs
    BY <2>4, <2>9, <1>3 DEF RoundProofs
  <2>. HIDE DEF round
  <2>11. got = [proof EXCEPT ![r] = round]
    BY <2>3 DEF round
  <2>12. /\ Len(got) = Len(proof)
         /\ \A i \in 1..Len(proof) : got[i] = IF i = r THEN round ELSE proof[i]
    BY <2>4, <2>10, <2>11, <1>1, ExceptSeq
  <2>. QED
    BY <1>1, <2>7, <2>8, <2>10, <2>12, <1>2 DEF FormKept
<1>. QED
  BY <1>4, <1>5, <1>6

-----------------------------------------------------------------------------
(***************************************************************************)
(* What has been let through.                                              *)
(***************************************************************************)

\* A round past its structural pass has the shapes of its configuration, and a
\* round below the first verifies the two claims of the round above.
ShapeInv ==
    /\ vPc # "idle" => FormKept(chain, received)
    /\ VRunning /\ vPc # "shape" => ShapePasses(chain, vRound, vProof.items, vStatement)
    /\ VRunning /\ vRound # 1 => Len(vStatement.claims) = 2

LEMMA InitShapeInv == Init => ShapeInv
BY DEF Init, ShapeInv, VRunning

LEMMA NextShapeInv == TypeInv /\ ShapeInv /\ [Next]_vars => ShapeInv'
<1>. SUFFICES ASSUME TypeInv, ShapeInv, [Next]_vars PROVE ShapeInv'
  OBVIOUS
<1>1. CASE Prove
  BY <1>1 DEF Prove, ShapeInv, VRunning
<1>2. CASE Deliver
  <2>1. PICK fresh, cut, statement : VerifierStart(fresh, cut, statement)
    BY <1>2 DEF Deliver
  <2>2. vPc' = "shape" /\ vRound' = 1 /\ chain' = chain /\ pPc = "done"
    BY <1>2, <2>1 DEF Deliver, VerifierStart
  <2>3. /\ chain \in Chains /\ SentProof(chain, pProof) /\ Len(pProof) = pRound
        /\ pRound \in 1..Len(chain) /\ Len(chain) \in Nat
    BY <2>2, ChainType DEF TypeInv, SessionTypeOK, ProverInv, ProverWalk, ProverTypeOK
  <2>4. Len(pProof) # 0
    BY <2>3
  <2>5. received' = pProof \/ received' \in FaultyProofs(fault', pProof)
    BY <1>2 DEF Deliver
  <2>6. FormKept(chain, received')
    BY <2>3, <2>4, <2>5, SentKeepsForm, FaultsKeepForm
  <2>. QED
    BY <2>2, <2>6 DEF ShapeInv
<1>3. CASE VerifierWorks
  <2>1. PICK holds \in BOOLEAN : VerifierStep(holds)
    BY <1>3 DEF VerifierWorks, Outcomes
  <2>2. VRunning /\ vPc # "idle" /\ UNCHANGED <<chain, received>>
    BY <1>3 DEF VerifierWorks, VRunning
  <2>3. CASE CheckShape
    <3>1. UNCHANGED <<vRound, vStatement>>
      BY <2>3 DEF CheckShape, VAdvance, VReject
    <3>2. vPc' = "open" => ShapePasses(chain, vRound, vProof.items, vStatement)
      BY <2>3 DEF CheckShape, VAdvance, VReject
    <3>3. vPc' \in {"open", "rejected"}
      BY <2>3 DEF CheckShape, VAdvance, VReject
    <3>. QED
      BY <2>2, <3>1, <3>2, <3>3 DEF ShapeInv, VRunning, vProof
  <2>4. CASE VDescend
    <3>1. vPc' = "shape" /\ vStatement'.claims = NextClaims
      BY <2>4 DEF VDescend
    <3>2. Len(NextClaims) = 2
      BY DEF NextClaims
    <3>. QED
      BY <2>2, <3>1, <3>2 DEF ShapeInv
  <2>5. CASE ~CheckShape /\ ~VDescend
    <3>1. UNCHANGED <<vRound, vStatement>>
      BY <2>1, <2>5
      DEF VerifierStep, VSumcheckOpen, VContextRefused, VSumcheckFold, VSumcheckClaims,
          VBasicOpen, VIntermediateFold, VIntermediateClaims, VSimpleFold, VSimpleClose,
          VRoundPoly, VCloseSumcheck, VCaptureBoundary, VAcceptChain, VChainRefused,
          VAdvance, VReject
    <3>2. VRunning' => vPc # "shape"
      BY <2>1, <2>5
      DEF VerifierStep, VSumcheckOpen, VContextRefused, VSumcheckFold, VSumcheckClaims,
          VBasicOpen, VIntermediateFold, VIntermediateClaims, VSimpleFold, VSimpleClose,
          VRoundPoly, VCloseSumcheck, VCaptureBoundary, VAcceptChain, VChainRefused,
          VAdvance, VReject, VRunning
    <3>. QED
      BY <2>2, <3>1, <3>2 DEF ShapeInv, vProof
  <2>. QED
    BY <2>3, <2>4, <2>5
<1>4. CASE ProverWorks \/ NoMoreSessions \/ UNCHANGED vars
  BY <1>4 DEF ProverWorks, NoMoreSessions, vars, verifierVars, ShapeInv, VRunning, vProof
<1>. QED
  BY <1>1, <1>2, <1>3, <1>4 DEF Next

-----------------------------------------------------------------------------
(***************************************************************************)
(* What a transcript binds, and what its challenges do.                    *)
(***************************************************************************)

\* Every entry of an item was absorbed.
Bound(t, item) ==
    \A i \in DOMAIN item.data : \E j \in DOMAIN t.absorbed : t.absorbed[j] = item.data[i]

\* Every entry of an item was absorbed before the last draw under a label.
BoundAfter(t, label, item) ==
    \/ item.data = <<>>
    \/ \E k \in DOMAIN t.drawn :
         /\ t.drawn[k].label = label
         /\ t.drawn[k].at <= Len(t.absorbed)
         /\ \A j \in DOMAIN t.drawn : j > k => t.drawn[j].label # label
         /\ \A i \in DOMAIN item.data :
              \E j \in 1..t.drawn[k].at : t.absorbed[j] = item.data[i]

\* What t becomes while nothing is drawn under some labels.
Since(t, labels) ==
    {u \in Extending(t) :
       \A k \in DOMAIN u.drawn : k > Len(t.drawn) => u.drawn[k].label \notin labels}

\* The parts of a transcript.
LEMMA TranscriptParts ==
    ASSUME NEW t \in Transcripts(Entry, Labels)
    PROVE  /\ t.absorbed \in Seq(Entry) /\ Len(t.absorbed) \in Nat
           /\ DOMAIN t.absorbed = 1..Len(t.absorbed)
           /\ t.drawn \in Seq([label : Labels, at : Nat]) /\ Len(t.drawn) \in Nat
           /\ DOMAIN t.drawn = 1..Len(t.drawn)
           /\ \A item : /\ Absorb(t, item).absorbed = t.absorbed \o item.data
                        /\ Absorb(t, item).drawn = t.drawn
           /\ \A label :
                /\ Draw(t, label).absorbed = t.absorbed
                /\ Draw(t, label).drawn
                     = Append(t.drawn, [label |-> label, at |-> Len(t.absorbed)])
BY LenProperties DEF Transcripts, Absorb, Draw

LEMMA DrawParts ==
    ASSUME NEW t \in Transcripts(Entry, Labels), NEW label \in Labels
    PROVE  /\ Draw(t, label) \in Transcripts(Entry, Labels)
           /\ Len(Draw(t, label).drawn) = Len(t.drawn) + 1
           /\ \A k \in 1..Len(t.drawn) : Draw(t, label).drawn[k] = t.drawn[k]
           /\ Draw(t, label).drawn[Len(t.drawn) + 1] = [label |-> label, at |-> Len(t.absorbed)]
<1>. DEFINE Draws == [label : Labels, at : Nat]
            draw == [label |-> label, at |-> Len(t.absorbed)]
<1>1. t.drawn \in Seq(Draws) /\ draw \in Draws
  BY TranscriptParts
<1>2. Draw(t, label).drawn = Append(t.drawn, draw)
  BY TranscriptParts
<1>. HIDE DEF Draws, draw
<1>3. /\ Len(Draw(t, label).drawn) = Len(t.drawn) + 1
      /\ \A k \in 1..Len(t.drawn) : Draw(t, label).drawn[k] = t.drawn[k]
      /\ Draw(t, label).drawn[Len(t.drawn) + 1] = draw
  BY <1>1, <1>2, AppendProperties
<1>. QED
  BY <1>3, DrawType DEF draw

LEMMA SinceClosed ==
    ASSUME NEW t \in Transcripts(Entry, Labels), NEW labels
    PROVE  /\ t \in Since(t, labels)
           /\ \A u \in Since(t, labels), item \in Items : Absorb(u, item) \in Since(t, labels)
           /\ \A u \in Since(t, labels), label \in Labels \ labels :
                Draw(u, label) \in Since(t, labels)
<1>1. t \in Since(t, labels)
  BY ExtendingClosed, TranscriptParts DEF Since
<1>2. ASSUME NEW u \in Since(t, labels), NEW item \in Items
      PROVE  Absorb(u, item) \in Since(t, labels)
  <2>1. u \in Extending(t) /\ u \in Transcripts(Entry, Labels)
    BY DEF Since, Extending
  <2>2. Absorb(u, item) \in Extending(t)
    BY <2>1, ExtendingClosed
  <2>3. Absorb(u, item).drawn = u.drawn
    BY <2>1, TranscriptParts
  <2>. QED
    BY <2>2, <2>3 DEF Since
<1>3. ASSUME NEW u \in Since(t, labels), NEW label \in Labels \ labels
      PROVE  Draw(u, label) \in Since(t, labels)
  <2>1. u \in Extending(t) /\ u \in Transcripts(Entry, Labels)
    BY DEF Since, Extending
  <2>2. Draw(u, label) \in Extending(t)
    BY <2>1, ExtendingClosed
  <2>. DEFINE d == Draw(u, label)
  <2>3. /\ d \in Transcripts(Entry, Labels) /\ Len(d.drawn) = Len(u.drawn) + 1
        /\ \A k \in 1..Len(u.drawn) : d.drawn[k] = u.drawn[k]
        /\ d.drawn[Len(u.drawn) + 1] = [label |-> label, at |-> Len(u.absorbed)]
    <3>1. label \in Labels
      OBVIOUS
    <3>. QED
      BY <2>1, <3>1, DrawParts
  <2>. HIDE DEF d
  <2>5. /\ DOMAIN u.drawn = 1..Len(u.drawn) /\ Len(u.drawn) \in Nat
        /\ DOMAIN d.drawn = 1..(Len(u.drawn) + 1)
    BY <2>1, <2>3, TranscriptParts
  <2>4. \A k \in DOMAIN d.drawn : k > Len(t.drawn) => d.drawn[k].label \notin labels
    <3>. SUFFICES ASSUME NEW k \in DOMAIN d.drawn, k > Len(t.drawn)
                  PROVE  d.drawn[k].label \notin labels
      OBVIOUS
    <3>1. CASE k \in 1..Len(u.drawn)
      BY <3>1, <2>3, <2>5 DEF Since
    <3>2. CASE k = Len(u.drawn) + 1
      BY <3>2, <2>3
    <3>. QED
      BY <3>1, <3>2, <2>5
  <2>. QED
    BY <2>2, <2>4 DEF Since, d
<1>. QED
  BY <1>1, <1>2, <1>3

\* What is absorbed stays so.
LEMMA BoundGrows ==
    ASSUME NEW t \in Transcripts(Entry, Labels), NEW u \in Extending(t), NEW item,
           Bound(t, item)
    PROVE  Bound(u, item)
<1>1. /\ u \in Transcripts(Entry, Labels) /\ Len(t.absorbed) <= Len(u.absorbed)
      /\ \A i \in 1..Len(t.absorbed) : t.absorbed[i] = u.absorbed[i]
  BY DEF Extending, SameChallenges, PrefixOf
<1>2. /\ DOMAIN t.absorbed = 1..Len(t.absorbed) /\ DOMAIN u.absorbed = 1..Len(u.absorbed)
      /\ Len(t.absorbed) \in Nat /\ Len(u.absorbed) \in Nat
  BY <1>1, TranscriptParts
<1>. QED
  BY <1>1, <1>2 DEF Bound

LEMMA AbsorbBinds ==
    ASSUME NEW t \in Transcripts(Entry, Labels), NEW item \in Items
    PROVE  Bound(Absorb(t, item), item)
<1>. DEFINE a == t.absorbed
            b == item.data
<1>1. a \in Seq(Entry) /\ b \in Seq(Entry)
  BY TranscriptParts DEF Items
<1>2. Absorb(t, item).absorbed = a \o b
  BY TranscriptParts
<1>. HIDE DEF a, b
<1>3. /\ Len(a) \in Nat /\ Len(b) \in Nat /\ DOMAIN b = 1..Len(b)
      /\ DOMAIN (a \o b) = 1..(Len(a) + Len(b))
      /\ \A i \in 1..Len(b) : (a \o b)[Len(a) + i] = b[i]
  <2>1. /\ a \o b \in Seq(Entry) /\ Len(a \o b) = Len(a) + Len(b)
        /\ \A i \in 1..(Len(a) + Len(b)) :
             (a \o b)[i] = IF i <= Len(a) THEN a[i] ELSE b[i - Len(a)]
    BY <1>1, ConcatProperties
  <2>2. Len(a) \in Nat /\ Len(b) \in Nat /\ DOMAIN b = 1..Len(b)
    BY <1>1, LenProperties
  <2>3. ASSUME NEW i \in 1..Len(b)
        PROVE  (a \o b)[Len(a) + i] = b[i]
    <3>1. Len(a) + i \in 1..(Len(a) + Len(b)) /\ ~(Len(a) + i <= Len(a))
          /\ (Len(a) + i) - Len(a) = i
      BY <2>2
    <3>. QED
      BY <2>1, <3>1
  <2>4. DOMAIN (a \o b) = 1..(Len(a) + Len(b))
    BY <2>1, LenProperties
  <2>. QED
    BY <2>2, <2>3, <2>4
<1>4. \A i \in DOMAIN b : \E j \in DOMAIN (a \o b) : (a \o b)[j] = b[i]
  <2>. SUFFICES ASSUME NEW i \in DOMAIN b
                PROVE  \E j \in DOMAIN (a \o b) : (a \o b)[j] = b[i]
    OBVIOUS
  <2>1. Len(a) + i \in DOMAIN (a \o b) /\ (a \o b)[Len(a) + i] = b[i]
    BY <1>3
  <2>. QED
    BY <2>1
<1>. QED
  BY <1>2, <1>4 DEF Bound, b

\* A challenge binds what was absorbed when it was drawn, until another is
\* drawn under its label.
LEMMA DrawBinds ==
    ASSUME NEW t \in Transcripts(Entry, Labels), NEW label \in Labels, NEW item,
           Bound(t, item)
    PROVE  BoundAfter(Draw(t, label), label, item)
<1>. DEFINE d == Draw(t, label)
            k == Len(t.drawn) + 1
<1>0. /\ d \in Transcripts(Entry, Labels) /\ Len(d.drawn) = k
      /\ d.drawn[k] = [label |-> label, at |-> Len(t.absorbed)]
  BY DrawParts
<1>1. d.absorbed = t.absorbed
  BY TranscriptParts
<1>. HIDE DEF d
<1>2. /\ d \in Transcripts(Entry, Labels) /\ d.absorbed = t.absorbed
      /\ DOMAIN t.absorbed = 1..Len(t.absorbed) /\ Len(t.drawn) \in Nat
      /\ DOMAIN d.drawn = 1..k /\ Len(t.absorbed) \in Nat
      /\ d.drawn[k] = [label |-> label, at |-> Len(t.absorbed)]
  BY <1>0, <1>1, TranscriptParts
<1>3. /\ k \in DOMAIN d.drawn
      /\ d.drawn[k].label = label
      /\ d.drawn[k].at <= Len(d.absorbed)
      /\ \A j \in DOMAIN d.drawn : ~(j > k)
  BY <1>2
<1>4. \A i \in DOMAIN item.data : \E j \in 1..d.drawn[k].at : d.absorbed[j] = item.data[i]
  BY <1>2 DEF Bound
<1>. HIDE DEF k
<1>5. \E m \in DOMAIN d.drawn :
        /\ d.drawn[m].label = label
        /\ d.drawn[m].at <= Len(d.absorbed)
        /\ \A j \in DOMAIN d.drawn : j > m => d.drawn[j].label # label
        /\ \A i \in DOMAIN item.data : \E j \in 1..d.drawn[m].at : d.absorbed[j] = item.data[i]
  BY <1>3, <1>4
<1>. QED
  BY <1>5 DEF BoundAfter, d

LEMMA BindingStays ==
    ASSUME NEW t \in Transcripts(Entry, Labels), NEW labels, NEW label \in labels,
           NEW u \in Since(t, labels), NEW item, BoundAfter(t, label, item)
    PROVE  BoundAfter(u, label, item)
<1>1. /\ u \in Transcripts(Entry, Labels) /\ Len(t.absorbed) <= Len(u.absorbed)
      /\ \A i \in 1..Len(t.absorbed) : t.absorbed[i] = u.absorbed[i]
      /\ Len(t.drawn) <= Len(u.drawn)
      /\ \A i \in 1..Len(t.drawn) : t.drawn[i] = u.drawn[i]
  BY DEF Since, Extending, SameChallenges, PrefixOf
<1>2. /\ DOMAIN t.drawn = 1..Len(t.drawn) /\ DOMAIN u.drawn = 1..Len(u.drawn)
      /\ Len(t.absorbed) \in Nat /\ Len(u.absorbed) \in Nat
      /\ Len(t.drawn) \in Nat /\ Len(u.drawn) \in Nat
  BY <1>1, TranscriptParts
<1>3. CASE item.data # <<>>
  <2>1. PICK k \in DOMAIN t.drawn :
          /\ t.drawn[k].label = label
          /\ t.drawn[k].at <= Len(t.absorbed)
          /\ \A j \in DOMAIN t.drawn : j > k => t.drawn[j].label # label
          /\ \A i \in DOMAIN item.data :
               \E j \in 1..t.drawn[k].at : t.absorbed[j] = item.data[i]
    BY <1>3 DEF BoundAfter
  <2>2. t.drawn[k].at \in Nat
    <3>1. t.drawn \in Seq([label : Labels, at : Nat]) /\ k \in 1..Len(t.drawn)
      BY <1>2, TranscriptParts
    <3>2. t.drawn[k] \in [label : Labels, at : Nat]
      BY <3>1, ElementOfSeq
    <3>. QED
      BY <3>2
  <2>3. k \in DOMAIN u.drawn /\ u.drawn[k] = t.drawn[k]
    BY <1>1, <1>2
  <2>4. ASSUME NEW j \in DOMAIN u.drawn, j > k
        PROVE  u.drawn[j].label # label
    <3>1. CASE j \in DOMAIN t.drawn
      BY <1>1, <1>2, <2>1, <2>4, <3>1
    <3>2. CASE j \notin DOMAIN t.drawn
      <4>1. j > Len(t.drawn)
        BY <1>2, <3>2
      <4>. QED
        BY <4>1 DEF Since
    <3>. QED
      BY <3>1, <3>2
  <2>5. u.drawn[k].at <= Len(u.absorbed)
    BY <1>1, <1>2, <2>1, <2>2, <2>3
  <2>6. \A j \in 1..t.drawn[k].at : u.absorbed[j] = t.absorbed[j]
    BY <1>1, <1>2, <2>1, <2>2
  <2>7. \A i \in DOMAIN item.data :
          \E j \in 1..u.drawn[k].at : u.absorbed[j] = item.data[i]
    BY <2>1, <2>3, <2>6
  <2>. QED
    BY <2>1, <2>3, <2>4, <2>5, <2>7 DEF BoundAfter
<1>. QED
  BY <1>3 DEF BoundAfter

LEMMA BoundByLastDraw ==
    ASSUME vTranscript \in Transcripts(Entry, Labels), NEW label, NEW item \in Items,
           BoundAfter(vTranscript, label, item)
    PROVE  BoundBy(label, item)
<1>. DEFINE drawn == vTranscript.drawn
            draws == {i \in DOMAIN drawn : drawn[i].label = label}
            last == CHOOSE i \in draws : \A j \in draws : j <= i
<1>1. DOMAIN drawn = 1..Len(drawn) /\ Len(drawn) \in Nat
  BY TranscriptParts
<1>2. CASE item.data = <<>>
  <2>1. DOMAIN item.data = {}
    BY <1>2
  <2>. QED
    BY <2>1 DEF BoundBy
<1>3. CASE item.data # <<>>
  <2>1. PICK k \in DOMAIN drawn :
          /\ drawn[k].label = label
          /\ \A j \in DOMAIN drawn : j > k => drawn[j].label # label
          /\ \A i \in DOMAIN item.data :
               \E j \in 1..drawn[k].at : vTranscript.absorbed[j] = item.data[i]
    BY <1>3 DEF BoundAfter
  <2>2. k \in draws /\ \A j \in draws : j <= k
    BY <1>1, <2>1
  <2>3. draws \subseteq Nat
    BY <1>1
  <2>. HIDE DEF draws
  <2>4. last \in draws /\ \A j \in draws : j <= last
    BY <2>2
  <2>5. last = k
    BY <2>2, <2>3, <2>4
  <2>. QED
    BY <2>1, <2>5 DEF BoundBy, draws
<1>. QED
  BY <1>2, <1>3

\* One thing absorbed, one challenge drawn: what was bound stays bound, and so
\* does what the challenges of other labels bind.
LEMMA BindingSteps ==
    ASSUME NEW t \in Transcripts(Entry, Labels)
    PROVE  /\ \A item \in Items :
                /\ Absorb(t, item) \in Transcripts(Entry, Labels)
                /\ Absorb(t, item) \in Extending(t)
                /\ Bound(Absorb(t, item), item)
                /\ \A x : Bound(t, x) => Bound(Absorb(t, item), x)
                /\ \A label, x : BoundAfter(t, label, x) => BoundAfter(Absorb(t, item), label, x)
           /\ \A label \in Labels :
                /\ Draw(t, label) \in Transcripts(Entry, Labels)
                /\ Draw(t, label) \in Extending(t)
                /\ \A x : Bound(t, x) => /\ Bound(Draw(t, label), x)
                                         /\ BoundAfter(Draw(t, label), label, x)
                /\ \A other, x : other # label /\ BoundAfter(t, other, x)
                                   => BoundAfter(Draw(t, label), other, x)
<1>1. ASSUME NEW item \in Items
      PROVE  /\ Absorb(t, item) \in Transcripts(Entry, Labels)
             /\ Absorb(t, item) \in Extending(t)
             /\ Bound(Absorb(t, item), item)
             /\ \A x : Bound(t, x) => Bound(Absorb(t, item), x)
             /\ \A label, x : BoundAfter(t, label, x) => BoundAfter(Absorb(t, item), label, x)
  <2>. DEFINE u == Absorb(t, item)
  <2>1. u \in Extending(t) /\ u \in Transcripts(Entry, Labels)
    BY ExtendingClosed DEF Extending
  <2>2. \A labels : u \in Since(t, labels)
    BY SinceClosed
  <2>3. Bound(u, item)
    BY AbsorbBinds
  <2>. HIDE DEF u
  <2>4. \A x : Bound(t, x) => Bound(u, x)
    BY <2>1, BoundGrows
  <2>5. ASSUME NEW label, NEW x, BoundAfter(t, label, x)
        PROVE  BoundAfter(u, label, x)
    <3>1. label \in {label} /\ u \in Since(t, {label})
      BY <2>2
    <3>. QED
      BY <2>5, <3>1, BindingStays
  <2>. QED
    BY <2>1, <2>3, <2>4, <2>5 DEF u
<1>2. ASSUME NEW label \in Labels
      PROVE  /\ Draw(t, label) \in Transcripts(Entry, Labels)
             /\ Draw(t, label) \in Extending(t)
             /\ \A x : Bound(t, x) => /\ Bound(Draw(t, label), x)
                                      /\ BoundAfter(Draw(t, label), label, x)
             /\ \A other, x : other # label /\ BoundAfter(t, other, x)
                                => BoundAfter(Draw(t, label), other, x)
  <2>. DEFINE u == Draw(t, label)
  <2>1. u \in Extending(t) /\ u \in Transcripts(Entry, Labels)
    BY ExtendingClosed DEF Extending
  <2>2. \A other : other # label => u \in Since(t, {other})
    BY SinceClosed
  <2>3. \A x : Bound(t, x) => BoundAfter(u, label, x)
    BY DrawBinds
  <2>. HIDE DEF u
  <2>4. \A x : Bound(t, x) => Bound(u, x)
    BY <2>1, BoundGrows
  <2>5. ASSUME NEW other, NEW x, other # label, BoundAfter(t, other, x)
        PROVE  BoundAfter(u, other, x)
    <3>1. other \in {other} /\ u \in Since(t, {other})
      BY <2>2, <2>5
    <3>. QED
      BY <2>5, <3>1, BindingStays
  <2>. QED
    BY <2>1, <2>3, <2>4, <2>5 DEF u
<1>. QED
  BY <1>1, <1>2

LEMMA NothingToBind ==
    ASSUME NEW t
    PROVE  /\ Bound(t, Absent)
           /\ \A label : BoundAfter(t, label, Absent)
<1>1. Absent.data = <<>> /\ DOMAIN <<>> = {}
  BY DEF Absent
<1>. QED
  BY <1>1 DEF Bound, BoundAfter

-----------------------------------------------------------------------------
(***************************************************************************)
(* What the verifier's stretches bind.                                     *)
(***************************************************************************)
LEMMA OpeningBinds ==
    ASSUME VerifierInv, vPc # "idle", NEW t \in Transcripts(Entry, Labels),
           NEW u \in {VOpened(t), VImaged(t)}
    PROVE  /\ u \in Extending(t)
           /\ Bound(u, vItem("opening"))
           /\ u = VImaged(t) => Bound(u, vItem("image"))
           /\ BoundAfter(u, "projection", vStatement.commitment)
           /\ BoundAfter(u, "projection", vItem("opening"))
<1>. DEFINE T == Transcripts(Entry, Labels)
<1>1. \A f \in {"opening", "image"} : vItem(f) \in Items
  BY VerifierItemType DEF Fields
<1>2. vStatement.commitment \in Items /\ {"projection", "batching"} \subseteq Labels
  BY DEF VerifierInv, VerifierTypeOK, Statements, Labels
<1>. DEFINE t1 == Absorb(t, vStatement.commitment)
            t2 == Absorb(t1, vItem("opening"))
            t3 == Draw(t2, "projection")
            t4 == Absorb(t3, vItem("image"))
            t5 == Draw(t4, "batching")
<1>3. t1 \in T /\ Bound(t1, vStatement.commitment)
  BY <1>2, BindingSteps
<1>4. t2 \in T /\ Bound(t2, vStatement.commitment) /\ Bound(t2, vItem("opening"))
  <2>. HIDE DEF t1
  <2>. QED
    BY <1>1, <1>3, BindingSteps
<1>5. /\ t3 \in T /\ Bound(t3, vItem("opening"))
      /\ BoundAfter(t3, "projection", vStatement.commitment)
      /\ BoundAfter(t3, "projection", vItem("opening"))
  <2>. HIDE DEF t2
  <2>. QED
    BY <1>2, <1>4, BindingSteps
<1>6. /\ t4 \in T /\ Bound(t4, vItem("opening")) /\ Bound(t4, vItem("image"))
      /\ BoundAfter(t4, "projection", vStatement.commitment)
      /\ BoundAfter(t4, "projection", vItem("opening"))
  <2>. HIDE DEF t3
  <2>. QED
    BY <1>1, <1>5, BindingSteps
<1>7. /\ t5 \in T /\ Bound(t5, vItem("opening")) /\ Bound(t5, vItem("image"))
      /\ BoundAfter(t5, "projection", vStatement.commitment)
      /\ BoundAfter(t5, "projection", vItem("opening"))
  <2>. HIDE DEF t4
  <2>. QED
    BY <1>2, <1>6, BindingSteps
<1>8. t3 \in Extending(t) /\ t5 \in Extending(t)
  BY <1>1, <1>2, ExtendingClosed
<1>9. VOpened(t) = t3 /\ VImaged(t) = t5
  BY DEF VOpened, VImaged
<1>. HIDE DEF t3, t5
<1>10. CASE u = VImaged(t)
  BY <1>7, <1>8, <1>9, <1>10
<1>11. CASE u = VOpened(t) /\ u # VImaged(t)
  BY <1>5, <1>8, <1>9, <1>11
<1>. QED
  BY <1>10, <1>11

\* The round's projection and the next commitment.
LEMMA FoldingBinds ==
    ASSUME VerifierInv, vPc # "idle", NEW t \in Transcripts(Entry, Labels),
           vItem("constantTerm") = Absent => vItem("batched").data = <<>>
    PROVE  /\ VFolded(t) \in Extending(t)
           /\ \A x : Bound(t, x) => /\ Bound(VFolded(t), x)
                                    /\ BoundAfter(VFolded(t), "fold", x)
           /\ \A f \in {"coarse", "constantTerm", "batched"} :
                /\ Bound(VFolded(t), vItem(f))
                /\ BoundAfter(VFolded(t), "fold", vItem(f))
           /\ Bound(VFolded(t), vItem("next"))
           /\ \A x : BoundAfter(t, "projection", x) => BoundAfter(VFolded(t), "projection", x)
<1>. DEFINE T == Transcripts(Entry, Labels)
            Early == {"coarse", "constantTerm", "batched"}
            Kept(a, b) == /\ b \in T /\ b \in Extending(a)
                          /\ \A x : Bound(a, x) => Bound(b, x)
                          /\ \A x : BoundAfter(a, "projection", x)
                                      => BoundAfter(b, "projection", x)
<1>1. \A f \in {"coarse", "constantTerm", "batched", "next"} : vItem(f) \in Items
  BY VerifierItemType DEF Fields
<1>2. {"batching", "fold"} \subseteq Labels
  BY DEF Labels
<1>3. ASSUME NEW a \in Extending(t), a \in T, Kept(t, a)
      PROVE  /\ \A f \in {"coarse", "constantTerm", "batched", "next"} :
                  Kept(t, Absorb(a, vItem(f))) /\ Bound(Absorb(a, vItem(f)), vItem(f))
             /\ \A label \in {"batching", "fold"} : Kept(t, Draw(a, label))
  <2>1. \A item \in Items : Absorb(a, item) \in Extending(t)
    BY ExtendingClosed
  <2>2. \A label \in Labels : Draw(a, label) \in Extending(t)
    BY ExtendingClosed
  <2>3. ASSUME NEW f \in {"coarse", "constantTerm", "batched", "next"}
        PROVE  Kept(t, Absorb(a, vItem(f))) /\ Bound(Absorb(a, vItem(f)), vItem(f))
    <3>1. vItem(f) \in Items
      BY <1>1
    <3>2. PICK item \in Items : item = vItem(f)
      BY <3>1
    <3>3. Kept(t, Absorb(a, item)) /\ Bound(Absorb(a, item), item)
      BY <1>3, <2>1, BindingSteps
    <3>. QED
      BY <3>2, <3>3
  <2>4. ASSUME NEW label \in {"batching", "fold"}
        PROVE  Kept(t, Draw(a, label))
    <3>1. label \in Labels /\ label # "projection"
      BY <1>2
    <3>. QED
      BY <1>3, <2>2, <3>1, BindingSteps
  <2>. QED
    BY <2>3, <2>4
<1>4. Kept(t, t) /\ t \in Extending(t)
  BY ExtendingClosed
<1>5. \A a : Kept(t, a) => a \in Extending(t) /\ a \in T
  OBVIOUS
<1>. HIDE DEF Kept
<1>. DEFINE t1 == Absorb(t, vItem("coarse"))
            t2 == Absorb(t1, vItem("constantTerm"))
            t3 == Draw(t2, "batching")
            t4 == Absorb(t3, vItem("batched"))
            projected == IF vItem("constantTerm") # Absent THEN t4 ELSE t1
            t5 == Draw(projected, "fold")
            t6 == Absorb(t5, vItem("next"))
<1>6. Kept(t, t1) /\ Bound(t1, vItem("coarse"))
  BY <1>3, <1>4
<1>7. Kept(t, projected) /\ \A f \in Early : Bound(projected, vItem(f))
  <2>1. CASE vItem("constantTerm") # Absent
    <3>1. t1 \in T /\ t2 \in T /\ t3 \in T /\ t4 \in T
      <4>1. t1 \in T
        BY <1>5, <1>6
      <4>. QED
        BY <1>1, <1>2, <4>1, AbsorbType, DrawType
    <3>2. Kept(t, t2) /\ Bound(t2, vItem("constantTerm")) /\ Bound(t2, vItem("coarse"))
      <4>. HIDE DEF t1
      <4>1. Bound(t2, vItem("coarse"))
        BY <1>1, <1>6, <3>1, BindingSteps
      <4>. QED
        BY <1>3, <1>5, <1>6, <4>1
    <3>3. Kept(t, t3) /\ Bound(t3, vItem("constantTerm")) /\ Bound(t3, vItem("coarse"))
      <4>. HIDE DEF t2
      <4>1. Bound(t3, vItem("coarse")) /\ Bound(t3, vItem("constantTerm"))
        BY <1>2, <3>1, <3>2, BindingSteps
      <4>. QED
        BY <1>3, <1>5, <3>2, <4>1
    <3>4. /\ Kept(t, t4) /\ Bound(t4, vItem("constantTerm")) /\ Bound(t4, vItem("coarse"))
          /\ Bound(t4, vItem("batched"))
      <4>. HIDE DEF t3
      <4>1. Bound(t4, vItem("coarse")) /\ Bound(t4, vItem("constantTerm"))
        BY <1>1, <3>1, <3>3, BindingSteps
      <4>. QED
        BY <1>3, <1>5, <3>3, <4>1
    <3>. HIDE DEF t4, t1
    <3>. QED
      BY <2>1, <3>4
  <2>2. CASE vItem("constantTerm") = Absent
    <3>1. Bound(t1, vItem("constantTerm"))
      BY <2>2, NothingToBind
    <3>2. Bound(t1, vItem("batched"))
      <4>1. DOMAIN vItem("batched").data = {}
        BY <2>2
      <4>. QED
        BY <4>1 DEF Bound
    <3>. HIDE DEF t1
    <3>. QED
      BY <1>6, <2>2, <3>1, <3>2
  <2>. QED
    BY <2>1, <2>2
<1>. HIDE DEF projected
<1>8. /\ Kept(t, t5) /\ t5 \in T
      /\ \A x : Bound(projected, x) => Bound(t5, x) /\ BoundAfter(t5, "fold", x)
  <2>1. projected \in T /\ projected \in Extending(t) /\ "fold" \in Labels
    BY <1>2, <1>5, <1>7
  <2>. QED
    BY <1>3, <1>5, <1>7, <2>1, BindingSteps
<1>. HIDE DEF t5
<1>9. /\ Kept(t, t6) /\ Bound(t6, vItem("next"))
      /\ \A x : Bound(t5, x) => Bound(t6, x)
      /\ \A x : BoundAfter(t5, "fold", x) => BoundAfter(t6, "fold", x)
  <2>1. PICK item \in Items : item = vItem("next")
    BY <1>1
  <2>2. /\ \A x : Bound(t5, x) => Bound(Absorb(t5, item), x)
        /\ \A x : BoundAfter(t5, "fold", x) => BoundAfter(Absorb(t5, item), "fold", x)
    BY <1>8, BindingSteps
  <2>. QED
    BY <1>3, <1>5, <1>8, <2>1, <2>2
<1>10. VFolded(t) = t6
  BY DEF VFolded, projected, t5
<1>. HIDE DEF t6
<1>11. \A x : Bound(t, x) => Bound(projected, x)
  BY <1>7 DEF Kept
<1>. QED
  BY <1>7, <1>8, <1>9, <1>10, <1>11 DEF Kept

\* The claims a sumcheck round's combination is made of.
EnteringClaims == {"norm", "mostInnerNorm", "projectionNorm", "constantTermClaims"}

LEMMA ClaimingBinds ==
    ASSUME VerifierInv, vPc # "idle", NEW t \in Transcripts(Entry, Labels)
    PROVE  /\ VClaimed(t) \in Since(t, {"projection", "fold"})
           /\ \A x : Bound(t, x) =>
                /\ Bound(VClaimed(t), x)
                /\ BoundAfter(VClaimed(t), "combination", x)
                /\ vCfg.projection = "Coarse" => BoundAfter(VClaimed(t), "flattener", x)
           /\ \A f \in EnteringClaims :
                /\ Bound(VClaimed(t), vItem(f))
                /\ BoundAfter(VClaimed(t), "combination", vItem(f))
<1>. DEFINE T == Transcripts(Entry, Labels)
            Coarse == vCfg.projection = "Coarse"
            Kept(u) == /\ u \in T /\ u \in Since(t, {"projection", "fold"})
                       /\ \A x : Bound(t, x) =>
                            Bound(u, x) /\ (Coarse => BoundAfter(u, "flattener", x))
<1>1. \A f \in EnteringClaims : vItem(f) \in Items
  BY VerifierItemType DEF Fields, EnteringClaims
<1>2. {"flattener", "combination", "toField"} \subseteq Labels
  BY DEF Labels
<1>3. ASSUME NEW u, Kept(u), NEW item \in Items
      PROVE  /\ Kept(Absorb(u, item)) /\ Bound(Absorb(u, item), item)
             /\ \A x : Bound(u, x) => Bound(Absorb(u, item), x)
  <2>1. Absorb(u, item) \in Since(t, {"projection", "fold"})
    BY <1>3, SinceClosed
  <2>. QED
    BY <1>3, <2>1, BindingSteps
<1>4. ASSUME NEW u, Kept(u), NEW label \in {"combination", "toField"}
      PROVE  Kept(Draw(u, label))
  <2>1. label \in Labels \ {"projection", "fold"} /\ label # "flattener"
    BY <1>2
  <2>2. Draw(u, label) \in Since(t, {"projection", "fold"})
    BY <1>4, <2>1, SinceClosed
  <2>. QED
    BY <1>4, <2>1, <2>2, BindingSteps
<1>5. Kept(VFlattened(t))
  <2>1. CASE Coarse
    <3>1. "flattener" \in Labels \ {"projection", "fold"}
      BY <1>2
    <3>2. Draw(t, "flattener") \in Since(t, {"projection", "fold"})
      BY <3>1, SinceClosed
    <3>3. Kept(Draw(t, "flattener"))
      BY <3>1, <3>2, BindingSteps
    <3>. QED
      BY <2>1, <3>3 DEF VFlattened
  <2>2. CASE ~Coarse
    <3>1. Kept(t)
      BY <2>2, SinceClosed
    <3>. QED
      BY <2>2, <3>1 DEF VFlattened
  <2>. QED
    BY <2>1, <2>2
<1>6. \A u : Kept(u) => u \in T
  OBVIOUS
<1>. HIDE DEF Kept
<1>. DEFINE t0 == VFlattened(t)
            t1 == Absorb(t0, vItem("norm"))
            t2 == Absorb(t1, vItem("mostInnerNorm"))
            t3 == Absorb(t2, vItem("projectionNorm"))
            t4 == Absorb(t3, vItem("constantTermClaims"))
            t5 == Draw(t4, "combination")
            t6 == Draw(t5, "toField")
<1>. HIDE DEF t0
<1>7. Kept(t1) /\ Bound(t1, vItem("norm"))
  BY <1>1, <1>3, <1>5 DEF t0, EnteringClaims
<1>. HIDE DEF t1
<1>8. Kept(t2) /\ Bound(t2, vItem("norm")) /\ Bound(t2, vItem("mostInnerNorm"))
  BY <1>1, <1>3, <1>7 DEF EnteringClaims
<1>. HIDE DEF t2
<1>9. /\ Kept(t3) /\ Bound(t3, vItem("norm")) /\ Bound(t3, vItem("mostInnerNorm"))
      /\ Bound(t3, vItem("projectionNorm"))
  BY <1>1, <1>3, <1>8 DEF EnteringClaims
<1>. HIDE DEF t3
<1>10. Kept(t4) /\ \A f \in EnteringClaims : Bound(t4, vItem(f))
  <2>1. vItem("constantTermClaims") \in Items
    BY <1>1 DEF EnteringClaims
  <2>. QED
    BY <2>1, <1>3, <1>9 DEF EnteringClaims
<1>. HIDE DEF t4
<1>11. /\ Kept(t5) /\ t5 \in T
       /\ \A x : Bound(t4, x) => Bound(t5, x) /\ BoundAfter(t5, "combination", x)
  <2>1. t4 \in T /\ "combination" \in Labels
    BY <1>2, <1>6, <1>10
  <2>. QED
    BY <1>4, <1>6, <1>10, <2>1, BindingSteps
<1>. HIDE DEF t5
<1>12. /\ Kept(t6)
       /\ \A x : Bound(t5, x) => Bound(t6, x)
       /\ \A x : BoundAfter(t5, "combination", x) => BoundAfter(t6, "combination", x)
  <2>1. "toField" \in Labels /\ "combination" # "toField"
    BY <1>2
  <2>. QED
    BY <1>4, <1>11, <2>1, BindingSteps
<1>13. VClaimed(t) = t6
  BY DEF VClaimed, t0, t1, t2, t3, t4, t5
<1>. HIDE DEF t6
<1>14. \A x : Bound(t, x) => Bound(t4, x)
  BY <1>10 DEF Kept
<1>. QED
  BY <1>10, <1>11, <1>12, <1>13, <1>14 DEF Kept

\* The folds of the intermediate and the simple round.
LEMMA BasicFoldingBinds ==
    ASSUME VerifierInv, vPc # "idle", NEW t \in Transcripts(Entry, Labels),
           NEW u, \/ u = Draw(Absorb(t, vItem("batched")), "fold")
                  \/ u = Absorb(Draw(Absorb(t, vItem("batched")), "fold"), vItem("next"))
    PROVE  /\ u \in Transcripts(Entry, Labels) /\ u \in Since(t, {"projection"})
           /\ \A x : Bound(t, x) => Bound(u, x) /\ BoundAfter(u, "fold", x)
           /\ Bound(u, vItem("batched")) /\ BoundAfter(u, "fold", vItem("batched"))
           /\ u # Draw(Absorb(t, vItem("batched")), "fold") => Bound(u, vItem("next"))
<1>. DEFINE T == Transcripts(Entry, Labels)
            Quiet == Since(t, {"projection"})
            t1 == Absorb(t, vItem("batched"))
            t2 == Draw(t1, "fold")
            t3 == Absorb(t2, vItem("next"))
<1>1. /\ \A f \in {"batched", "next"} : vItem(f) \in Items
      /\ "fold" \in Labels \ {"projection"}
  BY VerifierItemType DEF Fields, Labels
<1>2. \A a \in Quiet : a \in T
  BY DEF Since, Extending
<1>3. /\ t1 \in T /\ t1 \in Quiet /\ Bound(t1, vItem("batched"))
      /\ \A x : Bound(t, x) => Bound(t1, x)
  BY <1>1, <1>2, SinceClosed, BindingSteps
<1>. HIDE DEF t1
<1>4. /\ t2 \in T /\ t2 \in Quiet
      /\ \A x : Bound(t1, x) => Bound(t2, x) /\ BoundAfter(t2, "fold", x)
  <2>1. "fold" \in Labels
    BY <1>1
  <2>2. t2 \in Quiet
    BY <1>1, <1>3, SinceClosed
  <2>. QED
    BY <2>1, <2>2, <1>2, <1>3, BindingSteps
<1>. HIDE DEF t2
<1>5. /\ t3 \in T /\ t3 \in Quiet /\ Bound(t3, vItem("next"))
      /\ \A x : Bound(t2, x) => Bound(t3, x)
      /\ \A x : BoundAfter(t2, "fold", x) => BoundAfter(t3, "fold", x)
  <2>1. t3 \in Quiet
    BY <1>1, <1>4, SinceClosed
  <2>2. PICK item \in Items : item = vItem("next")
    BY <1>1
  <2>3. /\ Bound(Absorb(t2, item), item)
        /\ \A x : Bound(t2, x) => Bound(Absorb(t2, item), x)
        /\ \A x : BoundAfter(t2, "fold", x) => BoundAfter(Absorb(t2, item), "fold", x)
    BY <1>4, BindingSteps
  <2>. QED
    BY <2>1, <2>2, <2>3, <1>2
<1>. HIDE DEF t3
<1>6. u = t2 \/ u = t3
  BY DEF t1, t2, t3
<1>7. CASE u = t2
  BY <1>3, <1>4, <1>7 DEF t1, t2
<1>8. CASE u = t3
  BY <1>3, <1>4, <1>5, <1>8
<1>. QED
  BY <1>6, <1>7, <1>8

\* The claim an intermediate round's combination is made of.
LEMMA IntermediateClaimingBinds ==
    ASSUME VerifierInv, vPc # "idle", NEW t \in Transcripts(Entry, Labels),
           NEW u, u = Draw(Draw(Absorb(t, vItem("norm")), "combination"), "toField")
    PROVE  /\ u \in Transcripts(Entry, Labels) /\ u \in Since(t, {"projection", "fold"})
           /\ \A x : Bound(t, x) => Bound(u, x) /\ BoundAfter(u, "combination", x)
           /\ Bound(u, vItem("norm")) /\ BoundAfter(u, "combination", vItem("norm"))
<1>. DEFINE T == Transcripts(Entry, Labels)
            Quiet == Since(t, {"projection", "fold"})
            t1 == Absorb(t, vItem("norm"))
            t2 == Draw(t1, "combination")
            t3 == Draw(t2, "toField")
<1>1. vItem("norm") \in Items /\ {"combination", "toField"} \subseteq Labels \ {"projection", "fold"}
  BY VerifierItemType DEF Fields, Labels
<1>2. \A a \in Quiet : a \in T
  BY DEF Since, Extending
<1>3. /\ t1 \in T /\ t1 \in Quiet /\ Bound(t1, vItem("norm"))
      /\ \A x : Bound(t, x) => Bound(t1, x)
  BY <1>1, <1>2, SinceClosed, BindingSteps
<1>. HIDE DEF t1
<1>4. /\ t2 \in T /\ t2 \in Quiet
      /\ \A x : Bound(t1, x) => Bound(t2, x) /\ BoundAfter(t2, "combination", x)
  <2>1. "combination" \in Labels
    BY <1>1
  <2>2. t2 \in Quiet
    BY <1>1, <1>3, SinceClosed
  <2>. QED
    BY <2>1, <2>2, <1>2, <1>3, BindingSteps
<1>. HIDE DEF t2
<1>5. /\ t3 \in T /\ t3 \in Quiet
      /\ \A x : Bound(t2, x) => Bound(t3, x)
      /\ \A x : BoundAfter(t2, "combination", x) => BoundAfter(t3, "combination", x)
  <2>1. "toField" \in Labels /\ "toField" # "combination"
    BY <1>1
  <2>2. t3 \in Quiet
    BY <1>1, <1>4, SinceClosed
  <2>. QED
    BY <2>1, <2>2, <1>2, <1>4, BindingSteps
<1>6. u = t3
  BY DEF t1, t2, t3
<1>. HIDE DEF t3
<1>. QED
  BY <1>3, <1>4, <1>5, <1>6

\* One variable of a sumcheck.
LEMMA RoundPolyBinds ==
    ASSUME NEW t \in Transcripts(Entry, Labels), NEW item \in Items,
           NEW u, u = Draw(Absorb(t, item), "point")
    PROVE  /\ u \in Transcripts(Entry, Labels)
           /\ u \in Since(t, {"projection", "flattener", "fold", "combination"})
           /\ Bound(u, item)
<1>. DEFINE Quiet == Since(t, {"projection", "flattener", "fold", "combination"})
            t1 == Absorb(t, item)
<1>1. "point" \in Labels \ {"projection", "flattener", "fold", "combination"}
  BY DEF Labels
<1>2. t1 \in Transcripts(Entry, Labels) /\ t1 \in Quiet /\ Bound(t1, item)
  BY SinceClosed, BindingSteps
<1>. HIDE DEF t1
<1>3. Draw(t1, "point") \in Quiet
  BY <1>1, <1>2, SinceClosed
<1>4. Bound(Draw(t1, "point"), item) /\ Draw(t1, "point") \in Transcripts(Entry, Labels)
  BY <1>1, <1>2, BindingSteps
<1>. QED
  BY <1>3, <1>4 DEF t1

\* The claims a round leaves.
LEMMA ClosingBinds ==
    ASSUME VerifierInv, vPc # "idle", NEW t \in Transcripts(Entry, Labels)
    PROVE  /\ VClosed(t) \in Extending(t)
           /\ Bound(VClosed(t), vItem("z0")) /\ Bound(VClosed(t), vItem("z1"))
<1>. DEFINE t1 == Absorb(t, vItem("z0"))
            t2 == Absorb(t1, vItem("z1"))
<1>1. vItem("z0") \in Items /\ vItem("z1") \in Items
  BY VerifierItemType DEF Fields
<1>2. /\ t1 \in Transcripts(Entry, Labels) /\ t1 \in Extending(t)
      /\ Bound(t1, vItem("z0"))
  BY <1>1, BindingSteps
<1>. HIDE DEF t1
<1>3. t2 \in Extending(t)
  BY <1>1, <1>2, ExtendingClosed
<1>4. Bound(t2, vItem("z1")) /\ Bound(t2, vItem("z0"))
  BY <1>1, <1>2, BindingSteps
<1>. QED
  BY <1>3, <1>4 DEF VClosed, t1

-----------------------------------------------------------------------------
(***************************************************************************)
(* What has been read is absorbed.                                         *)
(***************************************************************************)

\* The fields of the current round that have been read when a phase begins.
ReadBy(phase) ==
    IF phase = "fold" THEN {"opening", "image"}
    ELSE IF phase \in {"claims", "close"}
    THEN {"opening", "image", "coarse", "constantTerm", "batched", "next"}
    ELSE IF phase = "poly"
    THEN {"opening", "image", "coarse", "constantTerm", "batched", "next"}
           \cup EnteringClaims
    ELSE IF phase \in {"recurse", "accepted"} THEN Fields \ {"folded"}
    ELSE {}

\* Of the rounds above everything but a folded witness is absorbed, of the
\* current round what has been read, in a sumcheck the polynomials of the
\* variables that have a challenge.
ReadInv ==
    VRunning \/ vPc = "accepted" =>
      /\ \A r \in 1..(vRound - 1), f \in Fields \ {"folded"} :
           Bound(vTranscript, received[r].items[f])
      /\ \A f \in ReadBy(vPc) : Bound(vTranscript, vItem(f))
      /\ vPc = "poly" =>
           /\ Len(vPoints) <= Len(vItem("polys").data)
           /\ \A i \in 1..Len(vPoints) : \E j \in DOMAIN vTranscript.absorbed :
                vTranscript.absorbed[j] = vItem("polys").data[i]

LEMMA UnusedIsAbsent ==
    ASSUME TypeInv, ShapeInv, vPc # "idle"
    PROVE  \A f \in Unused(vCfg.kind) : vItem(f) = Absent
<1>1. vRound \in 1..Len(received) /\ FormKept(chain, received)
  BY VerifierItemType DEF TypeInv, ShapeInv
<1>. QED
  BY <1>1 DEF FormKept, vCfg, vItem, vProof

\* A fine projection's two roots are there together or not at all.
LEMMA FineRootsTogether ==
    ASSUME TypeInv, ShapeInv, VRunning, vPc # "shape", vCfg.kind = "Sumcheck",
           vItem("constantTerm") = Absent
    PROVE  vItem("batched").data = <<>>
<1>. DEFINE cfg == chain[vRound]
            fine == cfg.projection = "Fine"
<1>1. SumcheckShapePasses(chain, vRound, vProof.items, vStatement)
  BY DEF ShapeInv, ShapePasses, vCfg
<1>2. \A f \in {"constantTerm", "batched"} :
        FitsShape(vItem(f), OptionalShape(fine, <<cfg.rank[f]>>))
  BY <1>1 DEF SumcheckShapePasses, vItem
<1>3. Absent.shape = <<>>
  BY DEF Absent, NoShape
<1>4. ~fine
  <2>1. ASSUME fine PROVE FALSE
    <3>1. vItem("constantTerm").shape = <<cfg.rank["constantTerm"]>>
      BY <1>2, <2>1 DEF FitsShape, OptionalShape
    <3>2. <<cfg.rank["constantTerm"]>> # <<>>
      OBVIOUS
    <3>. QED
      BY <3>1, <3>2, <1>3
  <2>. QED
    BY <2>1
<1>5. Len(vItem("batched").data) = Entries(NoShape)
  BY <1>2, <1>4 DEF FitsShape, OptionalShape
<1>6. Entries(NoShape) = 0
  BY DEF Entries, NoShape
<1>7. vItem("batched") \in Items
  BY VerifierItemType DEF TypeInv, VRunning, Fields
<1>8. vItem("batched").data \in Seq(Entry)
  BY <1>7 DEF Items
<1>. QED
  BY <1>5, <1>6, <1>8, EmptySeq

LEMMA VerifierReads ==
    ASSUME TypeInv, ShapeInv, ReadInv, VRunning, NEW holds \in BOOLEAN, VerifierStep(holds),
           UNCHANGED <<chain, received>>
    PROVE  ReadInv'
<1>. DEFINE T == Transcripts(Entry, Labels)
<1>1. /\ VerifierInv /\ vPc # "idle" /\ vTranscript \in T
      /\ chain \in Chains /\ vRound \in Nat /\ vPoints \in Points
      /\ vCfg.kind \in {"Sumcheck", "Intermediate", "Simple"}
  <2>1. chain \in Chains /\ vRound \in 1..Len(chain)
    BY DEF TypeInv, SessionTypeOK, VerifierInv, VerifierTypeOK
  <2>2. vCfg.kind \in Kinds
    BY <2>1, ConfigType DEF vCfg
  <2>. QED
    BY <2>1, <2>2 DEF TypeInv, VerifierInv, VerifierTypeOK, VRunning, Kinds
<1>2. \A t, f : f \in Unused(vCfg.kind) => Bound(t, vItem(f))
  BY <1>1, UnusedIsAbsent, NothingToBind
<1>3. \A f \in ReadBy(vPc) : Bound(vTranscript, vItem(f))
  BY DEF ReadInv
<1>4. ASSUME vTranscript' \in Extending(vTranscript)
      PROVE  /\ \A x : Bound(vTranscript, x) => Bound(vTranscript', x)
             /\ \A r \in 1..(vRound - 1), f \in Fields \ {"folded"} :
                  Bound(vTranscript', received[r].items[f])
  <2>1. \A x : Bound(vTranscript, x) => Bound(vTranscript', x)
    BY <1>1, <1>4, BoundGrows
  <2>. QED
    BY <2>1 DEF ReadInv
<1>5. ASSUME vTranscript' \in Extending(vTranscript), vRound' = vRound, vPc' # "poly",
             \A f \in ReadBy(vPc') : Bound(vTranscript', vItem(f))
      PROVE  ReadInv'
  BY <1>4, <1>5 DEF ReadInv, vItem, vProof
<1>6. vTranscript \in Extending(vTranscript)
  BY <1>1, ExtendingClosed
<1>7. CASE vPc' = "rejected"
  BY <1>7 DEF ReadInv, VRunning
<1>8. CASE CheckShape /\ vPc' # "rejected"
  <2>1. vPc' = "open" /\ UNCHANGED <<vTranscript, vRound>>
    BY <1>8 DEF CheckShape, VAdvance, VReject
  <2>. QED
    BY <2>1, <1>5, <1>6 DEF ReadBy
<1>9. CASE VSumcheckOpen
  <2>1. /\ vPc' = "fold" /\ vRound' = vRound /\ vTranscript' = VOpened(vTranscript)
        /\ vCfg.kind = "Sumcheck"
    BY <1>9 DEF VSumcheckOpen
  <2>2. vTranscript' \in Extending(vTranscript) /\ Bound(vTranscript', vItem("opening"))
    BY <2>1, <1>1, OpeningBinds
  <2>. QED
    BY <2>1, <2>2, <1>2, <1>5 DEF ReadBy, Unused
<1>10. CASE VBasicOpen
  <2>1. /\ vPc' = "fold" /\ vRound' = vRound /\ vTranscript' = VImaged(vTranscript)
    BY <1>10 DEF VBasicOpen, VAdvance
  <2>2. /\ vTranscript' \in Extending(vTranscript) /\ Bound(vTranscript', vItem("opening"))
        /\ Bound(vTranscript', vItem("image"))
    BY <2>1, <1>1, OpeningBinds
  <2>. QED
    BY <2>1, <2>2, <1>5 DEF ReadBy
<1>11. CASE VSumcheckFold
  <2>1. /\ vPc' = "claims" /\ vRound' = vRound /\ vTranscript' = VFolded(vTranscript)
        /\ vCfg.kind = "Sumcheck" /\ vPc = "fold"
    BY <1>11 DEF VSumcheckFold, VAdvance
  <2>2. vItem("constantTerm") = Absent => vItem("batched").data = <<>>
    BY <2>1, FineRootsTogether
  <2>3. /\ vTranscript' \in Extending(vTranscript)
        /\ \A f \in {"coarse", "constantTerm", "batched", "next"} :
             Bound(vTranscript', vItem(f))
    BY <2>1, <2>2, <1>1, FoldingBinds
  <2>4. Bound(vTranscript', vItem("opening"))
    BY <2>1, <2>3, <1>3, <1>4 DEF ReadBy
  <2>. QED
    BY <2>1, <2>3, <2>4, <1>2, <1>5 DEF ReadBy, Unused
<1>12. CASE (VIntermediateFold(holds) \/ VSimpleFold) /\ vPc' # "rejected"
  <2>1. /\ vPc' \in {"claims", "close"} /\ vRound' = vRound /\ vPc = "fold"
        /\ vCfg.kind = "Intermediate" =>
             vTranscript' =
               Absorb(Draw(Absorb(vTranscript, vItem("batched")), "fold"), vItem("next"))
        /\ vCfg.kind # "Intermediate" =>
             vTranscript' = Draw(Absorb(vTranscript, vItem("batched")), "fold")
        /\ vCfg.kind \in {"Intermediate", "Simple"}
    BY <1>12 DEF VIntermediateFold, VSimpleFold, VAdvance, VReject
  <2>2. /\ vTranscript' \in Extending(vTranscript)
        /\ Bound(vTranscript', vItem("batched"))
    BY <2>1, <1>1, BasicFoldingBinds DEF Since
  <2>3. Bound(vTranscript', vItem("next"))
    <3>1. CASE vCfg.kind = "Simple"
      BY <3>1, <1>2 DEF Unused
    <3>2. CASE vCfg.kind = "Intermediate"
      <4>1. PICK item \in Items : item = vItem("next")
        BY <1>1, VerifierItemType DEF Fields
      <4>2. Draw(Absorb(vTranscript, vItem("batched")), "fold") \in T
        BY <1>1, BasicFoldingBinds
      <4>3. Bound(Absorb(Draw(Absorb(vTranscript, vItem("batched")), "fold"), item), item)
        BY <4>2, AbsorbBinds
      <4>. QED
        BY <2>1, <3>2, <4>1, <4>3
    <3>. QED
      BY <2>1, <3>1, <3>2
  <2>4. Bound(vTranscript', vItem("opening")) /\ Bound(vTranscript', vItem("image"))
    BY <2>1, <2>2, <1>3, <1>4 DEF ReadBy
  <2>5. Bound(vTranscript', vItem("coarse")) /\ Bound(vTranscript', vItem("constantTerm"))
    BY <2>1, <1>2 DEF Unused
  <2>. QED
    BY <2>1, <2>2, <2>3, <2>4, <2>5, <1>5 DEF ReadBy
<1>13. CASE (VSumcheckClaims(holds) \/ VIntermediateClaims(holds)) /\ vPc' # "rejected"
  <2>1. /\ vPc' = "poly" /\ vRound' = vRound /\ vPoints' = <<>> /\ vPc = "claims"
        /\ vCfg.kind \in {"Sumcheck", "Intermediate"}
        /\ vCfg.kind = "Sumcheck" => vTranscript' = VClaimed(vTranscript)
        /\ vCfg.kind = "Intermediate" =>
             vTranscript' =
               Draw(Draw(Absorb(vTranscript, vItem("norm")), "combination"), "toField")
    BY <1>13 DEF VSumcheckClaims, VIntermediateClaims, VReject
  <2>2. /\ vTranscript' \in Extending(vTranscript)
        /\ \A f \in EnteringClaims : Bound(vTranscript', vItem(f))
    <3>1. CASE vCfg.kind = "Sumcheck"
      BY <2>1, <3>1, <1>1, ClaimingBinds DEF Since
    <3>2. CASE vCfg.kind = "Intermediate"
      BY <2>1, <3>2, <1>1, <1>2, IntermediateClaimingBinds DEF Since, EnteringClaims, Unused
    <3>. QED
      BY <2>1, <3>1, <3>2
  <2>3. \A f \in ReadBy("claims") : Bound(vTranscript', vItem(f))
    BY <2>1, <2>2, <1>3, <1>4
  <2>4. \A f \in ReadBy("poly") : Bound(vTranscript', vItem(f))
    BY <2>2, <2>3 DEF ReadBy
  <2>5. Len(vPoints') = 0 /\ 0 <= Len(vItem("polys").data)
    BY <2>1, <1>1, VerifierItemType, LenProperties DEF Fields, Items
  <2>6. 1..Len(vPoints') = {}
    BY <2>5
  <2>. QED
    BY <2>1, <2>2, <2>4, <2>5, <2>6, <1>4 DEF ReadInv, vItem, vProof
<1>14. CASE VSimpleClose(holds) /\ vPc' # "rejected"
  <2>1. /\ vPc' = "accepted" /\ UNCHANGED <<vRound, vTranscript>> /\ vPc = "close"
        /\ vCfg.kind = "Simple"
    BY <1>14 DEF VSimpleClose, VReject
  <2>2. \A f \in Fields \ {"folded"} : f \in ReadBy(vPc) \/ f \in Unused(vCfg.kind)
    BY <2>1 DEF ReadBy, Unused, Fields
  <2>3. \A f \in ReadBy(vPc') : Bound(vTranscript', vItem(f))
    BY <2>1, <2>2, <1>2, <1>3 DEF ReadBy
  <2>. QED
    BY <2>1, <2>3, <1>5, <1>6
<1>15. CASE VRoundPoly(holds) /\ vPc' # "rejected"
  <2>. DEFINE n == Len(vPoints)
              polys == vItem("polys")
              poly == Single(polys, n + 1)
  <2>1. /\ vPc' = "poly" /\ vRound' = vRound /\ vPc = "poly" /\ n < Len(polys.data)
        /\ vTranscript' = Draw(Absorb(vTranscript, poly), "point")
        /\ vPoints' = Append(vPoints, LastDraw(vTranscript) + 1)
    BY <1>15 DEF VRoundPoly, VReject
  <2>2. polys \in Items /\ Len(polys.data) \in Nat /\ n \in Nat
    BY <1>1, VerifierItemType, LenProperties DEF Fields, Items, Points
  <2>3. poly \in Items /\ DOMAIN poly.data = {1} /\ poly.data[1] = polys.data[n + 1]
    <3>1. n + 1 \in 1..Len(polys.data)
      BY <2>1, <2>2
    <3>2. poly \in Items
      BY <2>2, <3>1, SingleType
    <3>3. DOMAIN poly.data = {1} /\ poly.data[1] = polys.data[n + 1]
      <4>. HIDE DEF polys, n
      <4>. QED
        BY DEF Single
    <3>. QED
      BY <3>2, <3>3
  <2>. HIDE DEF poly
  <2>4. vTranscript' \in Extending(vTranscript) /\ Bound(vTranscript', poly)
    BY <2>1, <2>3, <1>1, RoundPolyBinds DEF Since
  <2>5. Len(vPoints') = n + 1
    BY <2>1, <1>1, LastDrawType, AppendProperties DEF Points
  <2>6. \E j \in DOMAIN vTranscript'.absorbed : vTranscript'.absorbed[j] = polys.data[n + 1]
    BY <2>3, <2>4 DEF Bound
  <2>7. ASSUME NEW i \in 1..n
        PROVE  \E j \in DOMAIN vTranscript'.absorbed : vTranscript'.absorbed[j] = polys.data[i]
    <3>1. \E j \in DOMAIN vTranscript.absorbed : vTranscript.absorbed[j] = polys.data[i]
      BY <2>1 DEF ReadInv
    <3>. DEFINE x == [data |-> <<polys.data[i]>>]
    <3>3. DOMAIN x.data = {1} /\ x.data[1] = polys.data[i]
      OBVIOUS
    <3>. HIDE DEF x
    <3>4. Bound(vTranscript, x)
      BY <3>1, <3>3 DEF Bound
    <3>5. Bound(vTranscript', x)
      BY <3>4, <2>4, <1>4
    <3>. QED
      BY <3>5, <3>3 DEF Bound
  <2>8. \A i \in 1..Len(vPoints') :
          \E j \in DOMAIN vTranscript'.absorbed : vTranscript'.absorbed[j] = polys.data[i]
    <3>1. \A i \in 1..(n + 1) : i = n + 1 \/ i \in 1..n
      BY <2>2
    <3>. QED
      BY <3>1, <2>5, <2>6, <2>7
  <2>9. Len(vPoints') <= Len(polys.data)
    BY <2>1, <2>2, <2>5
  <2>10. \A f \in ReadBy(vPc') : Bound(vTranscript', vItem(f))
    BY <2>1, <2>4, <1>3, <1>4
  <2>. QED
    BY <2>1, <2>4, <2>8, <2>9, <2>10, <1>4 DEF ReadInv, vItem, vProof
<1>16. CASE VCloseSumcheck(holds) /\ vPc' # "rejected"
  <2>1. /\ vPc' = "recurse" /\ vRound' = vRound /\ vTranscript' = VClosed(vTranscript)
        /\ vPc = "poly" /\ Len(vPoints) = Len(vItem("polys").data)
    BY <1>16 DEF VCloseSumcheck
  <2>2. /\ vTranscript' \in Extending(vTranscript)
        /\ Bound(vTranscript', vItem("z0")) /\ Bound(vTranscript', vItem("z1"))
    BY <2>1, <1>1, ClosingBinds
  <2>3. Bound(vTranscript, vItem("polys"))
    <3>1. DOMAIN vItem("polys").data = 1..Len(vPoints)
      BY <2>1, <1>1, VerifierItemType, LenProperties DEF Fields, Items
    <3>. QED
      BY <2>1, <3>1 DEF ReadInv, Bound
  <2>4. \A f \in Fields \ {"folded"} : f \in ReadBy(vPc) \cup {"polys", "z0", "z1"}
    BY <2>1 DEF ReadBy, EnteringClaims, Fields
  <2>5. \A f \in ReadBy(vPc) \cup {"polys"} : Bound(vTranscript', vItem(f))
    BY <2>2, <2>3, <1>3, <1>4
  <2>6. \A f \in ReadBy(vPc') : Bound(vTranscript', vItem(f))
    <3>1. ReadBy(vPc') = Fields \ {"folded"}
      BY <2>1 DEF ReadBy
    <3>. QED
      BY <3>1, <2>2, <2>4, <2>5
  <2>. QED
    BY <2>1, <2>2, <2>6, <1>5
<1>17. CASE VCaptureBoundary \/ VAcceptChain
  <2>1. vPc' = "accepted" /\ UNCHANGED <<vRound, vTranscript>> /\ vPc = "recurse"
    BY <1>17 DEF VCaptureBoundary, VAcceptChain
  <2>2. ReadBy(vPc') = ReadBy(vPc)
    BY <2>1 DEF ReadBy
  <2>. QED
    BY <2>1, <2>2, <1>3, <1>5, <1>6
<1>18. CASE VDescend
  <2>1. /\ vPc' = "shape" /\ vRound' = vRound + 1 /\ UNCHANGED vTranscript
        /\ vPc = "recurse"
    BY <1>18 DEF VDescend
  <2>2. \A f \in Fields \ {"folded"} : Bound(vTranscript, received[vRound].items[f])
    BY <2>1, <1>3 DEF ReadBy, vItem, vProof
  <2>3. \A r \in 1..(vRound' - 1) : r \in 1..(vRound - 1) \/ r = vRound
    BY <2>1, <1>1
  <2>4. \A r \in 1..(vRound' - 1), f \in Fields \ {"folded"} :
          Bound(vTranscript, received[r].items[f])
    BY <2>2, <2>3, <1>4, <1>6, <2>1
  <2>. QED
    BY <2>1, <2>4 DEF ReadInv, ReadBy
<1>19. VContextRefused \/ VChainRefused => vPc' = "rejected"
  BY DEF VContextRefused, VChainRefused, VReject
<1>. QED
  BY <1>7, <1>8, <1>9, <1>10, <1>11, <1>12, <1>13, <1>14, <1>15, <1>16, <1>17, <1>18, <1>19
  DEF VerifierStep

LEMMA NextReadInv == TypeInv /\ ShapeInv /\ ReadInv /\ [Next]_vars => ReadInv'
<1>. SUFFICES ASSUME TypeInv, ShapeInv, ReadInv, [Next]_vars PROVE ReadInv'
  OBVIOUS
<1>1. CASE Prove
  BY <1>1 DEF Prove, ReadInv, VRunning
<1>2. CASE Deliver
  <2>1. PICK fresh, cut, statement : VerifierStart(fresh, cut, statement)
    BY <1>2 DEF Deliver
  <2>2. vPc' = "shape" /\ vRound' = 1
    BY <2>1 DEF VerifierStart
  <2>. QED
    BY <2>2 DEF ReadInv, ReadBy
<1>3. CASE VerifierWorks
  <2>1. PICK holds \in BOOLEAN : VerifierStep(holds)
    BY <1>3 DEF VerifierWorks, Outcomes
  <2>. QED
    BY <1>3, <2>1, VerifierReads DEF VerifierWorks
<1>4. CASE ProverWorks \/ NoMoreSessions \/ UNCHANGED vars
  <2>1. UNCHANGED <<received, verifierVars>>
    BY <1>4 DEF ProverWorks, NoMoreSessions, vars
  <2>. QED
    BY <2>1 DEF ReadInv, VRunning, vItem, vProof, verifierVars
<1>. QED
  BY <1>1, <1>2, <1>3, <1>4 DEF Next

\* What the verifier's invariants take together.
LEMMA ReadInvariant == Spec => [](TypeInv /\ ShapeInv /\ ReadInv)
<1>1. Init => ReadInv
  BY DEF Init, ReadInv, VRunning
<1>. QED
  BY <1>1, InitTypeInv, InitShapeInv, NextTypeInv, NextShapeInv, NextReadInv, PTL DEF Spec

\* Whatever an altered proof carries and whichever round it is altered in, an
\* accepted proof has no entry the challenges below it do not depend on: of
\* every verified round all that is read is absorbed, the folded witness of a
\* last round excepted.
THEOREM AcceptedProofIsAbsorbed == Spec => []EverythingReadIsBound
<1>1. TypeInv /\ ReadInv => EverythingReadIsBound
  <2>. SUFFICES ASSUME TypeInv, ReadInv, vPc \in {"recurse", "accepted"},
                       NEW r \in 1..vRound, NEW f \in Fields \ {"folded"}
                PROVE  Bound(vTranscript, received[r].items[f])
    BY DEF EverythingReadIsBound, Bound
  <2>1. vRound \in Nat
    BY DEF TypeInv, VerifierInv, VerifierTypeOK
  <2>2. r \in 1..(vRound - 1) \/ r = vRound
    BY <2>1
  <2>3. f \in ReadBy(vPc)
    BY DEF ReadBy
  <2>. QED
    BY <2>2, <2>3 DEF ReadInv, VRunning, vItem, vProof
<1>. QED
  BY <1>1, ReadInvariant, PTL

-----------------------------------------------------------------------------
(***************************************************************************)
(* What is randomised is absorbed before the challenges are known.         *)
(***************************************************************************)
ChallengeInv ==
    /\ vPc \in {"fold", "claims", "poly"} =>
         /\ BoundAfter(vTranscript, "projection", vStatement.commitment)
         /\ \A f \in CommittedFirst : BoundAfter(vTranscript, "projection", vItem(f))
    /\ vPc \in {"claims", "poly"} =>
         \A f \in CommittedBeforeFold : BoundAfter(vTranscript, "fold", vItem(f))
    /\ vPc = "poly" =>
         /\ \A f \in CommittedBeforeBatching : BoundAfter(vTranscript, "combination", vItem(f))
         /\ vCfg.kind = "Sumcheck" /\ vCfg.projection = "Coarse" =>
              BoundAfter(vTranscript, "flattener", vItem("next"))

LEMMA VerifierChallenges ==
    ASSUME TypeInv, ShapeInv, ReadInv, ChallengeInv, VRunning,
           NEW holds \in BOOLEAN, VerifierStep(holds), UNCHANGED <<chain, received>>
    PROVE  ChallengeInv'
<1>. DEFINE T == Transcripts(Entry, Labels)
            First(t) == /\ BoundAfter(t, "projection", vStatement.commitment)
                        /\ \A f \in CommittedFirst : BoundAfter(t, "projection", vItem(f))
            Second(t) == \A f \in CommittedBeforeFold : BoundAfter(t, "fold", vItem(f))
            Third(t) ==
              /\ \A f \in CommittedBeforeBatching : BoundAfter(t, "combination", vItem(f))
              /\ vCfg.kind = "Sumcheck" /\ vCfg.projection = "Coarse" =>
                   BoundAfter(t, "flattener", vItem("next"))
<1>1. /\ VerifierInv /\ vPc # "idle" /\ vTranscript \in T
      /\ chain \in Chains /\ vRound \in Nat /\ vPoints \in Points
      /\ vCfg.kind \in {"Sumcheck", "Intermediate", "Simple"}
  <2>1. chain \in Chains /\ vRound \in 1..Len(chain)
    BY DEF TypeInv, SessionTypeOK, VerifierInv, VerifierTypeOK
  <2>2. vCfg.kind \in Kinds
    BY <2>1, ConfigType DEF vCfg
  <2>. QED
    BY <2>1, <2>2 DEF TypeInv, VerifierInv, VerifierTypeOK, VRunning, Kinds
<1>2. \A t, label, f : f \in Unused(vCfg.kind) => BoundAfter(t, label, vItem(f))
  BY <1>1, UnusedIsAbsent, NothingToBind
<1>3. \A f \in ReadBy(vPc) : Bound(vTranscript, vItem(f))
  BY DEF ReadInv
<1>4. /\ vPc \in {"fold", "claims", "poly"} => First(vTranscript)
      /\ vPc \in {"claims", "poly"} => Second(vTranscript)
      /\ vPc = "poly" => Third(vTranscript)
  BY DEF ChallengeInv
<1>5. ASSUME UNCHANGED <<vRound, vStatement>>,
             vPc' \in {"fold", "claims", "poly"} => First(vTranscript'),
             vPc' \in {"claims", "poly"} => Second(vTranscript'),
             vPc' = "poly" => Third(vTranscript')
      PROVE  ChallengeInv'
  BY <1>5 DEF ChallengeInv, vItem, vProof, vCfg
<1>. HIDE DEF First, Second, Third
<1>6. CASE vPc' \notin {"fold", "claims", "poly"}
  BY <1>6 DEF ChallengeInv
<1>7. CASE VSumcheckOpen \/ VBasicOpen
  <2>1. /\ vPc' = "fold" /\ UNCHANGED <<vRound, vStatement>>
        /\ vTranscript' \in {VOpened(vTranscript), VImaged(vTranscript)}
    BY <1>7 DEF VSumcheckOpen, VBasicOpen, VAdvance
  <2>2. First(vTranscript')
    BY <2>1, <1>1, OpeningBinds DEF First, CommittedFirst
  <2>. QED
    BY <2>1, <2>2, <1>5
<1>8. CASE VSumcheckFold
  <2>1. /\ vPc' = "claims" /\ UNCHANGED <<vRound, vStatement>>
        /\ vTranscript' = VFolded(vTranscript) /\ vCfg.kind = "Sumcheck" /\ vPc = "fold"
    BY <1>8 DEF VSumcheckFold, VAdvance
  <2>2. vItem("constantTerm") = Absent => vItem("batched").data = <<>>
    BY <2>1, FineRootsTogether
  <2>3. /\ \A x : Bound(vTranscript, x) => BoundAfter(vTranscript', "fold", x)
        /\ \A f \in {"coarse", "constantTerm", "batched"} :
             BoundAfter(vTranscript', "fold", vItem(f))
        /\ \A x : BoundAfter(vTranscript, "projection", x)
                    => BoundAfter(vTranscript', "projection", x)
    BY <2>1, <2>2, <1>1, FoldingBinds
  <2>4. First(vTranscript')
    BY <2>1, <2>3, <1>4 DEF First
  <2>5. BoundAfter(vTranscript', "fold", vItem("opening"))
    BY <2>1, <2>3, <1>3 DEF ReadBy
  <2>6. Second(vTranscript')
    BY <2>1, <2>3, <2>5, <1>2 DEF Second, CommittedBeforeFold, Unused
  <2>. QED
    BY <2>1, <2>4, <2>6, <1>5
<1>9. CASE VIntermediateFold(holds) /\ vPc' = "claims"
  <2>1. /\ vPc' = "claims" /\ UNCHANGED <<vRound, vStatement>>
        /\ vTranscript' =
             Absorb(Draw(Absorb(vTranscript, vItem("batched")), "fold"), vItem("next"))
        /\ vCfg.kind = "Intermediate" /\ vPc = "fold"
    BY <1>9 DEF VIntermediateFold, VAdvance, VReject
  <2>2. /\ vTranscript' \in Since(vTranscript, {"projection"})
        /\ \A x : Bound(vTranscript, x) => BoundAfter(vTranscript', "fold", x)
        /\ BoundAfter(vTranscript', "fold", vItem("batched"))
    BY <2>1, <1>1, BasicFoldingBinds
  <2>3. First(vTranscript')
    <3>1. \A x : BoundAfter(vTranscript, "projection", x)
                   => BoundAfter(vTranscript', "projection", x)
      BY <2>2, <1>1, BindingStays
    <3>. QED
      BY <2>1, <3>1, <1>4 DEF First
  <2>4. /\ BoundAfter(vTranscript', "fold", vItem("opening"))
        /\ BoundAfter(vTranscript', "fold", vItem("image"))
    BY <2>1, <2>2, <1>3 DEF ReadBy
  <2>5. /\ BoundAfter(vTranscript', "fold", vItem("coarse"))
        /\ BoundAfter(vTranscript', "fold", vItem("constantTerm"))
    BY <2>1, <1>2 DEF Unused
  <2>6. Second(vTranscript')
    BY <2>2, <2>4, <2>5 DEF Second, CommittedBeforeFold
  <2>. QED
    BY <2>1, <2>3, <2>6, <1>5
<1>10. CASE (VSumcheckClaims(holds) \/ VIntermediateClaims(holds)) /\ vPc' = "poly"
  <2>1. /\ UNCHANGED <<vRound, vStatement>> /\ vPc = "claims"
        /\ vCfg.kind \in {"Sumcheck", "Intermediate"}
        /\ vCfg.kind = "Sumcheck" => vTranscript' = VClaimed(vTranscript)
        /\ vCfg.kind = "Intermediate" =>
             vTranscript' =
               Draw(Draw(Absorb(vTranscript, vItem("norm")), "combination"), "toField")
    BY <1>10 DEF VSumcheckClaims, VIntermediateClaims, VReject
  <2>2. /\ vTranscript' \in Since(vTranscript, {"projection", "fold"})
        /\ \A x : Bound(vTranscript, x) =>
             /\ BoundAfter(vTranscript', "combination", x)
             /\ vCfg.kind = "Sumcheck" /\ vCfg.projection = "Coarse" =>
                  BoundAfter(vTranscript', "flattener", x)
        /\ \A f \in EnteringClaims : BoundAfter(vTranscript', "combination", vItem(f))
    <3>1. CASE vCfg.kind = "Sumcheck"
      BY <2>1, <3>1, <1>1, ClaimingBinds
    <3>2. CASE vCfg.kind = "Intermediate"
      BY <2>1, <3>2, <1>1, <1>2, IntermediateClaimingBinds DEF EnteringClaims, Unused
    <3>. QED
      BY <2>1, <3>1, <3>2
  <2>3. \A label \in {"projection", "fold"} :
          \A x : BoundAfter(vTranscript, label, x) => BoundAfter(vTranscript', label, x)
    BY <2>2, <1>1, BindingStays
  <2>4. First(vTranscript') /\ Second(vTranscript')
    BY <2>1, <2>3, <1>4 DEF First, Second
  <2>5. \A f \in CommittedBeforeBatching : f \in ReadBy("claims") \cup EnteringClaims
    BY DEF CommittedBeforeBatching, CommittedBeforeFold, ReadBy, EnteringClaims
  <2>6. /\ \A f \in ReadBy("claims") : BoundAfter(vTranscript', "combination", vItem(f))
        /\ "next" \in ReadBy("claims")
    BY <2>1, <2>2, <1>3 DEF ReadBy
  <2>7. vCfg.kind = "Sumcheck" /\ vCfg.projection = "Coarse" =>
          BoundAfter(vTranscript', "flattener", vItem("next"))
    BY <2>1, <2>2, <2>6, <1>3
  <2>8. Third(vTranscript')
    BY <2>2, <2>5, <2>6, <2>7 DEF Third
  <2>. QED
    BY <2>1, <2>4, <2>8, <1>5
<1>11. CASE VRoundPoly(holds) /\ vPc' = "poly"
  <2>. DEFINE poly == Single(vItem("polys"), Len(vPoints) + 1)
  <2>1. /\ UNCHANGED <<vRound, vStatement>> /\ vPc = "poly"
        /\ Len(vPoints) < Len(vItem("polys").data)
        /\ vTranscript' = Draw(Absorb(vTranscript, poly), "point")
    BY <1>11 DEF VRoundPoly, VReject
  <2>2. poly \in Items
    <3>1. /\ vItem("polys") \in Items /\ Len(vPoints) \in Nat
          /\ Len(vItem("polys").data) \in Nat
      BY <1>1, VerifierItemType, LenProperties DEF Fields, Items, Points
    <3>2. Len(vPoints) + 1 \in 1..Len(vItem("polys").data)
      BY <2>1, <3>1
    <3>. QED
      BY <3>1, <3>2, SingleType
  <2>. HIDE DEF poly
  <2>3. vTranscript' \in Since(vTranscript, {"projection", "flattener", "fold", "combination"})
    BY <2>1, <2>2, <1>1, RoundPolyBinds
  <2>4. \A label \in {"projection", "flattener", "fold", "combination"} :
          \A x : BoundAfter(vTranscript, label, x) => BoundAfter(vTranscript', label, x)
    BY <2>3, <1>1, BindingStays
  <2>5. First(vTranscript') /\ Second(vTranscript')
    BY <2>1, <2>4, <1>4 DEF First, Second
  <2>6. Third(vTranscript')
    BY <2>1, <2>4, <1>4 DEF Third
  <2>. QED
    BY <2>1, <2>5, <2>6, <1>5
<1>12. VerifierStep(holds) /\ vPc' \in {"fold", "claims", "poly"} =>
         \/ VSumcheckOpen \/ VBasicOpen \/ VSumcheckFold
         \/ VIntermediateFold(holds) /\ vPc' = "claims"
         \/ (VSumcheckClaims(holds) \/ VIntermediateClaims(holds)) /\ vPc' = "poly"
         \/ VRoundPoly(holds) /\ vPc' = "poly"
  BY DEF VerifierStep, CheckShape, VSumcheckOpen, VContextRefused, VSumcheckFold,
         VSumcheckClaims, VBasicOpen, VIntermediateFold, VIntermediateClaims, VSimpleFold,
         VSimpleClose, VRoundPoly, VCloseSumcheck, VCaptureBoundary, VDescend,
         VAcceptChain, VChainRefused, VAdvance, VReject
<1>. QED
  BY <1>6, <1>7, <1>8, <1>9, <1>10, <1>11, <1>12

LEMMA NextChallengeInv ==
    TypeInv /\ ShapeInv /\ ReadInv /\ ChallengeInv /\ [Next]_vars => ChallengeInv'
<1>. SUFFICES ASSUME TypeInv, ShapeInv, ReadInv, ChallengeInv, [Next]_vars
              PROVE  ChallengeInv'
  OBVIOUS
<1>1. CASE Prove \/ Deliver
  <2>1. vPc' \in {"idle", "shape"}
    BY <1>1 DEF Prove, Deliver, VerifierStart
  <2>. QED
    BY <2>1 DEF ChallengeInv
<1>2. CASE VerifierWorks
  <2>1. PICK holds \in BOOLEAN : VerifierStep(holds)
    BY <1>2 DEF VerifierWorks, Outcomes
  <2>. QED
    BY <1>2, <2>1, VerifierChallenges DEF VerifierWorks
<1>3. CASE ProverWorks \/ NoMoreSessions \/ UNCHANGED vars
  <2>1. UNCHANGED <<chain, received, verifierVars>>
    BY <1>3 DEF ProverWorks, NoMoreSessions, vars
  <2>. QED
    BY <2>1 DEF ChallengeInv, vItem, vProof, vCfg, verifierVars
<1>. QED
  BY <1>1, <1>2, <1>3 DEF Next

\* Whatever it is given to read, the verifier knows no projection, no fold, no
\* flattener and no batching challenge before it has absorbed what the
\* challenge randomises: in all three kinds of round, whether a round is
\* projected coarsely, finely or not at all, and however its proof was altered.
THEOREM ChallengesComeAfter == Spec => []ChallengesBindWhatTheyRandomise
<1>1. Init => ChallengeInv
  BY DEF Init, ChallengeInv
<1>2. TypeInv /\ ChallengeInv => ChallengesBindWhatTheyRandomise
  <2>. SUFFICES ASSUME TypeInv, ChallengeInv, vPc \in {"fold", "claims", "poly"}
                PROVE  ChallengesBindWhatTheyRandomise
    BY DEF ChallengesBindWhatTheyRandomise
  <2>1. /\ vTranscript \in Transcripts(Entry, Labels) /\ vStatement.commitment \in Items
        /\ \A f \in Fields : vItem(f) \in Items
    BY VerifierItemType DEF TypeInv, VerifierInv, VerifierTypeOK, Statements
  <2>2. /\ CommittedFirst \subseteq Fields /\ CommittedBeforeFold \subseteq Fields
        /\ CommittedBeforeBatching \subseteq Fields /\ "next" \in Fields
    BY DEF CommittedFirst, CommittedBeforeFold, CommittedBeforeBatching, Fields
  <2>3. \A label, item : item \in Items /\ BoundAfter(vTranscript, label, item)
                           => BoundBy(label, item)
    BY <2>1, BoundByLastDraw
  <2>4. BoundBy("projection", vStatement.commitment)
    BY <2>1, <2>3 DEF ChallengeInv
  <2>5. \A f \in CommittedFirst : BoundBy("projection", vItem(f))
    BY <2>1, <2>2, <2>3 DEF ChallengeInv
  <2>6. vPc \in {"claims", "poly"} => \A f \in CommittedBeforeFold : BoundBy("fold", vItem(f))
    BY <2>1, <2>2, <2>3 DEF ChallengeInv
  <2>7. vPc = "poly" =>
          \A f \in CommittedBeforeBatching : BoundBy("combination", vItem(f))
    BY <2>1, <2>2, <2>3 DEF ChallengeInv
  <2>8. vPc = "poly" /\ vCfg.kind = "Sumcheck" /\ vCfg.projection = "Coarse" =>
          BoundBy("flattener", vItem("next"))
    BY <2>1, <2>2, <2>3 DEF ChallengeInv
  <2>. QED
    BY <2>4, <2>5, <2>6, <2>7, <2>8 DEF ChallengesBindWhatTheyRandomise
<1>. QED
  BY <1>1, <1>2, ReadInvariant, NextChallengeInv, PTL DEF Spec

-----------------------------------------------------------------------------
(***************************************************************************)
(* Every variable has a challenge of its own.                              *)
(***************************************************************************)
PointDraws(t) == {i \in DOMAIN t.drawn : t.drawn[i].label = "point"}

Challenged(t) == Cardinality(PointDraws(t))

\* The sumcheck variables of one round.
RoundVariables(c, r) == IF c[r].kind = "Simple" THEN 0 ELSE c[r].vars

CountsThrough(f, r) ==
    f = [i \in 0..r |-> IF i = 0 THEN 0 ELSE f[i - 1] + RoundVariables(chain, i)]

LEMMA CountsExist ==
    ASSUME NEW r \in Nat
    PROVE  \E f : CountsThrough(f, r)
<1>. DEFINE Missing == {n \in Nat : ~\E f : CountsThrough(f, n)}
<1>1. SUFFICES ASSUME Missing # {} PROVE FALSE
  OBVIOUS
<1>2. Missing \subseteq Nat
  OBVIOUS
<1>. HIDE DEF Missing
<1>3. PICK x \in Missing : \A y \in Missing : x <= y
  BY <1>1, <1>2, LeastNatural
<1>. USE DEF Missing
<1>4. x # 0
  <2>. DEFINE f == [i \in 0..0 |-> 0]
  <2>1. f = [i \in 0..0 |-> IF i = 0 THEN 0 ELSE f[i - 1] + RoundVariables(chain, i)]
    OBVIOUS
  <2>. HIDE DEF f
  <2>2. CountsThrough(f, 0)
    BY <2>1 DEF CountsThrough
  <2>. QED
    BY <2>2
<1>5. x - 1 \in Nat /\ x - 1 \notin Missing
  BY <1>3, <1>4
<1>6. PICK f : CountsThrough(f, x - 1)
  BY <1>5
<1>. DEFINE g == [i \in 0..x |-> IF i = x THEN f[x - 1] + RoundVariables(chain, x) ELSE f[i]]
<1>7. ASSUME NEW i \in 0..x
      PROVE  g[i] = IF i = 0 THEN 0 ELSE g[i - 1] + RoundVariables(chain, i)
  <2>1. f = [k \in 0..(x - 1) |-> IF k = 0 THEN 0 ELSE f[k - 1] + RoundVariables(chain, k)]
    BY <1>6 DEF CountsThrough
  <2>2. \A k \in 0..(x - 1) : f[k] = IF k = 0 THEN 0 ELSE f[k - 1] + RoundVariables(chain, k)
    BY <2>1
  <2>3. x \in Nat
    BY <1>3
  <2>4. CASE i = x
    <3>1. i - 1 \in 0..x /\ i - 1 # x
      BY <1>4, <2>3, <2>4
    <3>2. g[i] = f[x - 1] + RoundVariables(chain, x) /\ g[i - 1] = f[i - 1]
      BY <2>4, <3>1
    <3>. HIDE DEF g
    <3>. QED
      BY <1>4, <2>4, <3>2
  <2>5. CASE i # x
    <3>1. i \in 0..(x - 1) /\ (i # 0 => i - 1 \in 0..x /\ i - 1 # x)
      BY <2>3, <2>5
    <3>2. g[i] = f[i] /\ (i # 0 => g[i - 1] = f[i - 1])
      BY <2>5, <3>1
    <3>. HIDE DEF g
    <3>. QED
      BY <2>2, <3>1, <3>2
  <2>. QED
    BY <2>4, <2>5
<1>8. g = [i \in 0..x |-> g[i]]
  OBVIOUS
<1>. HIDE DEF g
<1>9. CountsThrough(g, x)
  BY <1>7, <1>8 DEF CountsThrough
<1>. QED
  BY <1>3, <1>9

LEMMA CountsAgree ==
    ASSUME chain \in Chains, NEW r \in 0..Len(chain), NEW s \in 0..r,
           NEW f, CountsThrough(f, r), NEW g, CountsThrough(g, s)
    PROVE  f[s] = g[s] /\ f[s] \in Nat
<1>. DEFINE Apart == {i \in 0..s : ~(f[i] = g[i] /\ f[i] \in Nat)}
<1>1. Len(chain) \in Nat /\ r \in Nat /\ s \in Nat
  BY ChainType
<1>2. \A i \in 0..r : f[i] = IF i = 0 THEN 0 ELSE f[i - 1] + RoundVariables(chain, i)
  BY DEF CountsThrough
<1>3. \A i \in 0..s : g[i] = IF i = 0 THEN 0 ELSE g[i - 1] + RoundVariables(chain, i)
  BY DEF CountsThrough
<1>4. \A i \in 1..Len(chain) : RoundVariables(chain, i) \in Nat
  BY ConfigType DEF RoundVariables
<1>5. SUFFICES ASSUME Apart # {} PROVE FALSE
  BY <1>1
<1>6. Apart \subseteq Nat
  BY <1>1
<1>. HIDE DEF Apart
<1>7. PICK x \in Apart : \A y \in Apart : x <= y
  BY <1>5, <1>6, LeastNatural
<1>. USE DEF Apart
<1>8. x \in 0..s /\ x \in 0..r /\ x # 0
  BY <1>1, <1>2, <1>3, <1>7
<1>9. x - 1 \in 0..s /\ x - 1 \notin Apart /\ x \in 1..Len(chain)
  BY <1>1, <1>7, <1>8
<1>10. f[x - 1] = g[x - 1] /\ f[x - 1] \in Nat
  BY <1>9
<1>11. f[x] = f[x - 1] + RoundVariables(chain, x) /\ g[x] = g[x - 1] + RoundVariables(chain, x)
  BY <1>2, <1>3, <1>8
<1>12. f[x] = g[x] /\ f[x] \in Nat
  BY <1>4, <1>9, <1>10, <1>11
<1>. QED
  BY <1>7, <1>12

LEMMA VariablesOfRounds ==
    ASSUME chain \in Chains, NEW r \in 0..Len(chain)
    PROVE  /\ VariablesThrough(r) \in Nat
           /\ r = 0 => VariablesThrough(r) = 0
           /\ r # 0 => VariablesThrough(r)
                         = VariablesThrough(r - 1) + RoundVariables(chain, r)
<1>1. Len(chain) \in Nat /\ r \in Nat
  BY ChainType
<1>2. ASSUME NEW s \in Nat
      PROVE  \E f : CountsThrough(f, s) /\ VariablesThrough(s) = f[s]
  <2>. DEFINE total == CHOOSE f : CountsThrough(f, s)
  <2>1. CountsThrough(total, s)
    BY CountsExist
  <2>2. VariablesThrough(s) = total[s]
    BY DEF VariablesThrough, CountsThrough, RoundVariables
  <2>. QED
    BY <2>1, <2>2
<1>3. PICK f : CountsThrough(f, r) /\ VariablesThrough(r) = f[r]
  BY <1>1, <1>2
<1>4. f[r] \in Nat
  BY <1>1, <1>3, CountsAgree
<1>5. f[r] = IF r = 0 THEN 0 ELSE f[r - 1] + RoundVariables(chain, r)
  BY <1>1, <1>3 DEF CountsThrough
<1>6. CASE r # 0
  <2>1. r - 1 \in Nat /\ r - 1 \in 0..r
    BY <1>1, <1>6
  <2>2. PICK g : CountsThrough(g, r - 1) /\ VariablesThrough(r - 1) = g[r - 1]
    BY <1>2, <2>1
  <2>3. f[r - 1] = g[r - 1]
    BY <1>3, <2>1, <2>2, CountsAgree
  <2>. QED
    BY <1>3, <1>4, <1>5, <1>6, <2>2, <2>3
<1>. QED
  BY <1>3, <1>4, <1>5, <1>6

LEMMA PointDrawsFinite ==
    ASSUME NEW t \in Transcripts(Entry, Labels)
    PROVE  IsFiniteSet(PointDraws(t)) /\ Challenged(t) \in Nat
<1>1. DOMAIN t.drawn = 1..Len(t.drawn) /\ Len(t.drawn) \in Nat
  BY TranscriptParts
<1>2. PointDraws(t) \in SUBSET Nat /\ \A i \in PointDraws(t) : i <= Len(t.drawn)
  BY <1>1 DEF PointDraws
<1>3. IsFiniteSet(PointDraws(t))
  BY <1>1, <1>2, FS_BoundedSetOfNaturals
<1>. QED
  BY <1>3, FS_CardinalityType DEF Challenged

\* Only a draw of a point counts.
LEMMA QuietKeepsCount ==
    ASSUME NEW t \in Transcripts(Entry, Labels), NEW u \in Since(t, {"point"})
    PROVE  Challenged(u) = Challenged(t)
<1>1. /\ u \in Transcripts(Entry, Labels) /\ Len(t.drawn) <= Len(u.drawn)
      /\ \A i \in 1..Len(t.drawn) : t.drawn[i] = u.drawn[i]
  BY DEF Since, Extending, SameChallenges, PrefixOf
<1>2. /\ DOMAIN t.drawn = 1..Len(t.drawn) /\ DOMAIN u.drawn = 1..Len(u.drawn)
      /\ Len(t.drawn) \in Nat /\ Len(u.drawn) \in Nat
  BY <1>1, TranscriptParts
<1>3. \A k \in DOMAIN u.drawn : k > Len(t.drawn) => u.drawn[k].label # "point"
  BY DEF Since
<1>4. PointDraws(u) = PointDraws(t)
  <2>1. \A i \in PointDraws(t) : i \in PointDraws(u)
    BY <1>1, <1>2 DEF PointDraws
  <2>2. \A i \in PointDraws(u) : i \in PointDraws(t)
    BY <1>1, <1>2, <1>3 DEF PointDraws
  <2>. QED
    BY <2>1, <2>2
<1>. QED
  BY <1>4 DEF Challenged

LEMMA PointCounts ==
    ASSUME NEW t \in Transcripts(Entry, Labels), NEW item \in Items
    PROVE  Challenged(Draw(Absorb(t, item), "point")) = Challenged(t) + 1
<1>. DEFINE u == Absorb(t, item)
            d == Draw(u, "point")
            n == Len(t.drawn)
<1>1. u \in Transcripts(Entry, Labels) /\ u.drawn = t.drawn
  BY AbsorbType, TranscriptParts
<1>2. "point" \in Labels
  BY DEF Labels
<1>. HIDE DEF u
<1>3. /\ d \in Transcripts(Entry, Labels) /\ Len(d.drawn) = n + 1
      /\ \A k \in 1..n : d.drawn[k] = t.drawn[k]
      /\ d.drawn[n + 1].label = "point"
  <2>1. /\ d \in Transcripts(Entry, Labels) /\ Len(d.drawn) = Len(u.drawn) + 1
        /\ \A k \in 1..Len(u.drawn) : d.drawn[k] = u.drawn[k]
        /\ d.drawn[Len(u.drawn) + 1] = [label |-> "point", at |-> Len(u.absorbed)]
    BY <1>1, <1>2, DrawParts
  <2>. HIDE DEF d
  <2>. QED
    BY <2>1, <1>1
<1>. HIDE DEF d
<1>4. n \in Nat /\ DOMAIN t.drawn = 1..n /\ DOMAIN d.drawn = 1..(n + 1)
  BY <1>3, TranscriptParts
<1>5. PointDraws(d) = PointDraws(t) \cup {n + 1} /\ n + 1 \notin PointDraws(t)
  BY <1>3, <1>4 DEF PointDraws
<1>6. Cardinality(PointDraws(t) \cup {n + 1}) = Cardinality(PointDraws(t)) + 1
  BY <1>5, PointDrawsFinite, FS_AddElement
<1>. QED
  BY <1>5, <1>6 DEF Challenged, d, u

\* Outside of its loop over the variables a round draws no point.
LEMMA StretchesAreQuiet ==
    ASSUME VerifierInv, vPc # "idle", NEW t \in Transcripts(Entry, Labels)
    PROVE  /\ VOpened(t) \in Since(t, {"point"})
           /\ VImaged(t) \in Since(t, {"point"})
           /\ VFolded(t) \in Since(t, {"point"})
           /\ Draw(Absorb(t, vItem("batched")), "fold") \in Since(t, {"point"})
           /\ Absorb(Draw(Absorb(t, vItem("batched")), "fold"), vItem("next"))
                \in Since(t, {"point"})
           /\ VClaimed(t) \in Since(t, {"point"})
           /\ Draw(Draw(Absorb(t, vItem("norm")), "combination"), "toField")
                \in Since(t, {"point"})
           /\ VClosed(t) \in Since(t, {"point"})
<1>. DEFINE Quiet == Since(t, {"point"})
<1>1. t \in Quiet
  BY SinceClosed
<1>2. \A u \in Quiet, f \in Fields : Absorb(u, vItem(f)) \in Quiet
  <2>1. \A f \in Fields : vItem(f) \in Items
    BY VerifierItemType
  <2>. QED
    BY <2>1, SinceClosed
<1>3. \A u \in Quiet : Absorb(u, vStatement.commitment) \in Quiet
  <2>1. vStatement.commitment \in Items
    BY DEF VerifierInv, VerifierTypeOK, Statements
  <2>. QED
    BY <2>1, SinceClosed
<1>4. \A u \in Quiet, label \in Labels \ {"point"} : Draw(u, label) \in Quiet
  BY SinceClosed
<1>5. {"projection", "batching", "fold", "flattener", "combination", "toField"}
        \subseteq Labels \ {"point"}
  BY DEF Labels
<1>6. {"opening", "image", "coarse", "constantTerm", "batched", "next", "norm",
       "mostInnerNorm", "projectionNorm", "constantTermClaims", "z0", "z1"} \subseteq Fields
  BY DEF Fields
<1>. HIDE DEF Quiet
<1>7. VOpened(t) \in Quiet
  BY <1>1, <1>2, <1>3, <1>4, <1>5, <1>6 DEF VOpened
<1>8. VImaged(t) \in Quiet
  BY <1>7, <1>2, <1>4, <1>5, <1>6 DEF VImaged
<1>9. VFolded(t) \in Quiet
  BY <1>1, <1>2, <1>4, <1>5, <1>6 DEF VFolded
<1>10. Draw(Absorb(t, vItem("batched")), "fold") \in Quiet
  BY <1>1, <1>2, <1>4, <1>5, <1>6
<1>11. Absorb(Draw(Absorb(t, vItem("batched")), "fold"), vItem("next")) \in Quiet
  BY <1>10, <1>2, <1>6
<1>12. VFlattened(t) \in Quiet
  BY <1>1, <1>4, <1>5 DEF VFlattened
<1>13. VClaimed(t) \in Quiet
  BY <1>12, <1>2, <1>4, <1>5, <1>6 DEF VClaimed
<1>14. Draw(Draw(Absorb(t, vItem("norm")), "combination"), "toField") \in Quiet
  BY <1>1, <1>2, <1>4, <1>5, <1>6
<1>15. VClosed(t) \in Quiet
  BY <1>1, <1>2, <1>6 DEF VClosed
<1>. QED
  BY <1>7, <1>8, <1>9, <1>10, <1>11, <1>13, <1>14, <1>15 DEF Quiet

\* Of the current round's variables, those that have a challenge.
ChallengedHere ==
    IF vCfg.kind = "Simple" THEN 0
    ELSE IF vPc = "poly" THEN Len(vPoints)
    ELSE IF vPc \in {"recurse", "accepted"} THEN vCfg.vars
    ELSE 0

CountInv ==
    VRunning \/ vPc = "accepted" =>
      Challenged(vTranscript) = VariablesThrough(vRound - 1) + ChallengedHere

\* A round past its structural pass carries a polynomial for every variable.
LEMMA PolysFit ==
    ASSUME TypeInv, ShapeInv, VRunning, vPc # "shape", vCfg.kind # "Simple"
    PROVE  Len(vItem("polys").data) = vCfg.vars
<1>1. ShapePasses(chain, vRound, vProof.items, vStatement)
  BY DEF ShapeInv
<1>2. FitsPolys(vItem("polys"), vCfg)
  BY <1>1 DEF ShapePasses, SumcheckShapePasses, BasicShapePasses, vCfg, vItem
<1>3. Entries(<<vCfg.vars>>) = vCfg.vars
  BY DEF Entries
<1>. QED
  BY <1>2, <1>3 DEF FitsPolys, FitsShape

LEMMA VerifierCounts ==
    ASSUME TypeInv, ShapeInv, CountInv, VRunning, NEW holds \in BOOLEAN, VerifierStep(holds),
           UNCHANGED <<chain, received>>
    PROVE  CountInv'
<1>. DEFINE T == Transcripts(Entry, Labels)
            Above == VariablesThrough(vRound - 1)
<1>1. /\ VerifierInv /\ vPc # "idle" /\ vTranscript \in T
      /\ chain \in Chains /\ vRound \in 1..Len(chain) /\ Len(chain) \in Nat
      /\ vPoints \in Points /\ vCfg.vars \in Nat
      /\ vPc \in {"claims", "poly", "recurse"} => vCfg.kind # "Simple"
  <2>1. chain \in Chains /\ vRound \in 1..Len(chain)
    BY DEF TypeInv, SessionTypeOK, VerifierInv, VerifierTypeOK
  <2>2. vCfg.vars \in Nat
    BY <2>1, ConfigType DEF vCfg
  <2>. QED
    BY <2>1, <2>2, ChainType DEF TypeInv, VerifierInv, VerifierTypeOK, VerifierWalk, VRunning
<1>2. Challenged(vTranscript) = Above + ChallengedHere
  BY DEF CountInv
<1>3. Above \in Nat
  <2>1. vRound - 1 \in 0..Len(chain)
    BY <1>1
  <2>. QED
    BY <1>1, <2>1, VariablesOfRounds
<1>4. ASSUME vRound' = vRound, Challenged(vTranscript') = Above + ChallengedHere'
      PROVE  CountInv'
  <2>1. VariablesThrough(vRound - 1)' = Above
    BY <1>4 DEF VariablesThrough
  <2>2. Challenged(vTranscript)' = Challenged(vTranscript')
    BY DEF Challenged, PointDraws
  <2>. QED
    BY <1>4, <2>1, <2>2 DEF CountInv
<1>. HIDE DEF Above
<1>5. ASSUME vTranscript' \in Since(vTranscript, {"point"}) \/ UNCHANGED vTranscript
      PROVE  Challenged(vTranscript') = Challenged(vTranscript)
  BY <1>1, <1>5, QuietKeepsCount
<1>6. CASE vPc' = "rejected"
  BY <1>6 DEF CountInv, VRunning
<1>7. CASE vPc' # "rejected" /\ vPc \in {"shape", "open", "fold"}
  <2>1. /\ vRound' = vRound /\ vPc' \in {"open", "fold", "claims", "close"}
        /\ vTranscript' \in Since(vTranscript, {"point"}) \/ UNCHANGED vTranscript
    BY <1>1, <1>7, StretchesAreQuiet
    DEF VerifierStep, CheckShape, VSumcheckOpen, VContextRefused, VSumcheckFold,
        VSumcheckClaims, VBasicOpen, VIntermediateFold, VIntermediateClaims, VSimpleFold,
        VSimpleClose, VRoundPoly, VCloseSumcheck, VCaptureBoundary, VDescend,
        VAcceptChain, VChainRefused, VAdvance, VReject
  <2>2. ChallengedHere = 0 /\ ChallengedHere' = 0
    BY <1>7, <2>1 DEF ChallengedHere
  <2>. QED
    BY <2>1, <2>2, <1>2, <1>4, <1>5
<1>8. CASE vPc' # "rejected" /\ vPc = "claims"
  <2>1. /\ vRound' = vRound /\ vPc' = "poly" /\ vPoints' = <<>>
        /\ vTranscript' \in Since(vTranscript, {"point"})
    BY <1>1, <1>8, StretchesAreQuiet
    DEF VerifierStep, CheckShape, VSumcheckOpen, VContextRefused, VSumcheckFold,
        VSumcheckClaims, VBasicOpen, VIntermediateFold, VIntermediateClaims, VSimpleFold,
        VSimpleClose, VRoundPoly, VCloseSumcheck, VCaptureBoundary, VDescend,
        VAcceptChain, VChainRefused, VAdvance, VReject
  <2>2. ChallengedHere = 0 /\ ChallengedHere' = 0
    BY <1>8, <2>1 DEF ChallengedHere
  <2>. QED
    BY <2>1, <2>2, <1>2, <1>4, <1>5
<1>9. CASE vPc' # "rejected" /\ vPc = "close"
  <2>1. /\ UNCHANGED <<vRound, vTranscript>> /\ vPc' = "accepted" /\ vCfg.kind = "Simple"
    BY <1>9
    DEF VerifierStep, CheckShape, VSumcheckOpen, VContextRefused, VSumcheckFold,
        VSumcheckClaims, VBasicOpen, VIntermediateFold, VIntermediateClaims, VSimpleFold,
        VSimpleClose, VRoundPoly, VCloseSumcheck, VCaptureBoundary, VDescend,
        VAcceptChain, VChainRefused, VAdvance, VReject
  <2>2. ChallengedHere = 0 /\ ChallengedHere' = 0
    BY <2>1 DEF ChallengedHere, vCfg
  <2>. QED
    BY <2>1, <2>2, <1>2, <1>4, <1>5
<1>10. CASE vPc' # "rejected" /\ VRoundPoly(holds)
  <2>. DEFINE poly == Single(vItem("polys"), Len(vPoints) + 1)
  <2>1. /\ vRound' = vRound /\ vPc = "poly" /\ vPc' = "poly"
        /\ Len(vPoints) < Len(vItem("polys").data)
        /\ vTranscript' = Draw(Absorb(vTranscript, poly), "point")
        /\ vPoints' = Append(vPoints, LastDraw(vTranscript) + 1)
    BY <1>10 DEF VRoundPoly, VReject
  <2>2. poly \in Items /\ Len(vPoints) \in Nat
    <3>1. /\ vItem("polys") \in Items /\ Len(vPoints) \in Nat
          /\ Len(vItem("polys").data) \in Nat
      BY <1>1, VerifierItemType, LenProperties DEF Fields, Items, Points
    <3>2. Len(vPoints) + 1 \in 1..Len(vItem("polys").data)
      BY <2>1, <3>1
    <3>. QED
      BY <3>1, <3>2, SingleType
  <2>. HIDE DEF poly
  <2>3. Challenged(vTranscript') = Challenged(vTranscript) + 1
    BY <2>1, <2>2, <1>1, PointCounts
  <2>4. Len(vPoints') = Len(vPoints) + 1
    BY <2>1, <1>1, LastDrawType, AppendProperties DEF Points
  <2>5. ChallengedHere = Len(vPoints) /\ ChallengedHere' = Len(vPoints')
    BY <2>1, <1>1 DEF ChallengedHere, vCfg
  <2>. QED
    BY <2>1, <2>2, <2>3, <2>4, <2>5, <1>2, <1>3, <1>4
<1>11. CASE vPc' # "rejected" /\ VCloseSumcheck(holds)
  <2>1. /\ vRound' = vRound /\ vPc = "poly" /\ vPc' = "recurse"
        /\ Len(vPoints) = Len(vItem("polys").data)
        /\ vTranscript' = VClosed(vTranscript)
    BY <1>11 DEF VCloseSumcheck
  <2>2. Len(vPoints) = vCfg.vars
    BY <2>1, <1>1, PolysFit
  <2>3. ChallengedHere = vCfg.vars /\ ChallengedHere' = vCfg.vars
    BY <2>1, <2>2, <1>1 DEF ChallengedHere, vCfg
  <2>4. Challenged(vTranscript') = Challenged(vTranscript)
    BY <2>1, <1>1, <1>5, StretchesAreQuiet
  <2>. QED
    BY <2>1, <2>3, <2>4, <1>2, <1>4
<1>12. CASE VCaptureBoundary \/ VAcceptChain
  <2>1. vPc = "recurse" /\ vPc' = "accepted" /\ UNCHANGED <<vRound, vTranscript>>
    BY <1>12 DEF VCaptureBoundary, VAcceptChain
  <2>2. ChallengedHere' = ChallengedHere
    BY <2>1 DEF ChallengedHere, vCfg
  <2>. QED
    BY <2>1, <2>2, <1>2, <1>4, <1>5
<1>13. CASE VDescend
  <2>1. /\ vPc = "recurse" /\ vPc' = "shape" /\ vRound' = vRound + 1
        /\ UNCHANGED vTranscript
    BY <1>13 DEF VDescend
  <2>2. vCfg.kind # "Simple" /\ ChallengedHere = vCfg.vars
    BY <2>1, <1>1 DEF ChallengedHere
  <2>3. vRound \in 0..Len(chain) /\ vRound # 0
    BY <1>1
  <2>4. VariablesThrough(vRound) = Above + vCfg.vars
    BY <2>2, <2>3, <1>1, VariablesOfRounds DEF Above, RoundVariables, vCfg
  <2>5. ChallengedHere' = 0
    BY <2>1 DEF ChallengedHere
  <2>6. vRound' - 1 = vRound /\ VariablesThrough(vRound) \in Nat
    BY <2>1, <2>3, <1>1, VariablesOfRounds
  <2>7. VariablesThrough(vRound - 1)' = VariablesThrough(vRound)
    BY <2>6 DEF VariablesThrough
  <2>8. Challenged(vTranscript)' = Challenged(vTranscript)
    BY <2>1 DEF Challenged, PointDraws
  <2>9. Challenged(vTranscript) = VariablesThrough(vRound)
    BY <2>2, <2>4, <1>2
  <2>10. VariablesThrough(vRound) + 0 = VariablesThrough(vRound)
    BY <2>6
  <2>. QED
    BY <2>5, <2>7, <2>8, <2>9, <2>10 DEF CountInv
<1>14. \/ vPc' = "rejected" \/ vPc \in {"shape", "open", "fold", "claims", "close"}
       \/ VRoundPoly(holds) \/ VCloseSumcheck(holds)
       \/ VCaptureBoundary \/ VAcceptChain \/ VDescend
  BY DEF VerifierStep, CheckShape, VSumcheckOpen, VContextRefused, VSumcheckFold,
         VSumcheckClaims, VBasicOpen, VIntermediateFold, VIntermediateClaims, VSimpleFold,
         VSimpleClose, VChainRefused, VReject
<1>. QED
  BY <1>6, <1>7, <1>8, <1>9, <1>10, <1>11, <1>12, <1>13, <1>14

LEMMA NextCountInv == TypeInv /\ ShapeInv /\ CountInv /\ [Next]_vars => CountInv'
<1>. SUFFICES ASSUME TypeInv, ShapeInv, CountInv, [Next]_vars PROVE CountInv'
  OBVIOUS
<1>1. CASE Prove
  BY <1>1 DEF Prove, CountInv, VRunning
<1>2. CASE Deliver
  <2>1. PICK fresh, cut, statement : VerifierStart(fresh, cut, statement)
    BY <1>2 DEF Deliver
  <2>2. /\ vPc' = "shape" /\ vRound' = 1 /\ vTranscript' = NewTranscript
        /\ chain' = chain /\ chain \in Chains
    BY <1>2, <2>1 DEF Deliver, VerifierStart, TypeInv, SessionTypeOK
  <2>3. Challenged(NewTranscript) = 0
    <3>1. NewTranscript.drawn = <<>> /\ DOMAIN <<>> = {}
      BY DEF NewTranscript
    <3>2. PointDraws(NewTranscript) = {}
      BY <3>1 DEF PointDraws
    <3>. QED
      BY <3>2, FS_EmptySet DEF Challenged
  <2>4. VariablesThrough(0) = 0
    <3>1. 0 \in 0..Len(chain)
      BY <2>2, ChainType
    <3>. QED
      BY <2>2, <3>1, VariablesOfRounds
  <2>5. ChallengedHere' = 0
    BY <2>2 DEF ChallengedHere
  <2>6. VariablesThrough(vRound - 1)' = VariablesThrough(0)
    BY <2>2 DEF VariablesThrough
  <2>7. Challenged(vTranscript)' = 0
    BY <2>2, <2>3 DEF Challenged, PointDraws
  <2>. QED
    BY <2>4, <2>5, <2>6, <2>7 DEF CountInv
<1>3. CASE VerifierWorks
  <2>1. PICK holds \in BOOLEAN : VerifierStep(holds)
    BY <1>3 DEF VerifierWorks, Outcomes
  <2>. QED
    BY <1>3, <2>1, VerifierCounts DEF VerifierWorks
<1>4. CASE ProverWorks \/ NoMoreSessions \/ UNCHANGED vars
  <2>1. UNCHANGED <<chain, verifierVars>>
    BY <1>4 DEF ProverWorks, NoMoreSessions, vars
  <2>. QED
    BY <2>1 DEF CountInv, VRunning, verifierVars, ChallengedHere, vCfg, Challenged,
                PointDraws, VariablesThrough
<1>. QED
  BY <1>1, <1>2, <1>3, <1>4 DEF Next

\* An accepted proof has been challenged once per variable of every sumcheck it
\* holds: neither a proof with too few round polynomials, nor one with too many,
\* gets that far, in a session as altered as may be.
THEOREM ChallengesCountVariables == Spec => []EveryVariableIsChallenged
<1>1. Init => CountInv
  BY DEF Init, CountInv, VRunning
<1>2. TypeInv /\ CountInv => EveryVariableIsChallenged
  <2>. SUFFICES ASSUME TypeInv, CountInv, vPc = "accepted"
                PROVE  Challenged(vTranscript) = VariablesThrough(vRound)
    BY DEF EveryVariableIsChallenged, Challenged, PointDraws
  <2>1. chain \in Chains /\ vRound \in 0..Len(chain) /\ vRound # 0
    BY ChainType DEF TypeInv, SessionTypeOK, VerifierInv, VerifierTypeOK
  <2>2. VariablesThrough(vRound)
          = VariablesThrough(vRound - 1) + RoundVariables(chain, vRound)
    BY <2>1, VariablesOfRounds
  <2>3. ChallengedHere = RoundVariables(chain, vRound)
    BY DEF ChallengedHere, RoundVariables, vCfg
  <2>. QED
    BY <2>2, <2>3 DEF CountInv
<1>. QED
  BY <1>1, <1>2, ReadInvariant, NextCountInv, PTL DEF Spec

-----------------------------------------------------------------------------
(***************************************************************************)
(* Entries absorbed as the prover absorbed them.                           *)
(***************************************************************************)

\* Items of one form: they differ in their entries at most.
Alike(x, y) == x.shape = y.shape /\ Len(x.data) = Len(y.data)

LEMMA AlikeFits ==
    ASSUME NEW x, NEW y, NEW shape, FitsShape(x, shape), FitsShape(y, shape)
    PROVE  Alike(x, y)
BY DEF FitsShape, Alike

LEMMA AlikeData ==
    ASSUME NEW x \in Items, NEW y \in Items, Alike(x, y), x.data = y.data
    PROVE  x = y
BY DEF Alike, Items

LEMMA AlikeAbsent ==
    ASSUME NEW x \in Items, Alike(x, Absent)
    PROVE  x = Absent
<1>1. x.shape = <<>> /\ Len(x.data) = 0 /\ x.data \in Seq(Entry)
  BY DEF Alike, Absent, NoShape, Items
<1>2. x.data = <<>>
  BY <1>1, EmptySeq
<1>. QED
  BY <1>1, <1>2 DEF Absent, NoShape, Items

\* Nothing but its entries tells what a round past its structural pass carries
\* from what the prover sent, the folded witness apart.
LEMMA FormsAlike ==
    ASSUME TypeInv, ShapeInv, VRunning, vPc # "shape"
    PROVE  /\ \A f \in Fields \ {"folded"} : Alike(vItem(f), Sent(chain, vRound)[f])
           /\ Alike(vStatement.commitment, CommitmentOf(chain, vRound))
<1>. DEFINE c == chain
            r == vRound
            sent(f) == Sent(c, r)[f]
            cfg == c[r]
<1>1. /\ c \in Chains /\ r \in 1..Len(c) /\ vPc # "idle" /\ r \in 1..Len(received)
      /\ Len(c) \in Nat /\ cfg.kind \in {"Sumcheck", "Intermediate", "Simple"}
  <2>1. c \in Chains /\ r \in 1..Len(c) /\ vPc # "idle" /\ VerifierInv
    BY DEF TypeInv, SessionTypeOK, VerifierInv, VerifierTypeOK, VRunning
  <2>. QED
    BY <2>1, ConfigType, ChainType, VerifierItemType DEF Kinds
<1>2. /\ ShapePasses(c, r, vProof.items, vStatement)
      /\ FormKept(c, received)
      /\ r # 1 => Len(vStatement.claims) = 2
  BY <1>1 DEF ShapeInv
<1>3. \A f \in SingleElements : Alike(vItem(f), sent(f))
  BY <1>1, <1>2 DEF FormKept, Alike, vItem, vProof
<1>4. \A f \in Unused(cfg.kind) : Alike(vItem(f), sent(f))
  <2>1. \A f \in Unused(cfg.kind) : vItem(f) = Absent
    BY <1>1, UnusedIsAbsent DEF vCfg
  <2>2. \A f \in Unused(cfg.kind) : sent(f) = Absent
    BY <1>1, UnusedIsNotSent
  <2>. QED
    BY <2>1, <2>2 DEF Alike
<1>5. ASSUME FitsNextCommitment(vItem("next"), c, r), FitsNextCommitment(sent("next"), c, r)
      PROVE  Alike(vItem("next"), sent("next"))
  BY <1>5, AlikeFits DEF FitsNextCommitment, FitsBasicCommitment
<1>6. CASE cfg.kind = "Sumcheck"
  <2>. DEFINE statement == [commitment |-> CommitmentOf(c, r), claims |-> TrueClaims(c, r),
                            point |-> [i \in 1..(cfg.rows + cfg.cols) |-> 0]]
  <2>1. Len(statement.point) = cfg.rows + cfg.cols
    <3>1. cfg.rows + cfg.cols \in Nat
      BY <1>1, ConfigType
    <3>. QED
      BY <3>1
  <2>2. SumcheckShapePasses(c, r, Sent(c, r), statement)
    BY <1>1, <1>6, <2>1, SumcheckShapeFits
  <2>3. SumcheckShapePasses(c, r, vProof.items, vStatement)
    BY <1>2, <1>6 DEF ShapePasses
  <2>4. statement.commitment = CommitmentOf(c, r)
    OBVIOUS
  <2>. HIDE DEF statement
  <2>5. Alike(vStatement.commitment, CommitmentOf(c, r))
    BY <2>2, <2>3, <2>4, AlikeFits DEF SumcheckShapePasses
  <2>6. /\ Alike(vItem("polys"), sent("polys"))
        /\ Alike(vItem("projectionNorm"), sent("projectionNorm"))
        /\ Alike(vItem("opening"), sent("opening"))
        /\ Alike(vItem("coarse"), sent("coarse"))
        /\ Alike(vItem("constantTermClaims"), sent("constantTermClaims"))
    BY <2>2, <2>3, AlikeFits DEF SumcheckShapePasses, FitsPolys, vItem
  <2>7. \A f \in {"constantTerm", "batched"} : Alike(vItem(f), sent(f))
    BY <2>2, <2>3, AlikeFits DEF SumcheckShapePasses, vItem
  <2>8. Alike(vItem("next"), sent("next"))
    BY <1>5, <2>2, <2>3 DEF SumcheckShapePasses, vItem
  <2>9. \A f \in Fields \ {"folded"} :
          \/ f \in SingleElements \/ f \in Unused(cfg.kind)
          \/ f \in {"constantTerm", "batched"}
          \/ f \in {"polys", "projectionNorm", "opening", "coarse", "constantTermClaims", "next"}
    BY <1>6 DEF Fields, SingleElements, Unused
  <2>. QED
    BY <1>3, <1>4, <2>5, <2>6, <2>7, <2>8, <2>9
<1>7. CASE cfg.kind # "Sumcheck"
  <2>. DEFINE statement == [commitment |-> CommitmentOf(c, r), claims |-> TrueClaims(c, r)]
  <2>1. BasicShapePasses(c, r, Sent(c, r), statement)
    BY <1>1, <1>7, BasicShapeFits
  <2>2. BasicShapePasses(c, r, vProof.items, vStatement)
    BY <1>2, <1>7 DEF ShapePasses
  <2>3. statement.commitment = CommitmentOf(c, r) /\ statement.claims = TrueClaims(c, r)
    OBVIOUS
  <2>4. Len(statement.claims) = Len(vStatement.claims)
    <3>1. r # 1
      BY <1>1, <1>7, ChainType
    <3>2. Len(TrueClaims(c, r)) = 2
      BY <3>1 DEF TrueClaims
    <3>. QED
      BY <1>2, <2>3, <3>1, <3>2
  <2>. HIDE DEF statement
  <2>5. Alike(vStatement.commitment, CommitmentOf(c, r))
    BY <2>1, <2>2, <2>3, AlikeFits DEF BasicShapePasses, FitsBasicCommitment
  <2>6. /\ Alike(vItem("opening"), sent("opening"))
        /\ Alike(vItem("image"), sent("image"))
        /\ Alike(vItem("batched"), sent("batched"))
    BY <2>1, <2>2, <2>4, AlikeFits DEF BasicShapePasses, vItem
  <2>7. cfg.kind = "Intermediate" =>
          /\ Alike(vItem("polys"), sent("polys"))
          /\ Alike(vItem("next"), sent("next"))
    BY <1>5, <2>1, <2>2, AlikeFits DEF BasicShapePasses, FitsPolys, vItem
  <2>8. \A f \in Fields \ {"folded"} :
          \/ f \in SingleElements \/ f \in Unused(cfg.kind)
          \/ f \in {"opening", "image", "batched"}
          \/ cfg.kind = "Intermediate" /\ f \in {"polys", "next"}
    BY <1>1, <1>7 DEF Fields, SingleElements, Unused
  <2>. QED
    BY <1>3, <1>4, <2>5, <2>6, <2>7, <2>8
<1>. QED
  BY <1>6, <1>7

\* Two concatenations of sequences of equal lengths are equal part by part.
LEMMA ConcatCancels ==
    ASSUME NEW a \in Seq(Entry), NEW b \in Seq(Entry),
           NEW x \in Seq(Entry), NEW y \in Seq(Entry),
           Len(a) = Len(b), Len(x) = Len(y)
    PROVE  /\ Len(a \o x) = Len(b \o y)
           /\ a \o x = b \o y => a = b /\ x = y
<1>1. /\ Len(a) \in Nat /\ Len(x) \in Nat
      /\ a = [i \in 1..Len(a) |-> a[i]] /\ b = [i \in 1..Len(a) |-> b[i]]
      /\ x = [i \in 1..Len(x) |-> x[i]] /\ y = [i \in 1..Len(x) |-> y[i]]
  BY LenProperties
<1>2. /\ Len(a \o x) = Len(a) + Len(x) /\ Len(b \o y) = Len(a) + Len(x)
      /\ \A i \in 1..(Len(a) + Len(x)) :
           /\ (a \o x)[i] = IF i <= Len(a) THEN a[i] ELSE x[i - Len(a)]
           /\ (b \o y)[i] = IF i <= Len(a) THEN b[i] ELSE y[i - Len(a)]
  <2>1. /\ Len(a \o x) = Len(a) + Len(x)
        /\ \A i \in 1..(Len(a) + Len(x)) :
             (a \o x)[i] = IF i <= Len(a) THEN a[i] ELSE x[i - Len(a)]
    BY ConcatProperties
  <2>2. /\ Len(b \o y) = Len(b) + Len(y)
        /\ \A i \in 1..(Len(b) + Len(y)) :
             (b \o y)[i] = IF i <= Len(b) THEN b[i] ELSE y[i - Len(b)]
    BY ConcatProperties
  <2>3. Len(b) = Len(a) /\ Len(y) = Len(x)
    OBVIOUS
  <2>. QED
    BY <2>1, <2>2, <2>3
<1>3. ASSUME a \o x = b \o y
      PROVE  a = b /\ x = y
  <2>1. ASSUME NEW i \in 1..Len(a) PROVE a[i] = b[i]
    <3>1. i \in 1..(Len(a) + Len(x)) /\ i <= Len(a)
      BY <1>1
    <3>. QED
      BY <1>2, <1>3, <3>1
  <2>2. ASSUME NEW i \in 1..Len(x) PROVE x[i] = y[i]
    <3>1. /\ Len(a) + i \in 1..(Len(a) + Len(x)) /\ ~(Len(a) + i <= Len(a))
          /\ (Len(a) + i) - Len(a) = i
      BY <1>1
    <3>. QED
      BY <1>2, <1>3, <3>1
  <2>3. a = b
    BY <1>1, <2>1
  <2>4. x = y
    BY <1>1, <2>2
  <2>. QED
    BY <2>3, <2>4
<1>. QED
  BY <1>2, <1>3

\* The verifier's transcript t and the prover's u, which were t0 and u0 when
\* the fields of S were still to be read: they are equally long, and if they
\* absorbed the same entries, they had then and the fields are the sent ones.
Level(t0, u0, t, u, S) ==
    /\ t \in Transcripts(Entry, Labels) /\ u \in Transcripts(Entry, Labels)
    /\ Len(t.absorbed) = Len(u.absorbed)
    /\ t.absorbed = u.absorbed =>
         /\ t0.absorbed = u0.absorbed
         /\ \A f \in S : vItem(f) = Sent(chain, vRound)[f]

LEMMA AbsorbedApart ==
    ASSUME NEW t \in Transcripts(Entry, Labels), NEW u \in Transcripts(Entry, Labels),
           Len(t.absorbed) = Len(u.absorbed),
           NEW x \in Items, NEW y \in Items, Alike(x, y)
    PROVE  /\ Absorb(t, x) \in Transcripts(Entry, Labels)
           /\ Absorb(u, y) \in Transcripts(Entry, Labels)
           /\ Len(Absorb(t, x).absorbed) = Len(Absorb(u, y).absorbed)
           /\ Absorb(t, x).absorbed = Absorb(u, y).absorbed =>
                t.absorbed = u.absorbed /\ x = y
<1>. DEFINE a == t.absorbed
            b == u.absorbed
<1>1. /\ a \in Seq(Entry) /\ b \in Seq(Entry)
      /\ Absorb(t, x).absorbed = a \o x.data /\ Absorb(u, y).absorbed = b \o y.data
  BY TranscriptParts
<1>2. x.data \in Seq(Entry) /\ y.data \in Seq(Entry) /\ Len(x.data) = Len(y.data)
  BY DEF Items, Alike
<1>3. Len(a) = Len(b)
  OBVIOUS
<1>. HIDE DEF a, b
<1>4. /\ Len(a \o x.data) = Len(b \o y.data)
      /\ a \o x.data = b \o y.data => a = b /\ x.data = y.data
  <2>. DEFINE dx == x.data
              dy == y.data
  <2>1. /\ a \in Seq(Entry) /\ b \in Seq(Entry) /\ dx \in Seq(Entry) /\ dy \in Seq(Entry)
        /\ Len(a) = Len(b) /\ Len(dx) = Len(dy)
    BY <1>1, <1>2, <1>3
  <2>. HIDE DEF dx, dy
  <2>2. Len(a \o dx) = Len(b \o dy) /\ (a \o dx = b \o dy => a = b /\ dx = dy)
    BY <2>1, ConcatCancels, ZenonT(60)
  <2>. QED
    BY <2>2 DEF dx, dy
<1>5. x.data = y.data => x = y
  BY AlikeData
<1>. QED
  BY <1>1, <1>4, <1>5, AbsorbType DEF a, b

LEMMA LevelSteps ==
    ASSUME TypeInv, ShapeInv, VRunning, vPc # "shape",
           NEW t0, NEW u0, NEW t, NEW u, NEW S, Level(t0, u0, t, u, S)
    PROVE  /\ \A f \in Fields \ {"folded"} :
                Level(t0, u0, Absorb(t, vItem(f)), Absorb(u, Sent(chain, vRound)[f]),
                      S \cup {f})
           /\ \A label \in Labels : Level(t0, u0, Draw(t, label), Draw(u, label), S)
           /\ \A f \in Fields \ {"folded"} :
                Sent(chain, vRound)[f] = Absent =>
                  Level(t0, u0, t, u, S \cup {f}) /\ vItem(f) = Absent
<1>1. /\ t \in Transcripts(Entry, Labels) /\ u \in Transcripts(Entry, Labels)
      /\ Len(t.absorbed) = Len(u.absorbed)
  BY DEF Level
<1>2. \A f \in Fields : vItem(f) \in Items /\ Sent(chain, vRound)[f] \in Items
  <2>1. VerifierInv /\ vPc # "idle" /\ chain \in Chains /\ vRound \in 1..Len(chain)
    BY DEF TypeInv, SessionTypeOK, VerifierInv, VerifierTypeOK, VRunning
  <2>. QED
    BY <2>1, VerifierItemType, SentType DEF SoundItems
<1>3. \A f \in Fields \ {"folded"} : Alike(vItem(f), Sent(chain, vRound)[f])
  BY FormsAlike
<1>4. ASSUME NEW f \in Fields \ {"folded"}
      PROVE  Level(t0, u0, Absorb(t, vItem(f)), Absorb(u, Sent(chain, vRound)[f]), S \cup {f})
  <2>. DEFINE x == vItem(f)
              y == Sent(chain, vRound)[f]
  <2>1. x \in Items /\ y \in Items /\ Alike(x, y)
    BY <1>2, <1>3
  <2>. HIDE DEF x, y
  <2>2. /\ Absorb(t, x) \in Transcripts(Entry, Labels)
        /\ Absorb(u, y) \in Transcripts(Entry, Labels)
        /\ Len(Absorb(t, x).absorbed) = Len(Absorb(u, y).absorbed)
        /\ Absorb(t, x).absorbed = Absorb(u, y).absorbed =>
             t.absorbed = u.absorbed /\ x = y
    BY <1>1, <2>1, AbsorbedApart
  <2>3. Absorb(t, x).absorbed = Absorb(u, y).absorbed =>
          /\ t0.absorbed = u0.absorbed
          /\ \A g \in S \cup {f} : vItem(g) = Sent(chain, vRound)[g]
    BY <2>2 DEF Level, x, y
  <2>4. Level(t0, u0, Absorb(t, x), Absorb(u, y), S \cup {f})
    BY <2>2, <2>3 DEF Level
  <2>. QED
    BY <2>4 DEF x, y
<1>5. ASSUME NEW label \in Labels
      PROVE  Level(t0, u0, Draw(t, label), Draw(u, label), S)
  <2>1. /\ Draw(t, label).absorbed = t.absorbed /\ Draw(u, label).absorbed = u.absorbed
        /\ Draw(t, label) \in Transcripts(Entry, Labels)
        /\ Draw(u, label) \in Transcripts(Entry, Labels)
    BY <1>1, TranscriptParts, DrawType
  <2>. QED
    BY <2>1 DEF Level
<1>6. ASSUME NEW f \in Fields \ {"folded"}, Sent(chain, vRound)[f] = Absent
      PROVE  Level(t0, u0, t, u, S \cup {f}) /\ vItem(f) = Absent
  <2>1. vItem(f) = Absent
    <3>1. vItem(f) \in Items /\ Alike(vItem(f), Absent)
      BY <1>2, <1>3, <1>6
    <3>. QED
      BY <3>1, AlikeAbsent
  <2>. QED
    BY <1>6, <2>1 DEF Level
<1>. QED
  BY <1>4, <1>5, <1>6

\* A field is left out by the proof the verifier reads and the one the prover
\* sent, or by neither.
LEMMA AbsentTogether ==
    ASSUME TypeInv, ShapeInv, VRunning, vPc # "shape", NEW f \in Fields \ {"folded"}
    PROVE  vItem(f) = Absent <=> Sent(chain, vRound)[f] = Absent
<1>. DEFINE x == vItem(f)
            y == Sent(chain, vRound)[f]
<1>1. VerifierInv /\ vPc # "idle" /\ chain \in Chains /\ vRound \in 1..Len(chain)
  BY DEF TypeInv, SessionTypeOK, VerifierInv, VerifierTypeOK, VRunning
<1>2. x \in Items /\ y \in Items
  BY <1>1, VerifierItemType, SentType DEF SoundItems
<1>3. Alike(x, y)
  BY FormsAlike
<1>. HIDE DEF x, y
<1>4. Alike(y, x)
  BY <1>3 DEF Alike
<1>5. x = Absent => y = Absent
  BY <1>2, <1>4, AlikeAbsent
<1>6. y = Absent => x = Absent
  BY <1>2, <1>3, AlikeAbsent
<1>. QED
  BY <1>5, <1>6 DEF x, y

\* The opening of a round also brings the commitments together.
LEMMA OpeningLevels ==
    ASSUME TypeInv, ShapeInv, VRunning, vPc # "shape",
           NEW t \in Transcripts(Entry, Labels), NEW u \in Transcripts(Entry, Labels),
           Len(t.absorbed) = Len(u.absorbed)
    PROVE  /\ Level(t, u, VOpened(t), OpenedAt(chain, vRound, u), {"opening"})
           /\ Level(t, u, VImaged(t), ImagedAt(chain, vRound, u), {"opening", "image"})
           /\ \/ VOpened(t).absorbed = OpenedAt(chain, vRound, u).absorbed
              \/ VImaged(t).absorbed = ImagedAt(chain, vRound, u).absorbed
              => vStatement.commitment = CommitmentOf(chain, vRound)
<1>. DEFINE x == vStatement.commitment
            y == CommitmentOf(chain, vRound)
<1>1. x \in Items /\ y \in Items /\ Alike(x, y)
  <2>1. chain \in Chains /\ vRound \in 1..Len(chain) /\ x \in Items
    BY DEF TypeInv, SessionTypeOK, VerifierInv, VerifierTypeOK, Statements
  <2>. QED
    BY <2>1, FormsAlike, CommitmentOfType DEF SoundItems
<1>. HIDE DEF x, y
<1>2. PICK t1, u1 : t1 = Absorb(t, x) /\ u1 = Absorb(u, y)
  OBVIOUS
<1>3. /\ t1 \in Transcripts(Entry, Labels) /\ u1 \in Transcripts(Entry, Labels)
      /\ Len(t1.absorbed) = Len(u1.absorbed)
      /\ t1.absorbed = u1.absorbed => t.absorbed = u.absorbed /\ x = y
  BY <1>1, <1>2, AbsorbedApart
<1>4. Level(t1, u1, t1, u1, {})
  BY <1>3 DEF Level
<1>5. {"opening", "image"} \subseteq Fields \ {"folded"}
      /\ {"projection", "batching"} \subseteq Labels
  BY DEF Fields, Labels
<1>6. Level(t1, u1, VOpened(t), OpenedAt(chain, vRound, u), {} \cup {"opening"})
  <2>1. Level(t1, u1, Absorb(t1, vItem("opening")), Absorb(u1, Sent(chain, vRound)["opening"]),
              {} \cup {"opening"})
    BY <1>4, <1>5, LevelSteps
  <2>2. Level(t1, u1, Draw(Absorb(t1, vItem("opening")), "projection"),
              Draw(Absorb(u1, Sent(chain, vRound)["opening"]), "projection"), {} \cup {"opening"})
    BY <2>1, <1>5, LevelSteps
  <2>. QED
    BY <2>2, <1>2 DEF VOpened, OpenedAt, x, y
<1>7. Level(t1, u1, VImaged(t), ImagedAt(chain, vRound, u), {} \cup {"opening"} \cup {"image"})
  <2>1. PICK t2, u2 : t2 = VOpened(t) /\ u2 = OpenedAt(chain, vRound, u)
    OBVIOUS
  <2>2. Level(t1, u1, t2, u2, {} \cup {"opening"})
    BY <1>6, <2>1
  <2>3. Level(t1, u1, Absorb(t2, vItem("image")), Absorb(u2, Sent(chain, vRound)["image"]),
              {} \cup {"opening"} \cup {"image"})
    BY <2>2, <1>5, LevelSteps
  <2>4. Level(t1, u1, Draw(Absorb(t2, vItem("image")), "batching"),
              Draw(Absorb(u2, Sent(chain, vRound)["image"]), "batching"),
              {} \cup {"opening"} \cup {"image"})
    BY <2>3, <1>5, LevelSteps
  <2>. QED
    BY <2>1, <2>4 DEF VImaged, ImagedAt
<1>. QED
  BY <1>3, <1>6, <1>7 DEF Level, x, y

LEMMA FoldingLevels ==
    ASSUME TypeInv, ShapeInv, VRunning, vPc # "shape", vCfg.kind = "Sumcheck",
           NEW t \in Transcripts(Entry, Labels), NEW u \in Transcripts(Entry, Labels),
           Len(t.absorbed) = Len(u.absorbed)
    PROVE  Level(t, u, VFolded(t), FoldedAt(chain, vRound, u),
                 {"coarse", "constantTerm", "batched", "next"})
<1>. DEFINE sent(f) == Sent(chain, vRound)[f]
            cfg == chain[vRound]
<1>1. /\ chain \in Chains /\ vRound \in 1..Len(chain) /\ cfg.kind = "Sumcheck"
      /\ cfg.projection \in {"Coarse", "Fine", "Skip"}
  BY ConfigType DEF TypeInv, SessionTypeOK, VerifierInv, VerifierTypeOK, Projections, vCfg
<1>2. Level(t, u, t, u, {})
  BY DEF Level
<1>3. {"coarse", "constantTerm", "batched", "next"} \subseteq Fields \ {"folded"}
      /\ {"batching", "fold"} \subseteq Labels
  BY DEF Fields, Labels
<1>4. /\ cfg.projection # "Coarse" => sent("coarse") = Absent
      /\ (cfg.projection = "Fine") <=> (sent("constantTerm") # Absent)
  BY <1>1, SentItems
<1>5. cfg.projection # "Fine" => sent("batched") = Absent
  BY <1>1 DEF Sent, SumcheckSent, Fields
<1>6. vItem("constantTerm") = Absent <=> sent("constantTerm") = Absent
  BY <1>3, AbsentTogether
<1>. HIDE DEF sent
<1>7. PICK t1, u1 : /\ t1 = Absorb(t, vItem("coarse"))
                    /\ u1 = IF cfg.projection = "Coarse" THEN Absorb(u, sent("coarse")) ELSE u
  OBVIOUS
<1>8. Level(t, u, t1, u1, {} \cup {"coarse"})
  <2>1. Level(t, u, t1, Absorb(u, sent("coarse")), {} \cup {"coarse"})
    BY <1>2, <1>3, <1>7, LevelSteps DEF sent
  <2>2. cfg.projection # "Coarse" => Absorb(u, sent("coarse")) = u
    BY <1>4, AbsorbNothing
  <2>. QED
    BY <2>1, <2>2, <1>7
<1>9. PICK t2, u2 :
        /\ t2 = IF vItem("constantTerm") # Absent
                THEN Absorb(Draw(Absorb(t1, vItem("constantTerm")), "batching"),
                            vItem("batched"))
                ELSE t1
        /\ u2 = ProjectedAt(chain, vRound, u)
  OBVIOUS
<1>. DEFINE S == {} \cup {"coarse"} \cup {"constantTerm"} \cup {"batched"}
<1>10. Level(t, u, t2, u2, S)
  <2>1. CASE cfg.projection = "Fine"
    <3>1. t2 = Absorb(Draw(Absorb(t1, vItem("constantTerm")), "batching"), vItem("batched"))
      BY <1>4, <1>6, <1>9, <2>1
    <3>2. /\ u2 = Absorb(Draw(Absorb(u1, sent("constantTerm")), "batching"), sent("batched"))
      BY <1>7, <1>9, <2>1 DEF ProjectedAt, sent
    <3>3. PICK t3, u3 : /\ t3 = Absorb(t1, vItem("constantTerm"))
                        /\ u3 = Absorb(u1, sent("constantTerm"))
      OBVIOUS
    <3>4. Level(t, u, t3, u3, {} \cup {"coarse"} \cup {"constantTerm"})
      BY <1>3, <1>8, <3>3, LevelSteps DEF sent
    <3>5. PICK t4, u4 : t4 = Draw(t3, "batching") /\ u4 = Draw(u3, "batching")
      OBVIOUS
    <3>6. Level(t, u, t4, u4, {} \cup {"coarse"} \cup {"constantTerm"})
      BY <1>3, <3>4, <3>5, LevelSteps
    <3>7. Level(t, u, Absorb(t4, vItem("batched")), Absorb(u4, sent("batched")), S)
      BY <1>3, <3>6, LevelSteps DEF sent
    <3>. QED
      BY <3>1, <3>2, <3>3, <3>5, <3>7
  <2>2. CASE cfg.projection # "Fine"
    <3>1. t2 = t1 /\ u2 = u1
      BY <1>4, <1>6, <1>7, <1>9, <2>2 DEF ProjectedAt, sent
    <3>2. Level(t, u, t1, u1, {} \cup {"coarse"} \cup {"constantTerm"})
      BY <1>3, <1>4, <1>8, <2>2, LevelSteps DEF sent
    <3>3. Level(t, u, t1, u1, S)
      BY <1>3, <1>5, <2>2, <3>2, LevelSteps DEF sent
    <3>. QED
      BY <3>1, <3>3
  <2>. QED
    BY <2>1, <2>2
<1>11. PICK t5, u5 : t5 = Draw(t2, "fold") /\ u5 = Draw(u2, "fold")
  OBVIOUS
<1>12. Level(t, u, t5, u5, S)
  BY <1>3, <1>10, <1>11, LevelSteps
<1>13. Level(t, u, Absorb(t5, vItem("next")), Absorb(u5, sent("next")), S \cup {"next"})
  BY <1>3, <1>12, LevelSteps DEF sent
<1>14. /\ VFolded(t) = Absorb(t5, vItem("next"))
       /\ FoldedAt(chain, vRound, u) = Absorb(u5, sent("next"))
  BY <1>1, <1>7, <1>9, <1>11 DEF VFolded, FoldedAt, sent
<1>15. S \cup {"next"} = {"coarse", "constantTerm", "batched", "next"}
  OBVIOUS
<1>. QED
  BY <1>13, <1>14, <1>15

LEMMA BasicFoldingLevels ==
    ASSUME TypeInv, ShapeInv, VRunning, vPc # "shape",
           NEW t \in Transcripts(Entry, Labels), NEW u \in Transcripts(Entry, Labels),
           Len(t.absorbed) = Len(u.absorbed)
    PROVE  /\ Level(t, u, Draw(Absorb(t, vItem("batched")), "fold"),
                    Draw(Absorb(u, Sent(chain, vRound)["batched"]), "fold"), {"batched"})
           /\ vCfg.kind = "Intermediate" =>
                Level(t, u,
                      Absorb(Draw(Absorb(t, vItem("batched")), "fold"), vItem("next")),
                      FoldedAt(chain, vRound, u), {"batched", "next"})
<1>1. {"batched", "next"} \subseteq Fields \ {"folded"} /\ "fold" \in Labels
  BY DEF Fields, Labels
<1>2. Level(t, u, t, u, {})
  BY DEF Level
<1>3. PICK t1, u1 : /\ t1 = Absorb(t, vItem("batched"))
                    /\ u1 = Absorb(u, Sent(chain, vRound)["batched"])
  OBVIOUS
<1>4. Level(t, u, t1, u1, {} \cup {"batched"})
  BY <1>1, <1>2, <1>3, LevelSteps
<1>5. PICK t2, u2 : t2 = Draw(t1, "fold") /\ u2 = Draw(u1, "fold")
  OBVIOUS
<1>6. Level(t, u, t2, u2, {} \cup {"batched"})
  BY <1>1, <1>4, <1>5, LevelSteps
<1>7. Level(t, u, Absorb(t2, vItem("next")), Absorb(u2, Sent(chain, vRound)["next"]),
            {} \cup {"batched"} \cup {"next"})
  BY <1>1, <1>6, LevelSteps
<1>8. vCfg.kind = "Intermediate" =>
        FoldedAt(chain, vRound, u) = Absorb(u2, Sent(chain, vRound)["next"])
  BY <1>3, <1>5 DEF FoldedAt, vCfg
<1>9. {} \cup {"batched"} = {"batched"} /\ {"batched"} \cup {"next"} = {"batched", "next"}
  OBVIOUS
<1>. QED
  BY <1>3, <1>5, <1>6, <1>7, <1>8, <1>9

LEMMA ClaimingLevels ==
    ASSUME TypeInv, ShapeInv, VRunning, vPc # "shape", vCfg.kind # "Simple",
           NEW t \in Transcripts(Entry, Labels), NEW u \in Transcripts(Entry, Labels),
           Len(t.absorbed) = Len(u.absorbed)
    PROVE  /\ vCfg.kind = "Sumcheck" =>
                Level(t, u, VClaimed(t), ClaimedAt(chain, vRound, u), EnteringClaims)
           /\ vCfg.kind = "Intermediate" =>
                Level(t, u, Draw(Draw(Absorb(t, vItem("norm")), "combination"), "toField"),
                      ClaimedAt(chain, vRound, u), EnteringClaims)
<1>. DEFINE sent(f) == Sent(chain, vRound)[f]
            cfg == chain[vRound]
            S == {} \cup {"norm"} \cup {"mostInnerNorm"} \cup {"projectionNorm"}
                    \cup {"constantTermClaims"}
<1>1. chain \in Chains /\ vRound \in 1..Len(chain)
  BY DEF TypeInv, SessionTypeOK, VerifierInv, VerifierTypeOK
<1>2. Level(t, u, t, u, {})
  BY DEF Level
<1>3. EnteringClaims \subseteq Fields \ {"folded"}
      /\ {"flattener", "combination", "toField"} \subseteq Labels /\ S = EnteringClaims
  BY DEF Fields, Labels, EnteringClaims
<1>4. /\ "norm" \in EnteringClaims /\ "mostInnerNorm" \in EnteringClaims
      /\ "projectionNorm" \in EnteringClaims /\ "constantTermClaims" \in EnteringClaims
  BY DEF EnteringClaims
<1>. HIDE DEF sent, S
\* The four claims, from transcripts before them to transcripts after them.
<1>5. ASSUME NEW t1, NEW u1, Level(t, u, t1, u1, {})
      PROVE  Level(t, u,
                   Draw(Draw(Absorb(Absorb(Absorb(Absorb(t1, vItem("norm")),
                     vItem("mostInnerNorm")), vItem("projectionNorm")),
                     vItem("constantTermClaims")), "combination"), "toField"),
                   Draw(Draw(Absorb(Absorb(Absorb(Absorb(u1, sent("norm")),
                     sent("mostInnerNorm")), sent("projectionNorm")),
                     sent("constantTermClaims")), "combination"), "toField"), S)
  <2>1. PICK t2, u2 : t2 = Absorb(t1, vItem("norm")) /\ u2 = Absorb(u1, sent("norm"))
    OBVIOUS
  <2>2. Level(t, u, t2, u2, {} \cup {"norm"})
    BY <1>3, <1>4, <1>5, <2>1, LevelSteps DEF sent
  <2>3. PICK t3, u3 : /\ t3 = Absorb(t2, vItem("mostInnerNorm"))
                      /\ u3 = Absorb(u2, sent("mostInnerNorm"))
    OBVIOUS
  <2>4. Level(t, u, t3, u3, {} \cup {"norm"} \cup {"mostInnerNorm"})
    BY <1>3, <1>4, <2>2, <2>3, LevelSteps DEF sent
  <2>5. PICK t4, u4 : /\ t4 = Absorb(t3, vItem("projectionNorm"))
                      /\ u4 = Absorb(u3, sent("projectionNorm"))
    OBVIOUS
  <2>6. Level(t, u, t4, u4, {} \cup {"norm"} \cup {"mostInnerNorm"} \cup {"projectionNorm"})
    BY <1>3, <1>4, <2>4, <2>5, LevelSteps DEF sent
  <2>7. PICK t5, u5 : /\ t5 = Absorb(t4, vItem("constantTermClaims"))
                      /\ u5 = Absorb(u4, sent("constantTermClaims"))
    OBVIOUS
  <2>8. Level(t, u, t5, u5, S)
    BY <1>3, <1>4, <2>6, <2>7, LevelSteps DEF sent, S
  <2>9. PICK t6, u6 : t6 = Draw(t5, "combination") /\ u6 = Draw(u5, "combination")
    OBVIOUS
  <2>10. Level(t, u, t6, u6, S)
    BY <1>3, <2>8, <2>9, LevelSteps
  <2>11. Level(t, u, Draw(t6, "toField"), Draw(u6, "toField"), S)
    BY <1>3, <2>10, LevelSteps
  <2>. QED
    BY <2>1, <2>3, <2>5, <2>7, <2>9, <2>11
<1>6. ASSUME NEW t1
      PROVE  ClaimedAt(chain, vRound, t1)
               = Draw(Draw(Absorb(Absorb(Absorb(Absorb(FlattenedAt(chain, vRound, t1),
                   sent("norm")), sent("mostInnerNorm")), sent("projectionNorm")),
                   sent("constantTermClaims")), "combination"), "toField")
  BY DEF ClaimedAt, sent
<1>7. CASE vCfg.kind = "Sumcheck"
  <2>1. Level(t, u, VFlattened(t), FlattenedAt(chain, vRound, u), {})
    <3>1. Level(t, u, Draw(t, "flattener"), Draw(u, "flattener"), {})
      BY <1>2, <1>3, LevelSteps
    <3>. QED
      BY <1>2, <1>7, <3>1 DEF VFlattened, FlattenedAt, vCfg
  <2>2. PICK t1, u1 : t1 = VFlattened(t) /\ u1 = FlattenedAt(chain, vRound, u)
    OBVIOUS
  <2>3. VClaimed(t) = Draw(Draw(Absorb(Absorb(Absorb(Absorb(t1, vItem("norm")),
                        vItem("mostInnerNorm")), vItem("projectionNorm")),
                        vItem("constantTermClaims")), "combination"), "toField")
    BY <2>2 DEF VClaimed
  <2>4. Level(t, u, VClaimed(t), ClaimedAt(chain, vRound, u), S)
    BY <1>5, <1>6, <2>1, <2>2, <2>3
  <2>. QED
    BY <1>3, <1>7, <2>4
<1>8. CASE vCfg.kind = "Intermediate"
  <2>1. \A f \in {"mostInnerNorm", "projectionNorm", "constantTermClaims"} :
          sent(f) = Absent /\ vItem(f) = Absent
    <3>1. \A f \in {"mostInnerNorm", "projectionNorm", "constantTermClaims"} :
            sent(f) = Absent /\ f \in Fields \ {"folded"}
      BY <1>1, <1>8, SentItems DEF sent, vCfg, Fields
    <3>. QED
      BY <3>1, AbsentTogether DEF sent
  <2>2. FlattenedAt(chain, vRound, u) = u
    BY <1>8 DEF FlattenedAt, vCfg
  <2>3. PICK t2 : t2 = Absorb(t, vItem("norm"))
    OBVIOUS
  <2>4. t2 \in Transcripts(Entry, Labels)
    <3>1. Level(t, u, t2, Absorb(u, Sent(chain, vRound)["norm"]), {} \cup {"norm"})
      BY <1>2, <1>3, <1>4, <2>3, LevelSteps
    <3>. QED
      BY <3>1 DEF Level
  <2>5. Absorb(t2, Absent) = t2
    BY <2>4, AbsorbNothing
  <2>6. Draw(Draw(Absorb(Absorb(Absorb(t2, vItem("mostInnerNorm")), vItem("projectionNorm")),
                         vItem("constantTermClaims")), "combination"), "toField")
          = Draw(Draw(t2, "combination"), "toField")
    BY <2>1, <2>5
  <2>7. Level(t, u, Draw(Draw(t2, "combination"), "toField"), ClaimedAt(chain, vRound, u), S)
    BY <1>2, <1>5, <1>6, <2>2, <2>3, <2>6
  <2>. QED
    BY <1>3, <1>8, <2>3, <2>7
<1>. QED
  BY <1>7, <1>8

\* One variable: the polynomials up to the next one.
LEMMA PolyLevels ==
    ASSUME TypeInv, ShapeInv, VRunning, vPc # "shape",
           NEW t \in Transcripts(Entry, Labels), NEW u \in Transcripts(Entry, Labels),
           Len(t.absorbed) = Len(u.absorbed),
           NEW i \in 1..Len(vItem("polys").data)
    PROVE  LET v == Draw(Absorb(t, Single(vItem("polys"), i)), "point")
               w == PolyAt(chain, vRound, u, i)
           IN /\ Level(t, u, v, w, {})
              /\ v.absorbed = w.absorbed =>
                   vItem("polys").data[i] = Sent(chain, vRound)["polys"].data[i]
<1>. DEFINE x == vItem("polys")
            y == Sent(chain, vRound)["polys"]
<1>1. x \in Items /\ y \in Items /\ Alike(x, y)
  <2>1. VerifierInv /\ vPc # "idle" /\ chain \in Chains /\ vRound \in 1..Len(chain)
    BY DEF TypeInv, SessionTypeOK, VerifierInv, VerifierTypeOK, VRunning
  <2>2. "polys" \in Fields \ {"folded"}
    BY DEF Fields
  <2>. QED
    BY <2>1, <2>2, FormsAlike, VerifierItemType, SentType DEF SoundItems
<1>2. i \in 1..Len(x.data)
  OBVIOUS
<1>. HIDE DEF x, y
<1>3. i \in 1..Len(y.data)
  BY <1>1, <1>2 DEF Alike
<1>4. PICK a, b : a = Single(x, i) /\ b = Single(y, i)
  OBVIOUS
<1>5. /\ a \in Items /\ b \in Items
      /\ a.data = <<x.data[i]>> /\ b.data = <<y.data[i]>> /\ a.shape = b.shape
  <2>1. a \in Items
    BY <1>1, <1>2, <1>4, SingleType
  <2>2. b \in Items
    BY <1>1, <1>3, <1>4, SingleType
  <2>3. a.data = <<x.data[i]>> /\ b.data = <<y.data[i]>> /\ a.shape = b.shape
    BY <1>4, Zenon DEF Single
  <2>. QED
    BY <2>1, <2>2, <2>3
<1>6. Alike(a, b)
  <2>1. Len(a.data) = 1 /\ Len(b.data) = 1
    <3>1. \A z : Len(<<z>>) = 1
      OBVIOUS
    <3>. QED
      BY <1>5, <3>1
  <2>. QED
    BY <1>5, <2>1 DEF Alike
<1>7. PICK t1, u1 : t1 = Absorb(t, a) /\ u1 = Absorb(u, b)
  OBVIOUS
<1>8. /\ t1 \in Transcripts(Entry, Labels) /\ u1 \in Transcripts(Entry, Labels)
      /\ Len(t1.absorbed) = Len(u1.absorbed)
      /\ t1.absorbed = u1.absorbed => t.absorbed = u.absorbed /\ a = b
  BY <1>5, <1>6, <1>7, AbsorbedApart
<1>9. Level(t, u, t1, u1, {})
  BY <1>8 DEF Level
<1>10. Level(t, u, Draw(t1, "point"), Draw(u1, "point"), {})
  <2>1. "point" \in Labels
    BY DEF Labels
  <2>. QED
    BY <1>9, <2>1, LevelSteps
<1>11. /\ Draw(t1, "point").absorbed = t1.absorbed
       /\ Draw(u1, "point").absorbed = u1.absorbed
  BY <1>8, TranscriptParts
<1>12. a = b => x.data[i] = y.data[i]
  <2>1. \A p, q : <<p>> = <<q>> => p = q
    OBVIOUS
  <2>. QED
    BY <1>5, <2>1
<1>13. Draw(t1, "point") = Draw(Absorb(t, Single(vItem("polys"), i)), "point")
  BY <1>4, <1>7 DEF x
<1>14. Draw(u1, "point") = PolyAt(chain, vRound, u, i)
  BY <1>4, <1>7 DEF y, PolyAt
<1>. QED
  BY <1>8, <1>10, <1>11, <1>12, <1>13, <1>14 DEF x, y

LEMMA ClosingLevels ==
    ASSUME TypeInv, ShapeInv, VRunning, vPc # "shape",
           NEW t \in Transcripts(Entry, Labels), NEW u \in Transcripts(Entry, Labels),
           Len(t.absorbed) = Len(u.absorbed)
    PROVE  Level(t, u, VClosed(t), ClosedAt(chain, vRound, u), {"z0", "z1"})
<1>1. {"z0", "z1"} \subseteq Fields \ {"folded"}
  BY DEF Fields
<1>2. Level(t, u, t, u, {})
  BY DEF Level
<1>3. PICK t1, u1 : /\ t1 = Absorb(t, vItem("z0"))
                    /\ u1 = Absorb(u, Sent(chain, vRound)["z0"])
  OBVIOUS
<1>4. Level(t, u, t1, u1, {} \cup {"z0"})
  BY <1>1, <1>2, <1>3, LevelSteps
<1>5. Level(t, u, Absorb(t1, vItem("z1")), Absorb(u1, Sent(chain, vRound)["z1"]),
            {} \cup {"z0"} \cup {"z1"})
  BY <1>1, <1>4, LevelSteps
<1>6. {} \cup {"z0"} \cup {"z1"} = {"z0", "z1"}
  OBVIOUS
<1>. QED
  BY <1>3, <1>5, <1>6 DEF VClosed, ClosedAt

-----------------------------------------------------------------------------
(***************************************************************************)
(* The verifier beside the prover's walk.                                  *)
(***************************************************************************)

\* The phase of the walk the verifier's phase goes with.
WalkPhase ==
    IF vPc = "shape" THEN "open"
    ELSE IF vPc = "close" THEN "done"
    ELSE IF vPc = "accepted" THEN IF vCfg.kind = "Simple" THEN "done" ELSE "recurse"
    ELSE vPc

\* What has been read so far is what the prover sent: the rounds above, the
\* current round up to the current phase, and the commitment, which a caller
\* states for the first round and a verified round for those below it.
Pinned ==
    /\ \A r \in 1..(vRound - 1), f \in Fields \ {"folded"} :
         received[r].items[f] = Sent(chain, r)[f]
    /\ \A f \in ReadBy(vPc) : vItem(f) = Sent(chain, vRound)[f]
    /\ vRound # 1 \/ vPc \notin {"shape", "open"} =>
         vStatement.commitment = CommitmentOf(chain, vRound)
    /\ vPc = "poly" =>
         \A i \in 1..Len(vPoints) :
           vItem("polys").data[i] = Sent(chain, vRound)["polys"].data[i]

\* The verifier of a proof altered anywhere is in the round and phase of some
\* state of the prover's walk with as many entries absorbed; if they are the
\* same entries, nothing it has read was altered.
Beside(s) ==
    /\ s.round = vRound
    /\ s.phase = WalkPhase
    /\ vPc = "poly" => Len(s.points) = Len(vPoints)
    /\ Len(vTranscript.absorbed) = Len(s.transcript.absorbed)
    /\ vTranscript.absorbed = s.transcript.absorbed => Pinned

PinInv ==
    /\ vPc # "idle" => Len(received) <= Len(pProof)
    /\ VRunning \/ vPc = "accepted" =>
         \E n \in Nat, w \in [Nat -> WalkStates(chain)] :
           Walked(w, n) /\ \E m \in 0..n : Beside(w[m])

\* A step of the verifier that does not turn the proof away follows the walk to
\* its next state, or leaves the verifier beside the state it is at.
LEMMA VerifierGoesBeside ==
    ASSUME TypeInv, ShapeInv, VRunning, NEW holds \in BOOLEAN, VerifierStep(holds),
           UNCHANGED <<chain, received>>, vPc' # "rejected",
           NEW s \in WalkStates(chain), Beside(s), NEW next,
           s.phase \notin {"recurse", "done"} \/ VDescend => Stretch(chain, s, next)
    PROVE  \/ Beside(s)'
           \/ Beside(next)' /\ (s.phase \notin {"recurse", "done"} \/ VDescend)
<1>. DEFINE r == vRound
            t == vTranscript
            u == s.transcript
            sent(f) == Sent(chain, r)[f]
<1>1. /\ VerifierInv /\ vPc # "idle" /\ t \in Transcripts(Entry, Labels)
      /\ chain \in Chains /\ r \in 1..Len(chain) /\ Len(chain) \in Nat
      /\ vPoints \in Points /\ vCfg.kind \in {"Sumcheck", "Intermediate", "Simple"}
      /\ vPc \in {"claims", "poly", "recurse"} => vCfg.kind # "Simple"
  <2>1. chain \in Chains /\ vRound \in 1..Len(chain)
    BY DEF TypeInv, SessionTypeOK, VerifierInv, VerifierTypeOK
  <2>2. vCfg.kind \in Kinds
    BY <2>1, ConfigType DEF vCfg
  <2>. QED
    BY <2>1, <2>2, ChainType
    DEF TypeInv, VerifierInv, VerifierTypeOK, VerifierWalk, VRunning, Kinds
<1>2. /\ s.round = r /\ s.phase = WalkPhase /\ u \in Transcripts(Entry, Labels)
      /\ Len(t.absorbed) = Len(u.absorbed) /\ s.points \in Points
      /\ t.absorbed = u.absorbed => Pinned
  BY DEF Beside, WalkStates
<1>3. \A f \in Unused(vCfg.kind) : vItem(f) = sent(f)
  BY <1>1, UnusedIsAbsent, UnusedIsNotSent DEF vCfg
<1>4. vCfg' = vCfg <=> chain[vRound'] = chain[vRound]
  BY DEF vCfg
\* What a stretch of the same round pins.
<1>5. ASSUME UNCHANGED <<vRound, vStatement>>, NEW v, NEW S, Level(t, u, vTranscript', v, S),
             vPc \notin {"shape", "open"} \/ vPc' = "open"
               \/ (vTranscript'.absorbed = v.absorbed =>
                     vStatement.commitment = CommitmentOf(chain, r)),
             vPc' = "open" => vPc = "shape",
             \A f \in ReadBy(vPc') : f \in ReadBy(vPc) \/ f \in Unused(vCfg.kind) \/ f \in S,
             vPc' # "poly" \/ Len(vPoints') = 0, vPc' # "shape"
      PROVE  /\ Len(vTranscript'.absorbed) = Len(v.absorbed)
             /\ vTranscript'.absorbed = v.absorbed => Pinned'
  <2>1. Len(vTranscript'.absorbed) = Len(v.absorbed)
    BY <1>5 DEF Level
  <2>2. ASSUME vTranscript'.absorbed = v.absorbed
        PROVE  Pinned'
    <3>1. Pinned /\ \A f \in S : vItem(f) = sent(f)
      BY <1>2, <1>5, <2>2 DEF Level
    <3>2. \A f \in ReadBy(vPc') : vItem(f) = sent(f)
      BY <1>3, <1>5, <3>1 DEF Pinned
    <3>3. r # 1 \/ vPc' \notin {"shape", "open"} =>
            vStatement.commitment = CommitmentOf(chain, r)
      BY <1>5, <2>2, <3>1 DEF Pinned
    <3>4. vPc' = "poly" => 1..Len(vPoints') = {}
      BY <1>5
    <3>. QED
      BY <1>5, <3>1, <3>2, <3>3, <3>4 DEF Pinned, vItem, vProof
  <2>. QED
    BY <2>1, <2>2
<1>6. CASE CheckShape
  <2>1. /\ vPc = "shape" /\ vPc' = "open" /\ UNCHANGED <<vRound, vTranscript, vStatement>>
    BY <1>6 DEF CheckShape, VAdvance, VReject
  <2>2. Level(t, u, vTranscript', u, {})
    BY <1>1, <1>2, <2>1 DEF Level
  <2>3. Len(vTranscript'.absorbed) = Len(u.absorbed)
        /\ (vTranscript'.absorbed = u.absorbed => Pinned')
    BY <1>5, <2>1, <2>2 DEF ReadBy
  <2>. QED
    BY <1>2, <2>1, <2>3 DEF Beside, WalkPhase
<1>7. CASE VSumcheckOpen \/ VBasicOpen
  <2>1. /\ vPc = "open" /\ vPc' = "fold" /\ UNCHANGED <<vRound, vStatement>>
        /\ vCfg.kind = "Sumcheck" => vTranscript' = VOpened(t)
        /\ vCfg.kind # "Sumcheck" => vTranscript' = VImaged(t)
    BY <1>7 DEF VSumcheckOpen, VBasicOpen, VAdvance
  <2>2. s.phase = "open"
    BY <1>2, <2>1 DEF WalkPhase
  <2>3. /\ next.round = r /\ next.phase = "fold"
        /\ next.transcript = IF vCfg.kind = "Sumcheck" THEN OpenedAt(chain, r, u)
                             ELSE ImagedAt(chain, r, u)
    BY <1>2, <2>2 DEF Stretch, vCfg
  <2>4. PICK v : v = next.transcript
    OBVIOUS
  <2>5. /\ Level(t, u, VOpened(t), OpenedAt(chain, r, u), {"opening"})
        /\ Level(t, u, VImaged(t), ImagedAt(chain, r, u), {"opening", "image"})
        /\ \/ VOpened(t).absorbed = OpenedAt(chain, r, u).absorbed
           \/ VImaged(t).absorbed = ImagedAt(chain, r, u).absorbed
           => vStatement.commitment = CommitmentOf(chain, r)
    BY <1>1, <1>2, <2>1, OpeningLevels
  <2>6. PICK S : /\ Level(t, u, vTranscript', v, S)
                 /\ \A f \in ReadBy(vPc') : f \in Unused(vCfg.kind) \/ f \in S
    <3>1. CASE vCfg.kind = "Sumcheck"
      <4>1. Level(t, u, vTranscript', v, {"opening"})
        BY <2>1, <2>3, <2>4, <2>5, <3>1
      <4>. QED
        BY <2>1, <3>1, <4>1 DEF ReadBy, Unused
    <3>2. CASE vCfg.kind # "Sumcheck"
      <4>1. Level(t, u, vTranscript', v, {"opening", "image"})
        BY <2>1, <2>3, <2>4, <2>5, <3>2
      <4>. QED
        BY <2>1, <4>1 DEF ReadBy
    <3>. QED
      BY <3>1, <3>2
  <2>7. vTranscript'.absorbed = v.absorbed => vStatement.commitment = CommitmentOf(chain, r)
    BY <2>1, <2>3, <2>4, <2>5
  <2>8. Len(vTranscript'.absorbed) = Len(v.absorbed)
        /\ (vTranscript'.absorbed = v.absorbed => Pinned')
    BY <1>5, <2>1, <2>6, <2>7
  <2>. QED
    BY <2>1, <2>2, <2>3, <2>4, <2>8 DEF Beside, WalkPhase
<1>8. CASE VSumcheckFold \/ VIntermediateFold(holds) \/ VSimpleFold
  <2>1. /\ vPc = "fold" /\ UNCHANGED <<vRound, vStatement>>
        /\ vPc' = IF vCfg.kind = "Simple" THEN "close" ELSE "claims"
        /\ vCfg.kind = "Sumcheck" => vTranscript' = VFolded(t)
        /\ vCfg.kind = "Intermediate" =>
             vTranscript' = Absorb(Draw(Absorb(t, vItem("batched")), "fold"), vItem("next"))
        /\ vCfg.kind = "Simple" =>
             vTranscript' = Draw(Absorb(t, vItem("batched")), "fold")
    <3>1. CASE VSumcheckFold
      BY <3>1 DEF VSumcheckFold, VAdvance
    <3>2. CASE VIntermediateFold(holds)
      BY <3>2 DEF VIntermediateFold, VAdvance, VReject
    <3>3. CASE VSimpleFold
      BY <3>3 DEF VSimpleFold, VAdvance
    <3>. QED
      BY <1>8, <3>1, <3>2, <3>3
  <2>2. s.phase = "fold"
    BY <1>2, <2>1 DEF WalkPhase
  <2>3. /\ next.round = r
        /\ next.phase = IF vCfg.kind = "Simple" THEN "done" ELSE "claims"
        /\ next.transcript = IF vCfg.kind = "Simple"
                             THEN Draw(Absorb(u, sent("batched")), "fold")
                             ELSE FoldedAt(chain, r, u)
    BY <1>2, <2>2 DEF Stretch, vCfg
  <2>4. PICK v : v = next.transcript
    OBVIOUS
  <2>5. PICK S : /\ Level(t, u, vTranscript', v, S)
                 /\ \A f \in ReadBy(vPc') :
                      f \in ReadBy(vPc) \/ f \in Unused(vCfg.kind) \/ f \in S
    <3>1. CASE vCfg.kind = "Sumcheck"
      <4>1. Level(t, u, vTranscript', v, {"coarse", "constantTerm", "batched", "next"})
        BY <1>1, <1>2, <2>1, <2>3, <2>4, <3>1, FoldingLevels
      <4>. QED
        BY <2>1, <3>1, <4>1 DEF ReadBy, Unused
    <3>2. CASE vCfg.kind = "Intermediate"
      <4>1. Level(t, u, vTranscript', v, {"batched", "next"})
        BY <1>1, <1>2, <2>1, <2>3, <2>4, <3>2, BasicFoldingLevels
      <4>. QED
        BY <2>1, <3>2, <4>1 DEF ReadBy, Unused
    <3>3. CASE vCfg.kind = "Simple"
      <4>1. Level(t, u, vTranscript', v, {"batched"})
        BY <1>1, <1>2, <2>1, <2>3, <2>4, <3>3, BasicFoldingLevels
      <4>. QED
        BY <2>1, <3>3, <4>1 DEF ReadBy, Unused
    <3>. QED
      BY <1>1, <3>1, <3>2, <3>3
  <2>6. Len(vTranscript'.absorbed) = Len(v.absorbed)
        /\ (vTranscript'.absorbed = v.absorbed => Pinned')
    BY <1>5, <2>1, <2>5
  <2>. QED
    BY <2>1, <2>2, <2>3, <2>4, <2>6 DEF Beside, WalkPhase
<1>9. CASE VSumcheckClaims(holds) \/ VIntermediateClaims(holds)
  <2>1. /\ vPc = "claims" /\ vPc' = "poly" /\ UNCHANGED <<vRound, vStatement>>
        /\ Len(vPoints') = 0 /\ vCfg.kind \in {"Sumcheck", "Intermediate"}
        /\ vCfg.kind = "Sumcheck" => vTranscript' = VClaimed(t)
        /\ vCfg.kind = "Intermediate" =>
             vTranscript' = Draw(Draw(Absorb(t, vItem("norm")), "combination"), "toField")
    BY <1>9 DEF VSumcheckClaims, VIntermediateClaims, VReject
  <2>2. s.phase = "claims"
    BY <1>2, <2>1 DEF WalkPhase
  <2>3. /\ next.round = r /\ next.phase = "poly" /\ next.points = <<>>
        /\ next.transcript = ClaimedAt(chain, r, u)
    BY <1>2, <2>2 DEF Stretch
  <2>4. PICK v : v = next.transcript
    OBVIOUS
  <2>5. Level(t, u, vTranscript', v, EnteringClaims)
    BY <1>1, <1>2, <2>1, <2>3, <2>4, ClaimingLevels
  <2>6. \A f \in ReadBy(vPc') : f \in ReadBy(vPc) \/ f \in EnteringClaims
    BY <2>1 DEF ReadBy
  <2>7. Len(vTranscript'.absorbed) = Len(v.absorbed)
        /\ (vTranscript'.absorbed = v.absorbed => Pinned')
    BY <1>5, <2>1, <2>5, <2>6
  <2>. QED
    BY <2>1, <2>2, <2>3, <2>4, <2>7 DEF Beside, WalkPhase
<1>10. CASE VRoundPoly(holds) \/ VCloseSumcheck(holds)
  <2>1. vPc = "poly" /\ UNCHANGED <<vRound, vStatement>>
    BY <1>10 DEF VRoundPoly, VCloseSumcheck, VReject
  <2>2. /\ s.phase = "poly" /\ Len(s.points) = Len(vPoints)
        /\ Len(vItem("polys").data) = chain[r].vars /\ chain[r].vars \in Nat
        /\ Len(vPoints) \in Nat
    BY <1>1, <1>2, <2>1, PolysFit, ConfigType, LenProperties
    DEF WalkPhase, Beside, vCfg, Points
  <2>3. CASE VRoundPoly(holds)
    <3>. DEFINE i == Len(vPoints) + 1
    <3>1. /\ vPc' = "poly" /\ Len(vPoints) < Len(vItem("polys").data)
          /\ vTranscript' = Draw(Absorb(t, Single(vItem("polys"), i)), "point")
          /\ vPoints' = Append(vPoints, LastDraw(t) + 1)
      BY <2>1, <2>3 DEF VRoundPoly, VReject
    <3>2. /\ next.round = r /\ next.phase = "poly"
          /\ next.points = Append(s.points, LastDraw(u) + 1)
          /\ next.transcript = PolyAt(chain, r, u, i)
      BY <1>2, <2>2, <3>1 DEF Stretch
    <3>3. PICK v : v = next.transcript
      OBVIOUS
    <3>4. /\ i \in 1..Len(vItem("polys").data)
          /\ Len(vPoints') = i /\ Len(next.points) = i
      BY <1>1, <1>2, <2>2, <3>1, <3>2, LastDrawType, AppendProperties DEF Points
    <3>. HIDE DEF i
    <3>5. /\ Level(t, u, vTranscript', v, {})
          /\ vTranscript'.absorbed = v.absorbed =>
               vItem("polys").data[i] = sent("polys").data[i]
      BY <1>1, <1>2, <2>1, <3>1, <3>2, <3>3, <3>4, PolyLevels
    <3>6. ASSUME vTranscript'.absorbed = v.absorbed
          PROVE  Pinned'
      <4>1. Pinned /\ vItem("polys").data[i] = sent("polys").data[i]
        BY <1>2, <3>5, <3>6 DEF Level
      <4>2. \A j \in 1..i : j = i \/ j \in 1..Len(vPoints)
        BY <2>2 DEF i
      <4>3. \A j \in 1..i : vItem("polys").data[j] = sent("polys").data[j]
        BY <2>1, <4>1, <4>2 DEF Pinned
      <4>. QED
        BY <2>1, <3>1, <3>4, <4>1, <4>3 DEF Pinned, vItem, vProof
    <3>. QED
      BY <2>1, <2>2, <3>1, <3>2, <3>3, <3>4, <3>5, <3>6 DEF Beside, WalkPhase, Level
  <2>4. CASE VCloseSumcheck(holds)
    <3>1. /\ vPc' = "recurse" /\ Len(vPoints) = Len(vItem("polys").data)
          /\ vTranscript' = VClosed(t)
      BY <2>4 DEF VCloseSumcheck
    <3>2. /\ next.round = r /\ next.phase = "recurse"
          /\ next.transcript = ClosedAt(chain, r, u)
      BY <1>2, <2>2, <3>1 DEF Stretch
    <3>3. PICK v : v = next.transcript
      OBVIOUS
    <3>4. Level(t, u, vTranscript', v, {"z0", "z1"})
      BY <1>1, <1>2, <2>1, <3>1, <3>2, <3>3, ClosingLevels
    <3>5. ASSUME vTranscript'.absorbed = v.absorbed
          PROVE  Pinned'
      <4>1. Pinned /\ \A f \in {"z0", "z1"} : vItem(f) = sent(f)
        BY <1>2, <3>4, <3>5 DEF Level
      <4>2. vItem("polys") = sent("polys")
        <5>. DEFINE x == vItem("polys")
                    y == sent("polys")
        <5>1. x \in Items /\ y \in Items /\ Alike(x, y)
          <6>1. "polys" \in Fields \ {"folded"}
            BY DEF Fields
          <6>. QED
            BY <1>1, <2>1, <6>1, FormsAlike, VerifierItemType, SentType DEF SoundItems
        <5>2. \A i \in 1..Len(x.data) : x.data[i] = y.data[i]
          BY <2>1, <3>1, <4>1 DEF Pinned
        <5>. HIDE DEF x, y
        <5>3. x.data = y.data
          <6>1. /\ x.data \in Seq(Entry) /\ y.data \in Seq(Entry)
                /\ Len(x.data) = Len(y.data)
            BY <5>1 DEF Items, Alike
          <6>2. /\ x.data = [i \in 1..Len(x.data) |-> x.data[i]]
                /\ y.data = [i \in 1..Len(x.data) |-> y.data[i]]
            BY <6>1, LenProperties
          <6>. QED
            BY <5>2, <6>2
        <5>. QED
          BY <5>1, <5>3, AlikeData DEF x, y
      <4>3. \A f \in Fields \ {"folded"} : f \in ReadBy("poly") \cup {"polys", "z0", "z1"}
        BY DEF ReadBy, EnteringClaims, Fields
      <4>4. \A f \in Fields \ {"folded"} : vItem(f) = sent(f)
        BY <2>1, <4>1, <4>2, <4>3 DEF Pinned
      <4>. QED
        BY <2>1, <3>1, <4>1, <4>4 DEF Pinned, ReadBy, vItem, vProof
    <3>. QED
      BY <2>1, <2>2, <3>1, <3>2, <3>3, <3>4, <3>5 DEF Beside, WalkPhase, Level
  <2>. QED
    BY <1>10, <2>3, <2>4
<1>11. CASE VSimpleClose(holds) \/ VCaptureBoundary \/ VAcceptChain
  <2>1. /\ vPc' = "accepted" /\ UNCHANGED <<vRound, vTranscript, vStatement>>
        /\ vPc = IF vCfg.kind = "Simple" THEN "close" ELSE "recurse"
    BY <1>1, <1>11 DEF VSimpleClose, VCaptureBoundary, VAcceptChain, VReject
  <2>2. Level(t, u, vTranscript', u, {})
    BY <1>1, <1>2, <2>1 DEF Level
  <2>3. \A f \in ReadBy(vPc') : f \in ReadBy(vPc) \/ f \in Unused(vCfg.kind)
    BY <2>1 DEF ReadBy, Unused, Fields
  <2>4. Len(vTranscript'.absorbed) = Len(u.absorbed)
        /\ (vTranscript'.absorbed = u.absorbed => Pinned')
    BY <1>5, <2>1, <2>2, <2>3
  <2>5. WalkPhase' = WalkPhase
    BY <2>1 DEF WalkPhase, vCfg
  <2>. QED
    BY <1>2, <2>1, <2>4, <2>5 DEF Beside
<1>12. CASE VDescend
  <2>1. /\ vPc = "recurse" /\ vPc' = "shape" /\ vRound' = r + 1
        /\ vTranscript' = t /\ vStatement'.commitment = vItem("next")
    BY <1>12 DEF VDescend
  <2>2. s.phase = "recurse"
    BY <1>2, <2>1 DEF WalkPhase
  <2>3. next.round = r + 1 /\ next.phase = "open" /\ next.transcript = u
    BY <1>2, <1>12, <2>2 DEF Stretch
  <2>4. ASSUME t.absorbed = u.absorbed
        PROVE  Pinned'
    <3>1. Pinned
      BY <1>2, <2>4
    <3>2. \A f \in Fields \ {"folded"} : vItem(f) = sent(f)
      BY <2>1, <3>1 DEF Pinned, ReadBy
    <3>3. \A j \in 1..((r + 1) - 1) : j = r \/ j \in 1..(r - 1)
      BY <1>1
    <3>4. \A j \in 1..((r + 1) - 1), f \in Fields \ {"folded"} :
            received[j].items[f] = Sent(chain, j)[f]
      BY <3>1, <3>2, <3>3 DEF Pinned, vItem, vProof
    <3>5. vItem("next") = CommitmentOf(chain, r + 1)
      <4>1. vItem("next") = SentCommitment(chain, r)
        BY <1>1, <3>2, SentItems DEF Fields
      <4>2. r + 1 # 1 /\ (r + 1) - 1 = r
        BY <1>1
      <4>. QED
        BY <4>1, <4>2 DEF CommitmentOf
    <3>. QED
      BY <2>1, <3>4, <3>5 DEF Pinned, ReadBy
  <2>. QED
    BY <1>2, <1>12, <2>1, <2>3, <2>4 DEF Beside, WalkPhase
<1>13. VContextRefused \/ VChainRefused => vPc' = "rejected"
  BY DEF VContextRefused, VChainRefused, VReject
<1>. QED
  BY <1>6, <1>7, <1>8, <1>9, <1>10, <1>11, <1>12, <1>13 DEF VerifierStep

LEMMA DeliverPins ==
    ASSUME TypeInv, WalkedInv, Deliver
    PROVE  PinInv'
<1>1. /\ pPc = "done" /\ UNCHANGED <<chain, proverVars>> /\ chain \in Chains
      /\ Len(pProof) = pRound /\ pRound \in Nat /\ pRound # 0 /\ SentProof(chain, pProof)
  <2>1. pRound \in 1..Len(chain) /\ chain \in Chains
    BY DEF TypeInv, SessionTypeOK, ProverInv, ProverTypeOK
  <2>. QED
    BY <2>1 DEF Deliver, TypeInv, ProverInv, ProverWalk
<1>2. Len(received') <= Len(pProof)
  <2>1. received' = pProof \/ received' \in FaultyProofs(fault', pProof)
    BY DEF Deliver
  <2>2. ASSUME received' \in FaultyProofs(fault', pProof)
        PROVE  Len(received') <= Len(pProof)
    <3>1. PICK kind, got : kind = fault' /\ got = received'
      OBVIOUS
    <3>. QED
      BY <1>1, <2>2, <3>1, FaultsKeepForm
  <2>. QED
    BY <1>1, <2>1, <2>2
<1>3. PICK fresh, cut, statement : VerifierStart(fresh, cut, statement)
  BY DEF Deliver
<1>4. vPc' = "shape" /\ vRound' = 1 /\ vTranscript' = NewTranscript
  BY <1>3 DEF VerifierStart
<1>5. PICK n \in Nat, w \in [Nat -> WalkStates(chain)] : Walked(w, n)
  BY <1>1 DEF WalkedInv
<1>6. Walked(w, n)'
  BY <1>1, <1>5 DEF proverVars, Walked, Reached, pCfg
<1>7. /\ w[0].round = 1 /\ w[0].phase = "open" /\ w[0].transcript = NewTranscript
      /\ 0 \in 0..n
  BY <1>5 DEF Walked, WalkStart
<1>8. Beside(w[0])'
  <2>1. Pinned'
    BY <1>4 DEF Pinned, ReadBy
  <2>. QED
    BY <1>4, <1>7, <2>1 DEF Beside, WalkPhase
<1>9. \E m \in 0..n : Beside(w[m])'
  BY <1>7, <1>8
<1>. QED
  BY <1>1, <1>2, <1>5, <1>6, <1>9 DEF PinInv, proverVars

LEMMA VerifierPins ==
    ASSUME TypeInv, CallInv, ShapeInv, PinInv, VRunning, NEW holds \in BOOLEAN,
           VerifierStep(holds), UNCHANGED <<chain, proverVars, received>>
    PROVE  PinInv'
<1>1. /\ pPc = "done" /\ vPc # "idle" /\ Len(pProof) = pRound /\ pRound \in Nat
      /\ vRound \in Nat /\ Len(received) \in Nat
  <2>1. pPc = "done" /\ vPc # "idle"
    BY DEF CallInv, VRunning
  <2>2. pRound \in 1..Len(chain) /\ vRound \in 1..Len(chain) /\ received \in Seq(RoundProofs)
    BY DEF TypeInv, ProverInv, ProverTypeOK, VerifierInv, VerifierTypeOK
  <2>. QED
    BY <2>1, <2>2 DEF TypeInv, ProverInv, ProverWalk
<1>2. Len(received) <= Len(pProof)
  BY <1>1 DEF PinInv
<1>3. CASE vPc' = "rejected"
  BY <1>2, <1>3 DEF PinInv, VRunning, proverVars
<1>4. CASE vPc' # "rejected"
  <2>1. PICK n \in Nat, w \in [Nat -> WalkStates(chain)] :
          Walked(w, n) /\ \E m \in 0..n : Beside(w[m])
    BY DEF PinInv
  <2>2. PICK m \in 0..n : Beside(w[m])
    BY <2>1
  <2>3. Walked(w, n)'
    BY <2>1 DEF proverVars, Walked, Reached, pCfg
  <2>4. w[n] = Reached /\ \A i \in 0..(n - 1) : Stretch(chain, w[i], w[i + 1])
    BY <2>1 DEF Walked
  <2>5. Reached.phase \in {"recurse", "done"} /\ Reached.round = pRound
    BY <1>1 DEF Reached
  <2>6. ASSUME w[m].phase \notin {"recurse", "done"} \/ VDescend
        PROVE  m \in 0..(n - 1) /\ m + 1 \in 0..n
    <3>1. VDescend => vRound < Len(received)
      BY DEF VDescend, MayDescend
    <3>2. w[m].round = vRound
      BY <2>2 DEF Beside
    <3>3. m # n
      BY <1>1, <1>2, <2>4, <2>5, <2>6, <3>1, <3>2
    <3>. QED
      BY <3>3
  <2>7. w[m] \in WalkStates(chain)
    OBVIOUS
  <2>8. PICK s, next : s = w[m] /\ next = w[m + 1]
    OBVIOUS
  <2>9. \/ Beside(s)'
        \/ Beside(next)' /\ (s.phase \notin {"recurse", "done"} \/ VDescend)
    <3>1. s.phase \notin {"recurse", "done"} \/ VDescend => Stretch(chain, s, next)
      BY <2>4, <2>6, <2>8
    <3>2. s \in WalkStates(chain) /\ Beside(s)
      BY <2>2, <2>7, <2>8
    <3>. QED
      BY <1>4, <3>1, <3>2, VerifierGoesBeside
  <2>10. \E i \in 0..n : Beside(w[i])'
    <3>1. CASE Beside(s)'
      BY <2>8, <3>1
    <3>2. CASE Beside(next)' /\ (s.phase \notin {"recurse", "done"} \/ VDescend)
      BY <2>6, <2>8, <3>2
    <3>. QED
      BY <2>9, <3>1, <3>2
  <2>. QED
    BY <1>2, <2>3, <2>10 DEF PinInv, proverVars
<1>. QED
  BY <1>3, <1>4

LEMMA NextPinInv ==
    TypeInv /\ CallInv /\ ShapeInv /\ WalkedInv /\ PinInv /\ [Next]_vars => PinInv'
<1>. SUFFICES ASSUME TypeInv, CallInv, ShapeInv, WalkedInv, PinInv, [Next]_vars
              PROVE  PinInv'
  OBVIOUS
<1>1. CASE Prove
  BY <1>1 DEF Prove, PinInv, VRunning
<1>2. CASE Deliver
  BY <1>2, DeliverPins
<1>3. CASE VerifierWorks
  <2>1. PICK holds \in BOOLEAN : VerifierStep(holds)
    BY <1>3 DEF VerifierWorks, Outcomes
  <2>. QED
    BY <1>3, <2>1, VerifierPins DEF VerifierWorks
<1>4. CASE ProverWorks
  <2>1. pPc # "done"
    BY <1>4 DEF ProverWorks, ProverStep, SumcheckOpen, SumcheckFold, BasicOpen,
                IntermediateFold, SimpleFold, ProverClaims, ContextRefused, RoundPoly,
                CloseSumcheck, CaptureBoundary, BoundaryRefused, Descend, FinishChain
  <2>2. vPc' = "idle"
    BY <1>4, <2>1 DEF CallInv, ProverWorks, verifierVars
  <2>. QED
    BY <2>2 DEF PinInv, VRunning
<1>5. CASE NoMoreSessions \/ UNCHANGED vars
  <2>1. UNCHANGED <<chain, received, proverVars, verifierVars>>
    BY <1>5 DEF NoMoreSessions, vars
  <2>2. ASSUME NEW w, NEW n, NEW m
        PROVE  Walked(w, n)' = Walked(w, n) /\ Beside(w[m])' = Beside(w[m])
    BY <2>1 DEF proverVars, verifierVars, Walked, Reached, pCfg, Beside, WalkPhase, Pinned,
                vItem, vProof, vCfg
  <2>3. /\ vPc' = vPc /\ received' = received /\ pProof' = pProof /\ chain' = chain
        /\ VRunning' = VRunning
    BY <2>1 DEF proverVars, verifierVars, VRunning
  <2>. QED
    BY <2>2, <2>3 DEF PinInv
<1>. QED
  BY <1>1, <1>2, <1>3, <1>4, <1>5 DEF Next

\* However the proof was altered, if a round passed and everything absorbed is
\* what the prover absorbed, then every field of every round passed, its shape
\* included, is the one the prover sent: the structural pass leaves one grouping
\* of the absorbed entries.
THEOREM TranscriptsPinProofs == Spec => []TranscriptPinsProof
<1>1. Init => PinInv
  BY DEF Init, PinInv, VRunning
<1>2. TypeInv /\ CallInv /\ PinInv => TranscriptPinsProof
  <2>. SUFFICES ASSUME TypeInv, CallInv, PinInv, vPc \in {"recurse", "accepted"},
                       PrefixOf(vTranscript.absorbed, pTranscript.absorbed)
                PROVE  /\ vStatement.commitment = CommitmentOf(chain, vRound)
                       /\ \A r \in 1..vRound, f \in Fields \ {"folded"} :
                            received[r].items[f] = pProof[r].items[f]
    BY DEF TranscriptPinsProof
  <2>1. /\ SentProof(chain, pProof) /\ vRound \in 1..Len(received) /\ vRound \in Nat
        /\ Len(received) \in Nat /\ Len(pProof) \in Nat /\ Len(received) <= Len(pProof)
        /\ vTranscript \in Transcripts(Entry, Labels)
        /\ pTranscript \in Transcripts(Entry, Labels)
    <3>1. received \in Seq(RoundProofs) /\ pProof \in Seq(RoundProofs)
      BY DEF TypeInv, VerifierInv, VerifierTypeOK, ProverInv, ProverTypeOK
    <3>2. Len(received) \in Nat /\ Len(pProof) \in Nat
      BY <3>1
    <3>. QED
      BY <3>2 DEF TypeInv, VerifierInv, VerifierWalk, VerifierTypeOK, ProverInv, ProverWalk,
                  ProverTypeOK, PinInv
  <2>2. PICK n \in Nat, w \in [Nat -> WalkStates(chain)] :
          Walked(w, n) /\ \E m \in 0..n : Beside(w[m])
    BY DEF PinInv, VRunning
  <2>3. PICK m \in 0..n : Beside(w[m])
    BY <2>2
  <2>4. PICK u : u = w[m].transcript
    OBVIOUS
  <2>5. /\ u \in Transcripts(Entry, Labels) /\ PrefixOf(u.absorbed, pTranscript.absorbed)
        /\ Len(vTranscript.absorbed) = Len(u.absorbed)
    BY <2>2, <2>3, <2>4 DEF Walked, SameChallenges, Beside, WalkStates
  <2>6. vTranscript.absorbed = u.absorbed
    <3>. DEFINE a == vTranscript.absorbed
                b == u.absorbed
                p == pTranscript.absorbed
    <3>1. a \in Seq(Entry) /\ b \in Seq(Entry) /\ Len(a) = Len(b)
      BY <2>1, <2>5, TranscriptParts
    <3>2. PrefixOf(a, p) /\ PrefixOf(b, p)
      BY <2>5
    <3>. HIDE DEF a, b, p
    <3>3. \A i \in 1..Len(a) : a[i] = b[i]
      BY <3>1, <3>2 DEF PrefixOf
    <3>4. a = [i \in 1..Len(a) |-> a[i]] /\ b = [i \in 1..Len(a) |-> b[i]]
      BY <3>1, LenProperties
    <3>5. a = b
      BY <3>3, <3>4
    <3>. QED
      BY <3>5 DEF a, b
  <2>7. Pinned
    BY <2>3, <2>4, <2>6 DEF Beside
  <2>8. ReadBy(vPc) = Fields \ {"folded"}
    BY DEF ReadBy
  <2>9. ASSUME NEW r \in 1..vRound, NEW f \in Fields \ {"folded"}
        PROVE  received[r].items[f] = pProof[r].items[f]
    <3>1. r \in 1..Len(pProof) /\ (r \in 1..(vRound - 1) \/ r = vRound)
      BY <2>1
    <3>2. received[r].items[f] = Sent(chain, r)[f]
      BY <2>7, <2>8, <3>1 DEF Pinned, vItem, vProof
    <3>3. pProof[r].items = Sent(chain, r)
      BY <2>1, <3>1, SentRound
    <3>. QED
      BY <3>2, <3>3
  <2>. QED
    BY <2>7, <2>9 DEF Pinned
<1>3. Spec => [](TypeInv /\ CallInv /\ ShapeInv /\ WalkedInv)
  <2>1. FaithInv => WalkedInv
    BY DEF FaithInv
  <2>. QED
    BY <2>1, ReadInvariant, CallInvariant, FaithInvariant, PTL
<1>4. TypeInv /\ CallInv /\ ShapeInv /\ WalkedInv /\ PinInv /\ [Next]_vars => PinInv'
  BY NextPinInv
<1>. QED
  BY <1>1, <1>2, <1>3, <1>4, PTL DEF Spec

=============================================================================

------------------------- MODULE RoundItems_proofs -------------------------
(***************************************************************************)
(* Lemmas on the items of a chain's round proofs: what an honest prover    *)
(* sends has the type the model gives it.                                  *)
(***************************************************************************)
EXTENDS RoundItems, SequenceTheorems, WellFoundedInduction, TLAPS

\* Every set of natural numbers but the empty one has a least element: what
\* inductions over rounds rest on.
LEMMA LeastNatural ==
    ASSUME NEW T, T \subseteq Nat, T # {}
    PROVE  \E x \in T : \A y \in T : x <= y
<1>1. IsWellFoundedOn(OpToRel(<, Nat), Nat)
  BY NatLessThanWellFounded
<1>2. PICK x \in T : \A y \in T : ~ (<<y, x>> \in OpToRel(<, Nat))
  BY <1>1, WFMin
<1>3. \A y \in T : y \in Nat
  OBVIOUS
<1>4. \A y \in T : ~(y < x)
  BY <1>2, <1>3 DEF OpToRel
<1>. QED
  BY <1>3, <1>4

\* A chain the parties run is a non-empty sequence of round configs that starts
\* with a sumcheck round.
LEMMA ChainType ==
    ASSUME NEW c \in Chains
    PROVE  /\ c \in Seq(RoundConfigs)
           /\ Len(c) \in Nat \ {0}
           /\ c[1].kind = "Sumcheck"
           /\ \A r \in 1..Len(c) : c[r] \in RoundConfigs
<1>1. WellFormed(c)
  BY ChainsAssumption
<1>2. c \in Seq(RoundConfigs) /\ c # <<>> /\ c[1].kind = "Sumcheck"
  BY <1>1 DEF WellFormed
<1>. QED
  BY <1>2, EmptySeq, ElementOfSeq

\* A round above the last is a sumcheck or an intermediate round, and is not
\* followed by a sumcheck round unless it is one.
LEMMA ChainOrder ==
    ASSUME NEW c \in Chains, NEW r \in 1..Len(c), r < Len(c)
    PROVE  /\ c[r].kind \in {"Sumcheck", "Intermediate"}
           /\ c[r + 1].kind = "Sumcheck" => c[r].kind = "Sumcheck"
BY ChainsAssumption DEF WellFormed, Follows, HasNext, Last

\* The items the prover makes have as many entries as their shape says.
SoundItems == {item \in Items : Len(item.data) = Entries(item.shape)}

LEMMA AbsentType == Absent \in SoundItems
BY DEF Absent, Items, NoShape, SoundItems, Entries

LEMMA HonestItemType ==
    ASSUME NEW r \in Nat, NEW f \in Fields, NEW shape \in Seq(Nat), NEW pads,
           Entries(shape) \in Nat
    PROVE  /\ HonestItem(r, f, shape, pads) \in SoundItems
           /\ Len(HonestItem(r, f, shape, pads).data) = Entries(shape)
<1>1. HonestItem(r, f, shape, pads) \in Items
  BY DEF HonestItem, Items, Entry, Zero
<1>2. Len(HonestItem(r, f, shape, pads).data) = Entries(shape)
  BY DEF HonestItem
<1>. QED
  BY <1>1, <1>2 DEF HonestItem, SoundItems

LEMMA SingleType ==
    ASSUME NEW item \in Items, NEW i \in 1..Len(item.data)
    PROVE  Single(item, i) \in Items
BY DEF Single, Items

LEMMA VectorType ==
    ASSUME NEW r \in Nat, NEW f \in Fields, NEW n \in Nat, NEW pads
    PROVE  /\ HonestItem(r, f, <<n>>, pads) \in SoundItems
           /\ Len(HonestItem(r, f, <<n>>, pads).data) = n
<1>1. Entries(<<n>>) = n /\ n \in Nat
  BY DEF Entries
<1>2. <<n>> \in Seq(Nat)
  OBVIOUS
<1>. QED
  BY <1>1, <1>2, HonestItemType

LEMMA ScalarType ==
    ASSUME NEW r \in Nat, NEW f \in Fields
    PROVE  /\ HonestItem(r, f, <<1>>, {}) \in SoundItems
           /\ Len(HonestItem(r, f, <<1>>, {}).data) = 1
<1>. DEFINE vector(n) == HonestItem(r, f, <<n>>, {})
<1>1. \A n \in Nat : vector(n) \in SoundItems /\ Len(vector(n).data) = n
  BY VectorType
<1>2. vector(1) \in SoundItems /\ Len(vector(1).data) = 1
  <2>. HIDE DEF vector
  <2>. QED
    BY <1>1
<1>. QED
  BY <1>2

LEMMA MatrixType ==
    ASSUME NEW r \in Nat, NEW f \in Fields, NEW h \in Nat, NEW w \in Nat, NEW pads
    PROVE  HonestItem(r, f, <<h, w>>, pads) \in SoundItems
<1>1. Entries(<<h, w>>) = h * w /\ h * w \in Nat
  BY DEF Entries
<1>2. <<h, w>> \in Seq(Nat)
  OBVIOUS
<1>. QED
  BY <1>1, <1>2, HonestItemType

LEMMA ColumnsType ==
    ASSUME NEW r \in Nat, NEW f \in Fields, NEW h \in Nat, NEW w \in Nat, NEW u \in Nat,
           NEW pads
    PROVE  HonestItem(r, f, <<h, w, u>>, pads) \in SoundItems
<1>1. Entries(<<h, w, u>>) = h * w /\ h * w \in Nat
  BY DEF Entries
<1>2. <<h, w, u>> \in Seq(Nat)
  OBVIOUS
<1>. QED
  BY <1>1, <1>2, HonestItemType

\* What the prover sends in a round is a proof's items, and a round with a
\* sumcheck sends each of its closing claims as one element.
LEMMA ConfigType ==
    ASSUME NEW c \in Chains, NEW r \in 1..Len(c)
    PROVE  /\ c[r].kind \in Kinds
           /\ c[r].projection \in Projections
           /\ c[r].exactProjectionNorm \in BOOLEAN
           /\ \A f \in Roots : c[r].rank[f] \in Nat \ {0}
           /\ c[r].openings \in Nat \ {0}
           /\ c[r].rows \in Nat /\ c[r].cols \in Nat
           /\ c[r].vars \in Nat /\ c[r].image \in Nat
           /\ Width(c[r]) \in Nat \ {0}
           /\ Height(c[r]) \in Nat \ {0}
           /\ NextPowerOfTwo(c[r].rank["commitment"]) \in Nat \ {0}
<1>1. c[r] \in RoundConfigs
  BY ChainType
<1>. QED
  BY <1>1, SizesAssumption DEF RoundConfigs

LEMMA SentCommitmentType ==
    ASSUME NEW c \in Chains, NEW r \in 1..Len(c)
    PROVE  SentCommitment(c, r) \in SoundItems
<1>1. CASE ~HasNext(c, r)
  BY <1>1, AbsentType DEF SentCommitment
<1>2. CASE HasNext(c, r)
  <2>. DEFINE nxt == c[r + 1]
  <2>1. Len(c) \in Nat
    BY ChainType
  <2>2. r + 1 \in 1..Len(c)
    BY <1>2, <2>1 DEF HasNext, Last
  <2>3. /\ nxt.rank["commitment"] \in Nat /\ Width(nxt) \in Nat
        /\ NextPowerOfTwo(nxt.rank["commitment"]) \in Nat
    BY <2>2, ConfigType DEF Roots
  <2>4. CASE nxt.kind = "Sumcheck"
    BY <1>2, <2>3, <2>4, VectorType DEF SentCommitment, Fields
  <2>5. CASE nxt.kind # "Sumcheck"
    <3>1. HonestItem(r, "next", BasicCommitmentShape(nxt), PaddingRows(nxt)) \in SoundItems
      BY <2>3, MatrixType DEF BasicCommitmentShape, Fields
    <3>. QED
      BY <1>2, <2>5, <3>1 DEF SentCommitment
  <2>. QED
    BY <2>4, <2>5
<1>. QED
  BY <1>1, <1>2

LEMMA CommitmentOfType ==
    ASSUME NEW c \in Chains, NEW r \in 1..Len(c)
    PROVE  CommitmentOf(c, r) \in SoundItems
<1>1. CASE r = 1
  <2>1. c[1].rank["commitment"] \in Nat
    BY <1>1, ConfigType DEF Roots
  <2>. QED
    BY <1>1, <2>1, VectorType DEF CommitmentOf, RootCommitment, Fields
<1>2. CASE r # 1
  <2>1. Len(c) \in Nat
    BY ChainType
  <2>2. r - 1 \in 1..Len(c)
    BY <1>2, <2>1
  <2>. QED
    BY <1>2, <2>2, SentCommitmentType DEF CommitmentOf
<1>. QED
  BY <1>1, <1>2

LEMMA SumcheckSentType ==
    ASSUME NEW c \in Chains, NEW r \in 1..Len(c)
    PROVE  /\ SumcheckSent(c, r) \in [Fields -> SoundItems]
           /\ \A f \in {"z0", "z1"} : Len(SumcheckSent(c, r)[f].data) = 1
           /\ Len(SumcheckSent(c, r)["polys"].data) = c[r].vars
<1>. DEFINE cfg == c[r]
            vector(f, n) == HonestItem(r, f, <<n>>, {})
<1>1. /\ cfg.vars \in Nat
      /\ \A f \in Roots : cfg.rank[f] \in Nat
  BY ConfigType
<1>2. \A f \in Fields, n \in Nat : vector(f, n) \in SoundItems /\ Len(vector(f, n).data) = n
  BY VectorType
<1>3. SentCommitment(c, r) \in SoundItems
  BY SentCommitmentType
<1>4. \A f \in Fields : SumcheckSent(c, r)[f] \in SoundItems
  BY <1>1, <1>2, <1>3, AbsentType, NofBatchesAssumption DEF SumcheckSent, Fields, Roots
<1>5. \A f \in {"z0", "z1"} : SumcheckSent(c, r)[f] = vector(f, 1)
  BY DEF SumcheckSent, Fields
<1>6. SumcheckSent(c, r)["polys"] = vector("polys", cfg.vars)
  BY DEF SumcheckSent, Fields
<1>7. SumcheckSent(c, r) = [f \in Fields |-> SumcheckSent(c, r)[f]]
  BY DEF SumcheckSent
<1>8. "polys" \in Fields /\ "z0" \in Fields /\ "z1" \in Fields
  BY DEF Fields
<1>9. SumcheckSent(c, r) \in [Fields -> SoundItems]
  BY <1>4, <1>7
<1>10. \A f \in {"z0", "z1"} : Len(SumcheckSent(c, r)[f].data) = 1
  <2>1. \A f \in Fields : Len(vector(f, 1).data) = 1
    BY ScalarType
  <2>. QED
    BY <2>1, <1>5, <1>8
<1>11. Len(SumcheckSent(c, r)["polys"].data) = cfg.vars
  BY <1>1, <1>2, <1>6, <1>8
<1>. QED
  BY <1>9, <1>10, <1>11

LEMMA BasicSentType ==
    ASSUME NEW c \in Chains, NEW r \in 1..Len(c)
    PROVE  /\ BasicSent(c, r) \in [Fields -> SoundItems]
           /\ c[r].kind = "Intermediate" =>
                /\ \A f \in {"z0", "z1"} : Len(BasicSent(c, r)[f].data) = 1
                /\ Len(BasicSent(c, r)["polys"].data) = c[r].vars
<1>. DEFINE cfg == c[r]
            w == Width(cfg)
<1>1. /\ cfg.vars \in Nat /\ cfg.openings \in Nat /\ cfg.image \in Nat
      /\ w \in Nat /\ Height(cfg) \in Nat /\ NofBatches \in Nat
  BY ConfigType, NofBatchesAssumption
<1>2. \A f \in Fields : /\ HonestItem(r, f, <<1>>, {}) \in SoundItems
                        /\ Len(HonestItem(r, f, <<1>>, {}).data) = 1
  BY ScalarType
<1>3. \A f \in Fields : /\ HonestItem(r, f, <<cfg.vars>>, {}) \in SoundItems
                        /\ Len(HonestItem(r, f, <<cfg.vars>>, {}).data) = cfg.vars
  BY <1>1, VectorType
<1>4. \A f \in Fields :
        /\ HonestItem(r, f, <<cfg.openings, w>>, LastColumn(cfg.openings, w)) \in SoundItems
        /\ HonestItem(r, f, <<NofBatches, w>>, {}) \in SoundItems
  BY <1>1, MatrixType
<1>5. \A f \in Fields : /\ HonestItem(r, f, <<cfg.image, w, w>>, {}) \in SoundItems
                        /\ HonestItem(r, f, <<Height(cfg), 1, 1>>, {}) \in SoundItems
  BY <1>1, ColumnsType
<1>6. SentCommitment(c, r) \in SoundItems
  BY SentCommitmentType
<1>7. \A f \in Fields : BasicSent(c, r)[f] \in SoundItems
  BY <1>2, <1>3, <1>4, <1>5, <1>6, AbsentType DEF BasicSent, Fields
<1>8. BasicSent(c, r) = [f \in Fields |-> BasicSent(c, r)[f]]
  BY DEF BasicSent
<1>9. BasicSent(c, r) \in [Fields -> SoundItems]
  BY <1>7, <1>8
<1>10. ASSUME c[r].kind = "Intermediate"
       PROVE  /\ \A f \in {"z0", "z1"} : BasicSent(c, r)[f] = HonestItem(r, f, <<1>>, {})
              /\ BasicSent(c, r)["polys"] = HonestItem(r, "polys", <<cfg.vars>>, {})
  BY <1>10 DEF BasicSent, Fields
<1>11. "polys" \in Fields /\ "z0" \in Fields /\ "z1" \in Fields
  BY DEF Fields
<1>12. c[r].kind = "Intermediate" =>
         \A f \in {"z0", "z1"} : Len(BasicSent(c, r)[f].data) = 1
  BY <1>2, <1>10, <1>11
<1>13. c[r].kind = "Intermediate" => Len(BasicSent(c, r)["polys"].data) = cfg.vars
  BY <1>3, <1>10, <1>11
<1>. QED
  BY <1>9, <1>12, <1>13

LEMMA SentType ==
    ASSUME NEW c \in Chains, NEW r \in 1..Len(c)
    PROVE  /\ Sent(c, r) \in [Fields -> SoundItems]
           /\ c[r].kind # "Simple" =>
                /\ \A f \in {"z0", "z1"} : Len(Sent(c, r)[f].data) = 1
                /\ Len(Sent(c, r)["polys"].data) = c[r].vars
<1>1. c[r].kind \in {"Sumcheck", "Intermediate", "Simple"}
  BY ConfigType DEF Kinds
<1>. QED
  BY <1>1, SumcheckSentType, BasicSentType DEF Sent

\* A fine projection sends one constant-term claim per batch, at least one.
LEMMA SentClaimsType ==
    ASSUME NEW c \in Chains, NEW r \in 1..Len(c)
    PROVE  LET claims == Sent(c, r)["constantTermClaims"]
           IN  claims # Absent => Len(claims.data) > 0
<1>1. "constantTermClaims" \in Fields
  BY DEF Fields
<1>2. CASE c[r].kind = "Sumcheck" /\ c[r].projection = "Fine"
  <2>1. Sent(c, r)["constantTermClaims"]
          = HonestItem(r, "constantTermClaims", <<NofBatches>>, {})
    BY <1>1, <1>2 DEF Sent, SumcheckSent
  <2>2. Len(HonestItem(r, "constantTermClaims", <<NofBatches>>, {}).data) = NofBatches
    BY <1>1, NofBatchesAssumption, VectorType
  <2>. QED
    BY <2>1, <2>2, NofBatchesAssumption
<1>3. CASE ~(c[r].kind = "Sumcheck" /\ c[r].projection = "Fine")
  BY <1>1, <1>3 DEF Sent, SumcheckSent, BasicSent
<1>. QED
  BY <1>2, <1>3
=============================================================================

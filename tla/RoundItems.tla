----------------------------- MODULE RoundItems -----------------------------
(***************************************************************************)
(* The items of a chain's round proofs: what an honest prover puts into    *)
(* each round (src/protocol/parties/prover.rs) and what the structural     *)
(* pass of the verifier (check_*_round_shape in parties/verifier.rs) lets  *)
(* through.                                                                *)
(***************************************************************************)
EXTENDS RoundConfig

-----------------------------------------------------------------------------
(***************************************************************************)
(* What an honest prover sends.                                            *)
(***************************************************************************)

\* The commitment a round makes to the next round's witness: the root of a
\* recursive commitment before a sumcheck round, a basic commitment otherwise.
SentCommitment(c, r) ==
    IF ~HasNext(c, r) THEN Absent
    ELSE IF c[r + 1].kind = "Sumcheck"
         THEN HonestItem(r, "next", <<c[r + 1].rank["commitment"]>>, {})
         ELSE HonestItem(r, "next", BasicCommitmentShape(c[r + 1]), PaddingRows(c[r + 1]))

\* The commitment round r absorbs first, made one round above it.
CommitmentOf(c, r) == IF r = 1 THEN RootCommitment(c) ELSE SentCommitment(c, r - 1)

SumcheckSent(c, r) ==
    LET cfg == c[r]
        vector(f, n) == HonestItem(r, f, <<n>>, {})
        when(present, item) == IF present THEN item ELSE Absent
    IN [f \in Fields |->
          CASE f = "opening" -> vector(f, cfg.rank["opening"])
            [] f = "coarse" -> when(cfg.projection = "Coarse", vector(f, cfg.rank["coarse"]))
            [] f \in {"constantTerm", "batched"} ->
                 when(cfg.projection = "Fine", vector(f, cfg.rank[f]))
            [] f = "constantTermClaims" ->
                 when(cfg.projection = "Fine", vector(f, NofBatches))
            [] f = "projectionNorm" -> when(HasProjectionNorm(cfg), vector(f, 1))
            [] f \in {"norm", "mostInnerNorm", "z0", "z1"} -> vector(f, 1)
            [] f = "polys" -> vector(f, cfg.vars)
            [] f = "next" -> SentCommitment(c, r)
            [] OTHER -> Absent]

\* The opening of a basic round travels with its last column zero
\* (skip_last_col), which the verifier recomputes from the claims.
BasicSent(c, r) ==
    LET cfg == c[r]
        w == Width(cfg)
        sumcheck == cfg.kind = "Intermediate"
        when(present, item) == IF present THEN item ELSE Absent
    IN [f \in Fields |->
          CASE f = "opening" ->
                 HonestItem(r, f, <<cfg.openings, w>>, LastColumn(cfg.openings, w))
            [] f = "image" -> HonestItem(r, f, <<cfg.image, w, w>>, {})
            [] f = "batched" -> HonestItem(r, f, <<NofBatches, w>>, {})
            [] f = "folded" -> when(~sumcheck, HonestItem(r, f, <<Height(cfg), 1, 1>>, {}))
            [] f \in {"norm", "z0", "z1"} -> when(sumcheck, HonestItem(r, f, <<1>>, {}))
            [] f = "polys" -> when(sumcheck, HonestItem(r, f, <<cfg.vars>>, {}))
            [] f = "next" -> SentCommitment(c, r)
            [] OTHER -> Absent]

\* The items of the round proof the prover builds for round r.
Sent(c, r) == IF c[r].kind = "Sumcheck" THEN SumcheckSent(c, r) ELSE BasicSent(c, r)

-----------------------------------------------------------------------------
(***************************************************************************)
(* The structural pass over a round, before any of it is read.  Only the   *)
(* entries of a matrix reach the transcript, so a shape is compared as a   *)
(* whole: the dimensions and the number of entries.                        *)
(***************************************************************************)
FitsEntriesOnly(item, shape) == Len(item.data) = Entries(shape)

FitsShape(item, shape) ==
    /\ item.shape = shape
    /\ Len(item.data) = Entries(shape)

ZeroAt(item, positions) == \A i \in positions : item.data[i] = Zero

FitsBasicCommitment(item, cfg) ==
    /\ FitsShape(item, BasicCommitmentShape(cfg))
    /\ ZeroAt(item, PaddingRows(cfg))

\* expect_next_round_commitment
FitsNextCommitment(item, c, r) ==
    IF ~HasNext(c, r) THEN FitsShape(item, NoShape)
    ELSE IF c[r + 1].kind = "Sumcheck"
         THEN FitsShape(item, <<c[r + 1].rank["commitment"]>>)
         ELSE FitsBasicCommitment(item, c[r + 1])

\* expect_polys: one round polynomial per variable, each at most cubic and zero
\* past the coefficients it counts.  An entry is a polynomial's whole coefficient
\* array, which is what the transcript absorbs; a polynomial that counts more
\* coefficients than there are, or leaves one that is not zero uncounted, adds its
\* position to the item's shape.
AnyPolys(item, cfg) == TRUE

FitsPolys(item, cfg) == FitsShape(item, <<cfg.vars>>)

OptionalShape(present, shape) == IF present THEN shape ELSE NoShape

\* check_sumcheck_round_shape, the statement included.
SumcheckShapePasses(c, r, items, statement) ==
    LET cfg == c[r]
        fine == cfg.projection = "Fine"
    IN /\ Len(statement.claims) = cfg.openings
       /\ Len(statement.point) = cfg.rows + cfg.cols
       /\ FitsShape(statement.commitment, <<cfg.rank["commitment"]>>)
       /\ FitsPolys(items["polys"], cfg)
       /\ FitsShape(items["projectionNorm"], OptionalShape(HasProjectionNorm(cfg), <<1>>))
       /\ FitsShape(items["opening"], <<cfg.rank["opening"]>>)
       /\ FitsShape(items["coarse"],
                    OptionalShape(cfg.projection = "Coarse", <<cfg.rank["coarse"]>>))
       /\ \A f \in {"constantTerm", "batched"} :
            FitsShape(items[f], OptionalShape(fine, <<cfg.rank[f]>>))
       /\ FitsShape(items["constantTermClaims"], OptionalShape(fine, <<NofBatches>>))
       /\ FitsNextCommitment(items["next"], c, r)

\* check_intermediate_round_shape and check_simple_round_shape.
BasicShapePasses(c, r, items, statement) ==
    LET cfg == c[r]
        w == Width(cfg)
        claims == Len(statement.claims)
    IN /\ FitsBasicCommitment(statement.commitment, cfg)
       /\ FitsShape(items["opening"], <<claims, w>>)
       /\ ZeroAt(items["opening"], LastColumn(claims, w))
       /\ FitsShape(items["image"], <<cfg.image, w, w>>)
       /\ FitsShape(items["batched"], <<NofBatches, w>>)
       /\ IF cfg.kind = "Simple"
          THEN FitsShape(items["folded"], <<Height(cfg), 1, 1>>)
          ELSE /\ FitsPolys(items["polys"], cfg)
               /\ FitsNextCommitment(items["next"], c, r)

ShapePasses(c, r, items, statement) ==
    IF c[r].kind = "Sumcheck" THEN SumcheckShapePasses(c, r, items, statement)
    ELSE BasicShapePasses(c, r, items, statement)
=============================================================================

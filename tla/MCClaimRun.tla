----------------------------- MODULE MCClaimRun -----------------------------
(***************************************************************************)
(* Witnesses of sixteen elements and statements about one or two regions   *)
(* of them, for TLC.                                                       *)
(***************************************************************************)
EXTENDS ClaimRun

MCEntry(i) == <<(i * i + 3 * i + 1) % 13, (5 * i * i + i + 2) % 13>>
MCCombination == <<3, 7, 5>>
MCChallenges == {2, 5}

MCScalar(i) == (7 * i * i + 2 * i + 3) % 13
MCField(arc, n) == [i \in 1..n |-> Embedded(MCScalar(i + arc))]
MCRing(arc, n) == [i \in 1..n |-> <<MCScalar(i + arc), MCScalar(2 * i + arc)>>]

\* One weight over the whole cube, ring layers; it is not pooled.
MCPoint == EqWeight(1, "ring", MCRing(1, TotalVars))
\* A field weight over the whole cube: pooled, and used in several terms.
MCShared == WeightExpr(EqWeight(2, "field", MCField(2, TotalVars)))
\* Two blocks that do not meet, leading and last variables.
MCRows == WeightExpr(On(EqWeight(3, "field", MCField(3, 2)), High(2)))
MCColumns == WeightExpr(On(TableWeight(4, "ring", MCRing(4, 2^(TotalVars - 2))), Low(TotalVars - 2)))
\* A window in the middle, and a combination of weights inside one.
MCMiddle == WeightExpr(On(TableWeight(5, "ring", MCRing(5, 4)), VarBlock(1, 2)))
MCMerged ==
    WeightExpr(On(CombinationWeight(6,
                    <<Part(<<2, 9>>, <<On(EqWeight(7, "ring", MCRing(7, 1)), VarBlock(1, 1)),
                                       On(TableWeight(8, "field", MCField(8, 2)), Low(1))>>),
                      Part(<<4, 1>>, <<On(Powers(9, 2, 2), VarBlock(2, 2))>>)>>),
                  Low(TotalVars - 1)))

MCTableOn(region, arc) == WeightExpr(On(TableWeight(arc, "ring", MCRing(arc, region.len)), RegionVars(region)))
MCDigits(region) == WeightExpr(On(Powers(10, 2, Log(region.len)), RegionVars(region)))

MCStatements(pushed) ==
    LET a == pushed[1]
        b == pushed[Len(pushed)]
        wa == WitnessIn(a)
        wb == WitnessIn(b)
    IN {\* an opening, and the norm of a region
        <<ProductOf(WeightExpr(MCPoint), Witness), Scale(<<2, 3>>, ProductOf(wa, Conjugate(wa)))>>,
        \* blocks of variables that stack, and an expression that is one leaf
        <<ProductOf(ProductOf(MCRows, MCColumns), Witness), Witness>>,
        \* digits are bits, over a region
        <<ProductOf(ProductOf(MCTableOn(a, 11), wa), DiffOf(wa, ConstantOf(<<5, 5>>)))>>,
        \* digits recomposed, against another region: a difference of regions
        <<DiffOf(ProductOf(MCDigits(a), wa), ProductOf(wb, MCTableOn(b, 12)))>>,
        \* a weight shared by two terms and two statements
        <<SumOf(ProductOf(MCShared, Witness), ProductOf(MCShared, ConjWitness)),
          ProductOf(MCShared, ProductOf(Witness, ConjWitness))>>,
        \* a combination, a middle window, a constant on its own
        <<ProductOf(MCMerged, Conjugate(Scale(<<1, 6>>, wb))), ProductOf(MCMiddle, Witness),
          ConstantOf(<<3, 8>>)>>,
        \* a sum inside a product: the witness is used three times in it
        <<ProductOf(Witness, SumOf(ProductOf(MCMiddle, Witness), Scale(<<4, 4>>, Witness)))>>,
        \* one segment twice, and two segments: more factors than a variable may have
        <<ProductOf(wa, ProductOf(wb, Conjugate(wa)))>>}

\* Blocks on the leading variable and a region, added, under the witness.
MCFlagStatements(pushed) ==
    LET rows == WeightExpr(On(EqWeight(3, "field", MCField(3, 1)), High(1)))
    IN {<<ProductOf(Witness, SumOf(rows, WitnessIn(pushed[Len(pushed)])))>>}
=============================================================================

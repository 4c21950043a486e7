------------------------------ MODULE Verifier ------------------------------
(***************************************************************************)
(* The verifier's walk down the chain: verifier_round, verifier_round_     *)
(* intermediate and verifier_round_simple (src/protocol/parties/           *)
(* verifier.rs) with sumcheck_verifier and intermediate_sumcheck_verifier. *)
(*                                                                         *)
(* An equation the verifier checks is an input of the action that checks   *)
(* it, holds: this module says when each is checked and what depends on    *)
(* it, the composition says which outcomes a received proof may have.      *)
(***************************************************************************)
EXTENDS RoundItems, Transcript

VARIABLES
    received,      \* the decoded proof: the sequence of its round proofs
    vPc,           \* what the verifier does next
    vRound,        \* the round it is in
    vTranscript,   \* its HashWrapper
    vPoints,       \* the current sumcheck's challenges, as indices of draws
    vStatement,    \* what the current round is asked to verify
    vSpent,        \* per round: the spent flag of the round's verifier context
    vLoads,        \* per round: how many proofs that context was loaded with
    vCut,          \* what is left of the boundary capture's cut, 0 without one
    vBoundary,     \* the captured boundaries (at most one)
    vReason        \* why it panicked, "none" while it has not

verifierVars == <<vPc, vRound, vTranscript, vPoints, vStatement, vSpent, vLoads,
                  vCut, vBoundary, vReason>>

VPhases == {"idle", "shape", "open", "fold", "claims", "poly", "close",
            "recurse", "accepted", "rejected"}
Reasons == {"none", "shape", "context", "equation", "chain"}

vCfg == chain[vRound]
vProof == received[vRound]
vItem(f) == vProof.items[f]
VRunning == vPc \notin {"idle", "accepted", "rejected"}

-----------------------------------------------------------------------------
\* A call of verifier_round for the first round.
VerifierStart(fresh, cut, statement) ==
    /\ vPc' = "shape"
    /\ vRound' = 1
    /\ vTranscript' = NewTranscript
    /\ vPoints' = <<>>
    /\ vStatement' = statement
    /\ vSpent' = IF fresh THEN [r \in 1..Len(chain) |-> FALSE] ELSE vSpent
    /\ vLoads' = IF fresh THEN [r \in 1..Len(chain) |-> 0] ELSE vLoads
    /\ vCut' = cut
    /\ vBoundary' = {}
    /\ vReason' = "none"

VReject(reason) ==
    /\ vPc' = "rejected"
    /\ vReason' = reason
    /\ UNCHANGED <<vRound, vTranscript, vPoints, vStatement, vSpent, vLoads, vCut, vBoundary>>

VAdvance(phase) ==
    /\ vPc' = phase
    /\ UNCHANGED <<vRound, vPoints, vStatement, vSpent, vLoads, vCut, vBoundary, vReason>>

CheckShape ==
    /\ vPc = "shape"
    /\ IF ShapePasses(chain, vRound, vProof.items, vStatement)
       THEN VAdvance("open") /\ UNCHANGED vTranscript
       ELSE VReject("shape")

\* sumcheck_verifier refuses a context that has served a proof before it reads
\* anything, and marks any other; it absorbs in the prover's order.
VOpened(t) ==
    Draw(Absorb(Absorb(t, vStatement.commitment), vItem("opening")), "projection")

VSumcheckOpen ==
    /\ vPc = "open"
    /\ vCfg.kind = "Sumcheck"
    /\ ~vSpent[vRound]
    /\ vSpent' = Spend(vSpent, vRound)
    /\ vTranscript' = VOpened(vTranscript)
    /\ vPc' = "fold"
    /\ UNCHANGED <<vRound, vPoints, vStatement, vLoads, vCut, vBoundary, vReason>>

VContextRefused ==
    /\ \/ vPc = "open" /\ vCfg.kind = "Sumcheck"
       \/ vPc = "claims" /\ vCfg.kind = "Intermediate"
    /\ vSpent[vRound]
    /\ VReject("context")

\* Driven by what the proof carries: a coarse root is absorbed if there is one,
\* the fine roots with the batching challenges between them if they are there.
VFolded(t) ==
    LET coarse == Absorb(t, vItem("coarse"))
        projected ==
          IF vItem("constantTerm") # Absent
          THEN Absorb(Draw(Absorb(coarse, vItem("constantTerm")), "batching"),
                      vItem("batched"))
          ELSE coarse
    IN Absorb(Draw(projected, "fold"), vItem("next"))

VSumcheckFold ==
    /\ vPc = "fold"
    /\ vCfg.kind = "Sumcheck"
    /\ vTranscript' = VFolded(vTranscript)
    /\ VAdvance("claims")

\* The flattener, the claims and the batching challenges; then the constant
\* terms must be zero and the claimed norms within their bounds.
VFlattened(t) ==
    IF vCfg.projection = "Coarse" THEN Draw(t, "flattener") ELSE t

\* What a batching drawn one claim too early would do.
VClaimedTooEarly(t) ==
    LET norms == Absorb(Absorb(VFlattened(t), vItem("norm")), vItem("mostInnerNorm"))
        batched == Draw(Draw(norms, "combination"), "toField")
    IN Absorb(Absorb(batched, vItem("projectionNorm")), vItem("constantTermClaims"))

VClaimed(t) ==
    LET norms == Absorb(Absorb(Absorb(VFlattened(t), vItem("norm")), vItem("mostInnerNorm")),
                        vItem("projectionNorm"))
        claims == Absorb(norms, vItem("constantTermClaims"))
    IN Draw(Draw(claims, "combination"), "toField")

VSumcheckClaims(holds) ==
    /\ vPc = "claims"
    /\ vCfg.kind = "Sumcheck"
    /\ IF holds
       THEN /\ vTranscript' = VClaimed(vTranscript)
            /\ vPoints' = <<>>
            /\ vPc' = "poly"
            /\ UNCHANGED <<vRound, vStatement, vSpent, vLoads, vCut, vBoundary, vReason>>
       ELSE VReject("equation")

\* The intermediate and simple rounds up to the batching challenges.
VImaged(t) == Draw(Absorb(VOpened(t), vItem("image")), "batching")

VBasicOpen ==
    /\ vPc = "open"
    /\ vCfg.kind # "Sumcheck"
    /\ vTranscript' = VImaged(vTranscript)
    /\ VAdvance("fold")

\* The batched image's constant terms are checked against the image before the
\* batched image is absorbed, the image's norm after the folds.
VIntermediateFold(holds) ==
    /\ vPc = "fold"
    /\ vCfg.kind = "Intermediate"
    /\ IF holds
       THEN /\ vTranscript' =
                 Absorb(Draw(Absorb(vTranscript, vItem("batched")), "fold"), vItem("next"))
            /\ VAdvance("claims")
       ELSE VReject("equation")

VIntermediateClaims(holds) ==
    /\ vPc = "claims"
    /\ vCfg.kind = "Intermediate"
    /\ ~vSpent[vRound]
    /\ IF holds
       THEN /\ vSpent' = Spend(vSpent, vRound)
            /\ vTranscript' =
                 Draw(Draw(Absorb(vTranscript, vItem("norm")), "combination"), "toField")
            /\ vPoints' = <<>>
            /\ vPc' = "poly"
            /\ UNCHANGED <<vRound, vStatement, vLoads, vCut, vBoundary, vReason>>
       ELSE /\ vSpent' = Spend(vSpent, vRound)
            /\ vPc' = "rejected"
            /\ vReason' = "equation"
            /\ UNCHANGED <<vRound, vTranscript, vPoints, vStatement, vLoads, vCut, vBoundary>>

VSimpleFold ==
    /\ vPc = "fold"
    /\ vCfg.kind = "Simple"
    /\ vTranscript' = Draw(Absorb(vTranscript, vItem("batched")), "fold")
    /\ VAdvance("close")

\* The folded witness is checked in the clear against the folded commitment,
\* opening and projection, its norm and the image's against their bounds.
VSimpleClose(holds) ==
    /\ vPc = "close"
    /\ vCfg.kind = "Simple"
    /\ IF holds
       THEN /\ vPc' = "accepted"
            /\ UNCHANGED <<vRound, vTranscript, vPoints, vStatement, vSpent, vLoads,
                           vCut, vBoundary, vReason>>
       ELSE VReject("equation")

\* One variable: absorb the polynomial, check it against the running claim,
\* draw the challenge.
VRoundPoly(holds) ==
    /\ vPc = "poly"
    /\ Len(vPoints) < Len(vItem("polys").data)
    /\ IF holds
       THEN /\ vTranscript' =
                 Draw(Absorb(vTranscript, Single(vItem("polys"), Len(vPoints) + 1)), "point")
            /\ vPoints' = Append(vPoints, LastDraw(vTranscript) + 1)
            /\ UNCHANGED <<vPc, vRound, vStatement, vSpent, vLoads, vCut, vBoundary, vReason>>
       ELSE VReject("equation")

VClosedWithoutConjugate(t) == Absorb(t, vItem("z0"))

VClosed(t) == Absorb(Absorb(t, vItem("z0")), vItem("z1"))

\* The context is loaded with the round's data and the final evaluation is
\* compared; then z0 and z1 are absorbed and the point is reversed.
VCloseSumcheck(holds) ==
    /\ vPc = "poly"
    /\ Len(vPoints) = Len(vItem("polys").data)
    /\ vLoads' = [vLoads EXCEPT ![vRound] = @ + 1]
    /\ IF holds
       THEN /\ vTranscript' = VClosed(vTranscript)
            /\ vPoints' = Reversed(vPoints)
            /\ vPc' = "recurse"
            /\ UNCHANGED vReason
       ELSE /\ vPc' = "rejected"
            /\ vReason' = "equation"
            /\ UNCHANGED <<vTranscript, vPoints>>
    /\ UNCHANGED <<vRound, vStatement, vSpent, vCut, vBoundary>>

\* What the round leaves to be verified below it.
NextClaimsAsSent == <<Claim(vItem("z0").data[1]), Claim(vItem("z1").data[1])>>

NextClaims ==
    <<Claim(vItem("z0").data[1]), Conjugate(Claim(vItem("z1").data[1]))>>

VAtCut == vCut = 1
VNextIsSumcheck == HasNext(chain, vRound) /\ chain[vRound + 1].kind = "Sumcheck"

VCaptureBoundary ==
    /\ vPc = "recurse"
    /\ VAtCut /\ VNextIsSumcheck
    /\ vBoundary' = {[round |-> vRound + 1,
                      claims |-> NextClaims,
                      commitment |-> vItem("next"),
                      point |-> vPoints,
                      transcript |-> vTranscript]}
    /\ vPc' = "accepted"
    /\ UNCHANGED <<vRound, vTranscript, vPoints, vStatement, vSpent, vLoads, vCut, vReason>>

\* The proof goes on with a round of the kind the configuration asks for; a
\* cut survives a sumcheck round only.
MayDescend ==
    /\ ~VAtCut
    /\ vRound < Len(received)
    /\ HasNext(chain, vRound)
    /\ received[vRound + 1].kind = chain[vRound + 1].kind
    /\ vCut = 0 \/ VNextIsSumcheck

VDescend ==
    /\ vPc = "recurse"
    /\ MayDescend
    /\ vRound' = vRound + 1
    /\ vStatement' = [commitment |-> vItem("next"), claims |-> NextClaims, point |-> vPoints]
    /\ vCut' = Advanced(vCut)
    /\ vPc' = "shape"
    /\ UNCHANGED <<vTranscript, vPoints, vSpent, vLoads, vBoundary, vReason>>

\* The proof ends here: only if the configured chain does, and no cut is left.
MayAcceptAnyEnd == ~VAtCut /\ vRound = Len(received) /\ vCut = 0

MayAccept ==
    /\ ~VAtCut
    /\ vRound = Len(received)
    /\ vCut = 0
    /\ ~HasNext(chain, vRound)

VAcceptChain ==
    /\ vPc = "recurse"
    /\ MayAccept
    /\ vPc' = "accepted"
    /\ UNCHANGED <<vRound, vTranscript, vPoints, vStatement, vSpent, vLoads, vCut,
                   vBoundary, vReason>>

VChainRefused ==
    /\ vPc = "recurse"
    /\ ~(VAtCut /\ VNextIsSumcheck) /\ ~MayDescend /\ ~MayAccept
    /\ VReject("chain")

VerifierStep(holds) ==
    \/ CheckShape
    \/ VSumcheckOpen \/ VContextRefused \/ VSumcheckFold \/ VSumcheckClaims(holds)
    \/ VBasicOpen \/ VIntermediateFold(holds) \/ VIntermediateClaims(holds)
    \/ VSimpleFold \/ VSimpleClose(holds)
    \/ VRoundPoly(holds) \/ VCloseSumcheck(holds)
    \/ VCaptureBoundary \/ VDescend \/ VAcceptChain \/ VChainRefused
=============================================================================

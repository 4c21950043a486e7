------------------------------- MODULE Prover -------------------------------
(***************************************************************************)
(* The prover's walk down the chain: prover_round, prover_round_           *)
(* intermediate and prover_round_simple (src/protocol/parties/prover.rs)   *)
(* with the sumchecks they run (sumchecks/runner.rs and                    *)
(* intermediate_sumchecks/runner.rs).                                      *)
(*                                                                         *)
(* Each action is one stretch of a round: what it absorbs and draws, in    *)
(* the order of the code.  A round's proof is complete when the round      *)
(* closes; the code moves it into the proof on its way back up.            *)
(***************************************************************************)
EXTENDS RoundItems, Transcript

VARIABLES
    pPc,           \* what the prover does next
    pRound,        \* the round it is in
    pTranscript,   \* its HashWrapper
    pPoints,       \* the current sumcheck's challenges, as indices of draws
    pStatement,    \* per round: the evaluation point the round opens at
    pProof,        \* the round proofs built so far
    pSpent,        \* per round: the spent flag of the round's sumcheck context
    pLoads,        \* per round: how many proofs that context was loaded with
    pCut,          \* what is left of the boundary capture's cut, 0 without one
    pBoundary      \* the captured boundaries (at most one)

proverVars == <<pPc, pRound, pTranscript, pPoints, pStatement, pProof, pSpent,
                pLoads, pCut, pBoundary>>

PPhases == {"idle", "open", "fold", "claims", "poly", "recurse", "done", "panicked"}

pCfg == chain[pRound]
PRunning == pPc \notin {"idle", "done", "panicked"}

\* The claims about the root witness are at points the caller chooses.
RootPoint(c) == [i \in 1..(c[1].cols + c[1].rows) |-> 0]

NoContexts(c) == [r \in 1..Len(c) |-> FALSE]
NoLoads(c) == [r \in 1..Len(c) |-> 0]

\* The item of field f the prover sends in the round it is in.
pItem(f) == Sent(chain, pRound)[f]

-----------------------------------------------------------------------------
\* A call of prover_round for the first round, with contexts that are fresh
\* or that an earlier proof has used.
ProverStart(fresh, cut) ==
    /\ pPc' = "open"
    /\ pRound' = 1
    /\ pTranscript' = NewTranscript
    /\ pPoints' = <<>>
    /\ pStatement' = <<RootPoint(chain)>>
    /\ pProof' = <<>>
    /\ pSpent' = IF fresh THEN NoContexts(chain) ELSE pSpent
    /\ pLoads' = IF fresh THEN NoLoads(chain) ELSE pLoads
    /\ pCut' = cut
    /\ pBoundary' = {}

PAdvance(phase) ==
    /\ pPc' = phase
    /\ UNCHANGED <<pRound, pPoints, pStatement, pProof, pSpent, pLoads, pCut, pBoundary>>

\* prover_round up to the projection matrix: the commitment's root, then the
\* root of the committed opening.  The matrix is sampled under every projection.
Opened(t) ==
    Draw(Absorb(Absorb(t, CommitmentOf(chain, pRound)), pItem("opening")), "projection")

SumcheckOpen ==
    /\ pPc = "open"
    /\ pCfg.kind = "Sumcheck"
    /\ pTranscript' = Opened(pTranscript)
    /\ PAdvance("fold")

\* The projection's commitments, the folding challenge, and the commitment to
\* the next witness, which the sumcheck's challenges must bind.
Folded(t) ==
    LET projected ==
          CASE pCfg.projection = "Coarse" -> Absorb(t, pItem("coarse"))
            [] pCfg.projection = "Fine" ->
                 Absorb(Draw(Absorb(t, pItem("constantTerm")), "batching"), pItem("batched"))
            [] OTHER -> t
    IN Absorb(Draw(projected, "fold"), pItem("next"))

SumcheckFold ==
    /\ pPc = "fold"
    /\ pCfg.kind = "Sumcheck"
    /\ pTranscript' = Folded(pTranscript)
    /\ PAdvance("claims")

\* prover_round_intermediate and prover_round_simple up to the batching
\* challenges: everything is sent in the clear, so everything is absorbed.
Imaged(t) == Draw(Absorb(Opened(t), pItem("image")), "batching")

BasicOpen ==
    /\ pPc = "open"
    /\ pCfg.kind # "Sumcheck"
    /\ pTranscript' = Imaged(pTranscript)
    /\ PAdvance("fold")

IntermediateFold ==
    /\ pPc = "fold"
    /\ pCfg.kind = "Intermediate"
    /\ pTranscript' =
         Absorb(Draw(Absorb(pTranscript, pItem("batched")), "fold"), pItem("next"))
    /\ PAdvance("claims")

\* The end of prover_round_simple: the folded witness is sent, not absorbed.
SimpleFold ==
    /\ pPc = "fold"
    /\ pCfg.kind = "Simple"
    /\ pTranscript' = Draw(Absorb(pTranscript, pItem("batched")), "fold")
    /\ pProof' = Append(pProof, [kind |-> "Simple", items |-> Sent(chain, pRound)])
    /\ pPc' = "done"
    /\ UNCHANGED <<pRound, pPoints, pStatement, pSpent, pLoads, pCut, pBoundary>>

\* The start of sumcheck and run_intermediate_sumcheck: a context that has
\* served a proof is refused, any other is spent and loaded.  Every claim that
\* enters the batched combination is absorbed before the combination is drawn.
Claimed(t) ==
    LET flattened == IF pCfg.kind = "Sumcheck" /\ pCfg.projection = "Coarse"
                     THEN Draw(t, "flattener") ELSE t
        norms == Absorb(Absorb(Absorb(flattened, pItem("norm")), pItem("mostInnerNorm")),
                        pItem("projectionNorm"))
        claims == Absorb(norms, pItem("constantTermClaims"))
    IN Draw(Draw(claims, "combination"), "toField")

ProverClaims ==
    /\ pPc = "claims"
    /\ ~pSpent[pRound]
    /\ pSpent' = Spend(pSpent, pRound)
    /\ pLoads' = [pLoads EXCEPT ![pRound] = @ + 1]
    /\ pTranscript' = Claimed(pTranscript)
    /\ pPoints' = <<>>
    /\ pPc' = "poly"
    /\ UNCHANGED <<pRound, pStatement, pProof, pCut, pBoundary>>

ContextRefused ==
    /\ pPc = "claims"
    /\ pSpent[pRound]
    /\ pPc' = "panicked"
    /\ UNCHANGED <<pRound, pTranscript, pPoints, pStatement, pProof, pSpent, pLoads,
                   pCut, pBoundary>>

\* One variable: the round polynomial is absorbed, its challenge drawn.
RoundPoly ==
    /\ pPc = "poly"
    /\ Len(pPoints) < pCfg.vars
    /\ pTranscript' = Draw(Absorb(pTranscript,
                                  Single(pItem("polys"), Len(pPoints) + 1)),
                           "point")
    /\ pPoints' = Append(pPoints, LastDraw(pTranscript) + 1)
    /\ UNCHANGED <<pPc, pRound, pStatement, pProof, pSpent, pLoads, pCut, pBoundary>>

\* The end of the sumcheck: z0 and z1 become the next round's claims and are
\* bound before any later challenge; the point is reversed.
CloseSumcheck ==
    /\ pPc = "poly"
    /\ Len(pPoints) = pCfg.vars
    /\ pTranscript' = Absorb(Absorb(pTranscript, pItem("z0")), pItem("z1"))
    /\ pProof' = Append(pProof, [kind |-> pCfg.kind, items |-> Sent(chain, pRound)])
    /\ pPoints' = Reversed(pPoints)
    /\ pPc' = "recurse"
    /\ UNCHANGED <<pRound, pStatement, pSpent, pLoads, pCut, pBoundary>>

\* The recursion at the end of a round.  A cut that is reached captures the
\* boundary and ends the proof; a cut the chain has no sumcheck round for is a
\* panic, and so is one that is left when the chain ends.
AtCut == pCut = 1
NextIsSumcheck == HasNext(chain, pRound) /\ chain[pRound + 1].kind = "Sumcheck"

CaptureBoundary ==
    /\ pPc = "recurse"
    /\ AtCut /\ NextIsSumcheck
    /\ pBoundary' = {[round |-> pRound + 1,
                      claims |-> <<Claim(pItem("z0").data[1]),
                                   Claim(pItem("z1").data[1])>>,
                      commitment |-> SentCommitment(chain, pRound),
                      point |-> pPoints,
                      transcript |-> pTranscript]}
    /\ pPc' = "done"
    /\ UNCHANGED <<pRound, pTranscript, pPoints, pStatement, pProof, pSpent, pLoads, pCut>>

BoundaryRefused ==
    /\ pPc = "recurse"
    /\ pCut # 0 /\ ~NextIsSumcheck
    /\ pPc' = "panicked"
    /\ UNCHANGED <<pRound, pTranscript, pPoints, pStatement, pProof, pSpent, pLoads,
                   pCut, pBoundary>>

Descend ==
    /\ pPc = "recurse"
    /\ HasNext(chain, pRound)
    /\ ~AtCut
    /\ pCut = 0 \/ NextIsSumcheck
    /\ pRound' = pRound + 1
    /\ pStatement' = Append(pStatement, pPoints)
    /\ pCut' = Advanced(pCut)
    /\ pPc' = "open"
    /\ UNCHANGED <<pTranscript, pPoints, pProof, pSpent, pLoads, pBoundary>>

FinishChain ==
    /\ pPc = "recurse"
    /\ ~HasNext(chain, pRound)
    /\ pCut = 0
    /\ pPc' = "done"
    /\ UNCHANGED <<pRound, pTranscript, pPoints, pStatement, pProof, pSpent, pLoads,
                   pCut, pBoundary>>

ProverStep ==
    \/ SumcheckOpen \/ SumcheckFold
    \/ BasicOpen \/ IntermediateFold \/ SimpleFold
    \/ ProverClaims \/ ContextRefused
    \/ RoundPoly \/ CloseSumcheck
    \/ CaptureBoundary \/ BoundaryRefused \/ Descend \/ FinishChain
=============================================================================

----------------------------- MODULE RoundChain -----------------------------
(***************************************************************************)
(* One prover and one verifier configured with the same chain of rounds,   *)
(* as run, execute_to_boundary and the tests of src/protocol/parties/      *)
(* executor.rs drive them: a session proves, sends the proof through the   *)
(* wire, and verifies.  Contexts may be rebuilt between sessions or used   *)
(* again, either party may ask for a round boundary, and the proof and the *)
(* statement the verifier is given may differ from what the prover built.  *)
(***************************************************************************)
EXTENDS Prover, Verifier

CONSTANTS
    Cuts,         \* the cuts a party may ask for; 0 asks for none
    Faults,       \* the ways a received proof may differ from the sent one
    MaxSessions   \* bound: proofs made and verified in one behaviour

ASSUME CutsAssumption == Cuts \subseteq Nat
ASSUME MaxSessionsAssumption == MaxSessions \in Nat \ {0}

VARIABLES
    sessions,     \* how many sessions have begun
    fault,        \* how this session's delivery differs from what was sent
    asked         \* what this session's calls were given: cuts, fresh contexts

vars == <<chain, proverVars, received, verifierVars, sessions, fault, asked>>

FaultKinds == {"value", "shorter", "longer", "transposed", "missing", "unasked",
               "regrouped", "miscounted", "truncated", "otherKind", "statement"}
ASSUME FaultsAssumption == Faults \subseteq FaultKinds

-----------------------------------------------------------------------------
(***************************************************************************)
(* What may be decoded in place of a sent proof: the cases the tests       *)
(* proof_shapes_follow_the_config and statement_shapes_follow_the_config   *)
(* list, at every field and every round.                                   *)
(***************************************************************************)

\* The optional fields, as the proof's types group them: the fine projection's
\* two roots are one Option.
OptionalGroups == {{"coarse"}, {"constantTerm", "batched"}, {"constantTermClaims"},
                   {"projectionNorm"}, {"next"}}

SingleElements == {"norm", "mostInnerNorm", "z0", "z1"}

Popped(item) ==
    IF Len(item.shape) = 1
    THEN [shape |-> <<item.shape[1] - 1>>, data |-> SubSeq(item.data, 1, Len(item.data) - 1)]
    ELSE [shape |-> [item.shape EXCEPT ![1] = @ - 1],
          data |-> SubSeq(item.data, 1, Len(item.data) - item.shape[2])]

Pushed(item) ==
    IF Len(item.shape) = 1
    THEN [shape |-> <<item.shape[1] + 1>>, data |-> Append(item.data, Foreign)]
    ELSE [shape |-> [item.shape EXCEPT ![1] = @ + 1],
          data |-> item.data \o [i \in 1..item.shape[2] |-> Foreign]]

Transposed(item) ==
    [item EXCEPT !.shape = [@ EXCEPT ![1] = item.shape[2], ![2] = item.shape[1]]]

WithValue(item, i) == [item EXCEPT !.data[i] = Foreign]

\* The round polynomial at position i counts too many of its coefficients, or too
\* few: the same entries are absorbed.
Miscounted(item, i) == [item EXCEPT !.shape = Append(@, i)]

\* The norm of the projection image and the constant-term claims are absorbed
\* back to back: the same entries, grouped the other way.
Regrouped(items) ==
    IF items["projectionNorm"] # Absent
    THEN [items EXCEPT
            !["projectionNorm"] = Absent,
            !["constantTermClaims"] =
               LET moved == items["projectionNorm"].data \o @.data
               IN [shape |-> <<Len(moved)>>, data |-> moved]]
    ELSE [items EXCEPT
            !["projectionNorm"] = Single(items["constantTermClaims"], 1),
            !["constantTermClaims"] =
               [shape |-> <<Len(@.data) - 1>>, data |-> SubSeq(@.data, 2, Len(@.data))]]

OneItem(items, f, item) == [items EXCEPT ![f] = item]

\* The round proofs one fault away from a sent one.
FaultyItems(kind, round, items) ==
    LET present == {f \in Fields : items[f] # Absent}
        sized == {f \in present \ SingleElements : Len(items[f].data) > 0}
    IN CASE kind = "value" ->
              UNION {{OneItem(items, f, WithValue(items[f], i)) : i \in DOMAIN items[f].data}
                       : f \in present}
         [] kind = "shorter" -> {OneItem(items, f, Popped(items[f])) : f \in sized}
         [] kind = "longer" -> {OneItem(items, f, Pushed(items[f])) : f \in sized}
         [] kind = "transposed" ->
              {OneItem(items, f, Transposed(items[f])) :
                 f \in {g \in present : Len(items[g].shape) > 1}}
         [] kind = "missing" ->
              {[f \in Fields |-> IF f \in group THEN Absent ELSE items[f]] :
                 group \in {g \in OptionalGroups : g \subseteq present}}
         [] kind = "unasked" /\ round.kind = "Sumcheck" ->
              {[f \in Fields |-> IF f \in group
                                 THEN [shape |-> <<1>>, data |-> <<Foreign>>] ELSE items[f]] :
                 group \in {g \in OptionalGroups : g \cap present = {}}}
         [] kind = "miscounted" /\ "polys" \in present ->
              {OneItem(items, "polys", Miscounted(items["polys"], i)) : i \in DOMAIN items["polys"].data}
         [] kind = "regrouped" /\ items["constantTermClaims"] # Absent -> {Regrouped(items)}
         [] OTHER -> {}

\* The proofs one fault away from a sent one.
FaultyProofs(kind, sent) ==
    CASE kind = "truncated" -> {SubSeq(sent, 1, n) : n \in 1..(Len(sent) - 1)}
      [] kind = "otherKind" ->
           {[sent EXCEPT ![r].kind = k] : r \in 2..Len(sent), k \in Kinds} \ {sent}
      [] OTHER ->
           UNION {{[sent EXCEPT ![r].items = items] :
                     items \in FaultyItems(kind, chain[r], sent[r].items)} : r \in DOMAIN sent}

HonestStatement ==
    [commitment |-> RootCommitment(chain), claims |-> RootClaims(chain),
     point |-> RootPoint(chain)]

FaultyStatements ==
    {[HonestStatement EXCEPT !.claims = SubSeq(@, 1, Len(@) - 1)],
     [HonestStatement EXCEPT !.claims[1] = Claim(Foreign)],
     [HonestStatement EXCEPT !.commitment = Popped(@)],
     [HonestStatement EXCEPT !.commitment = WithValue(@, 1)]}

-----------------------------------------------------------------------------
Init ==
    /\ chain \in Chains
    /\ pPc = "idle" /\ pRound = 1 /\ pTranscript = NewTranscript /\ pPoints = <<>>
    /\ pStatement = <<>> /\ pProof = <<>>
    /\ pSpent = NoContexts(chain) /\ pLoads = NoLoads(chain)
    /\ pCut = 0 /\ pBoundary = {}
    /\ received = <<>>
    /\ vPc = "idle" /\ vRound = 1 /\ vTranscript = NewTranscript /\ vPoints = <<>>
    /\ vStatement = HonestStatement
    /\ vSpent = NoContexts(chain) /\ vLoads = NoLoads(chain)
    /\ vCut = 0 /\ vBoundary = {} /\ vReason = "none"
    /\ sessions = 0 /\ fault = "none"
    /\ asked = [pFresh |-> TRUE, vFresh |-> TRUE, pCut |-> 0, vCut |-> 0]

\* A session is over when the prover panicked or the verifier returned.
SessionOver ==
    \/ pPc = "idle"
    \/ pPc = "panicked"
    \/ pPc = "done" /\ vPc \in {"accepted", "rejected"}

\* init_sumcheck builds the prover's contexts; a second call may reuse them.
Prove ==
    /\ SessionOver
    /\ sessions < MaxSessions
    /\ \E fresh \in BOOLEAN, cut \in Cuts :
         /\ ProverStart(fresh, cut)
         /\ asked' = [asked EXCEPT !.pFresh = fresh, !.pCut = cut]
    /\ sessions' = sessions + 1
    /\ fault' = "none"
    /\ vPc' = "idle"
    /\ received' = <<>>
    /\ vReason' = "none"
    /\ vBoundary' = {}
    /\ UNCHANGED <<chain, vRound, vTranscript, vPoints, vStatement, vSpent, vLoads, vCut>>

\* The proof is decoded and verification begins, under a cut of its own.
Deliver ==
    /\ pPc = "done" /\ vPc = "idle"
    /\ \E fresh \in BOOLEAN, cut \in Cuts :
       /\ asked' = [asked EXCEPT !.vFresh = fresh, !.vCut = cut]
       /\ \/ /\ received' = pProof
             /\ VerifierStart(fresh, cut, HonestStatement)
             /\ fault' = "none"
          \/ /\ fault' \in Faults \ {"statement"}
             /\ received' \in FaultyProofs(fault', pProof)
             /\ VerifierStart(fresh, cut, HonestStatement)
          \/ /\ "statement" \in Faults
             /\ fault' = "statement"
             /\ received' = pProof
             /\ \E statement \in FaultyStatements : VerifierStart(fresh, cut, statement)
    /\ UNCHANGED <<chain, proverVars, sessions>>

\* The verifier has so far read what the prover sent, about the statement the
\* prover proved, and drawn the prover's challenges.
Faithful ==
    /\ SameChallenges(vTranscript, pTranscript)
    /\ \A r \in 1..vRound : received[r] = pProof[r]
    /\ vStatement.commitment = CommitmentOf(chain, vRound)
    /\ vStatement.claims = TrueClaims(chain, vRound)
    /\ vStatement.point = pStatement[vRound]

\* An equation an honest proof satisfies holds of what the honest prover sent;
\* of anything else it may or may not hold.
Outcomes == IF Faithful THEN {TRUE} ELSE BOOLEAN

ProverWorks ==
    /\ ProverStep
    /\ UNCHANGED <<chain, received, verifierVars, sessions, fault, asked>>

VerifierWorks ==
    /\ VRunning
    /\ \E holds \in Outcomes : VerifierStep(holds)
    /\ UNCHANGED <<chain, proverVars, received, sessions, fault, asked>>

NoMoreSessions ==
    /\ SessionOver
    /\ sessions = MaxSessions
    /\ UNCHANGED vars

Next == Prove \/ Deliver \/ ProverWorks \/ VerifierWorks \/ NoMoreSessions

Spec == Init /\ [][Next]_vars

\* Both parties are sequential programs that run to completion once called.
FairSpec == Spec /\ WF_vars(ProverWorks) /\ WF_vars(Deliver) /\ WF_vars(VerifierWorks)
-----------------------------------------------------------------------------
(***************************************************************************)
(* Properties.                                                             *)
(***************************************************************************)
Labels == {"projection", "batching", "fold", "flattener", "combination", "toField", "point"}
Points == Seq(Nat)
Statements == [commitment : Items, claims : Seq(Claims), point : Points]
Boundaries == [round : Nat, claims : Seq(Claims), commitment : Items, point : Points,
               transcript : Transcripts(Entry, Labels)]

ProverTypeOK ==
    /\ pPc \in PPhases
    /\ pRound \in 1..Len(chain)
    /\ pTranscript \in Transcripts(Entry, Labels)
    /\ pPoints \in Points
    /\ pStatement \in Seq(Points)
    /\ pProof \in Seq(RoundProofs)
    /\ pSpent \in [1..Len(chain) -> BOOLEAN]
    /\ pLoads \in [1..Len(chain) -> Nat]
    /\ pCut \in Nat
    /\ pBoundary \in SUBSET Boundaries

VerifierTypeOK ==
    /\ received \in Seq(RoundProofs)
    /\ vPc \in VPhases /\ vReason \in Reasons
    /\ vRound \in 1..Len(chain)
    /\ vTranscript \in Transcripts(Entry, Labels)
    /\ vPoints \in Points
    /\ vStatement \in Statements
    /\ vSpent \in [1..Len(chain) -> BOOLEAN]
    /\ vLoads \in [1..Len(chain) -> Nat]
    /\ vCut \in Nat
    /\ vBoundary \in SUBSET Boundaries

SessionTypeOK ==
    /\ chain \in Chains
    /\ sessions \in 0..MaxSessions
    /\ fault \in FaultKinds \cup {"none"}
    /\ asked \in [pFresh : BOOLEAN, vFresh : BOOLEAN, pCut : Nat, vCut : Nat]

\* Every variable holds a value of its kind: in particular no cut counts below
\* zero, and no claim is read out of an empty item.
TypeOK == ProverTypeOK /\ VerifierTypeOK /\ SessionTypeOK

\* Completeness (full_chain_verifies, round_trip): a session whose contexts are
\* fresh and whose parties ask for the same cut fails in one case only, a cut
\* the chain has no sumcheck round for.  It needs both parties to absorb and
\* draw the same things in the same order through every kind of round.
HonestSessionSucceeds ==
    /\ pPc = "panicked" /\ asked.pFresh =>
         /\ asked.pCut # 0
         /\ \/ asked.pCut >= Len(chain)
            \/ chain[asked.pCut + 1].kind # "Sumcheck"
    /\ vPc = "rejected" => \/ fault # "none"
                           \/ ~asked.vFresh
                           \/ asked.vCut # asked.pCut

\* a_proof_cut_before_the_last_round_is_rejected and its generalisation: an
\* accepted proof was checked through every round the configuration has, or
\* through exactly the rounds the caller's cut asks for, each of its own kind.
AcceptedRanWholeChain ==
    vPc = "accepted" =>
      /\ IF asked.vCut = 0
         THEN vRound = Len(chain) /\ Len(received) = Len(chain)
         ELSE /\ vRound = asked.vCut
              /\ HasNext(chain, vRound)
              /\ chain[vRound + 1].kind = "Sumcheck"
              /\ vBoundary # {}
      /\ \A r \in 1..vRound : received[r].kind = chain[r].kind

\* The sumcheck variables of the rounds up to r.
VariablesThrough(r) ==
    LET total[i \in 0..r] ==
          IF i = 0 THEN 0
          ELSE total[i - 1] + (IF chain[i].kind = "Simple" THEN 0 ELSE chain[i].vars)
    IN total[r]

\* Every sumcheck of an accepted proof was run to its last variable, each with
\* a challenge of its own: a proof that carries too few round polynomials, or
\* too many, is not accepted, the last round's included.
EveryVariableIsChallenged ==
    vPc = "accepted" =>
      Cardinality({i \in DOMAIN vTranscript.drawn : vTranscript.drawn[i].label = "point"})
        = VariablesThrough(vRound)

\* The doc of expect_shape: the transcript absorbs only entries, so a shape is
\* trusted nowhere.  When a round has been verified and everything absorbed is
\* what the prover absorbed, every field of every verified round is the one
\* the prover sent, shape included: no two groupings of the same entries both
\* get past the structural pass.
TranscriptPinsProof ==
    vPc \in {"recurse", "accepted"} /\ PrefixOf(vTranscript.absorbed, pTranscript.absorbed) =>
        /\ vStatement.commitment = CommitmentOf(chain, vRound)
        /\ \A r \in 1..vRound, f \in Fields \ {"folded"} :
             received[r].items[f] = pProof[r].items[f]

\* Whether the challenges drawn last under a label were drawn after every entry
\* of an item was absorbed.
BoundBy(label, item) ==
    LET drawn == vTranscript.drawn
        draws == {i \in DOMAIN drawn : drawn[i].label = label}
        last == CHOOSE i \in draws : \A j \in draws : j <= i
    IN \A i \in DOMAIN item.data :
         \E j \in 1..drawn[last].at : vTranscript.absorbed[j] = item.data[i]

CommittedFirst == {"opening"}
CommittedBeforeFold == {"opening", "coarse", "constantTerm", "batched", "image"}
CommittedBeforeBatching ==
    CommittedBeforeFold \cup {"next", "norm", "mostInnerNorm", "projectionNorm",
                              "constantTermClaims"}

\* The comments of prover_round and sumcheck: the next commitment is bound
\* before any sumcheck challenge is sampled, and every claim that enters the
\* batched combination before the batching challenges are.  Likewise what a
\* projection or a fold is applied to is fixed before the matrix or the
\* folding challenge is known.
ChallengesBindWhatTheyRandomise ==
    /\ vPc \in {"fold", "claims", "poly"} =>
         /\ BoundBy("projection", vStatement.commitment)
         /\ \A f \in CommittedFirst : BoundBy("projection", vItem(f))
    /\ vPc \in {"claims", "poly"} =>
         \A f \in CommittedBeforeFold : BoundBy("fold", vItem(f))
    /\ vPc = "poly" =>
         /\ \A f \in CommittedBeforeBatching : BoundBy("combination", vItem(f))
         /\ vCfg.kind = "Sumcheck" /\ vCfg.projection = "Coarse" =>
              BoundBy("flattener", vItem("next"))

\* Nothing of an accepted proof is left out of the transcript but the folded
\* witness of the last round, which nothing is drawn after; in particular the
\* claims z0 and z1 a round leaves are bound before the next round draws.
EverythingReadIsBound ==
    vPc \in {"recurse", "accepted"} =>
      \A r \in 1..vRound, f \in Fields \ {"folded"} :
        \A i \in DOMAIN received[r].items[f].data :
          \E j \in DOMAIN vTranscript.absorbed :
            vTranscript.absorbed[j] = received[r].items[f].data[i]

\* a_context_serves_one_proof, at every round of the chain and for both parties:
\* partial evaluation consumes a context, so none is loaded twice.
ContextServesOneProof ==
    \A r \in 1..Len(chain) : pLoads[r] <= 1 /\ vLoads[r] <= 1

\* The statement a captured boundary stands for is the one the round below the
\* cut proves: its claims, its point and its commitment.
StatesRound(b) ==
    /\ b.claims = TrueClaims(chain, b.round)
    /\ b.commitment = CommitmentOf(chain, b.round)

\* round_boundary_extraction: the parties' boundaries at the same cut agree on
\* the round, the commitment, the point and the whole transcript, and the
\* verifier's states the claims of the round below the cut.
BoundariesAgree ==
    fault = "none" =>
      \A p \in pBoundary, v \in vBoundary :
        asked.pCut = asked.vCut =>
          /\ p.round = v.round /\ p.commitment = v.commitment
          /\ p.point = v.point /\ p.transcript = v.transcript
          /\ StatesRound(v)

\* "the boundary statement is the same one any next round proves" (the comment
\* on the cut in prover_round), of the boundary the prover captures.
ProverBoundaryStatesNextRound == \A p \in pBoundary : StatesRound(p)

\* A proof nobody altered, of a chain no party cuts, is accepted in the end.
HonestProofIsAccepted ==
    (vPc = "shape" /\ fault = "none" /\ asked.vFresh /\ asked.vCut = asked.pCut)
      ~> vPc = "accepted"

-----------------------------------------------------------------------------
(***************************************************************************)
(* The chain implements the argument of RoundArgument.                     *)
(***************************************************************************)
ArgumentPhase ==
    IF pPc = "idle" THEN "idle"
    ELSE IF pPc = "panicked" THEN "abandoned"
    ELSE IF vPc = "idle" THEN "proving"
    ELSE IF vPc \in {"accepted", "rejected"} THEN vPc
    ELSE "verifying"

Delivered == pPc = "done" /\ vPc # "idle"

Argument == INSTANCE RoundArgument WITH
    phase <- ArgumentPhase,
    verified <- IF ~Delivered THEN 0 ELSE IF vPc = "accepted" THEN vRound ELSE vRound - 1,
    target <- IF ~Delivered THEN 0 ELSE IF asked.vCut = 0 THEN Len(chain) ELSE asked.vCut,
    intact <- Delivered /\ fault = "none" /\ asked.vFresh /\ asked.vCut = asked.pCut

\* Every behaviour is one of the abstract argument: rounds are verified one
\* after the other, the session is accepted at its target and nowhere else, and
\* only a session that is not intact is rejected.
ImplementsArgument == Argument!Spec
=============================================================================

------------------------------- MODULE MCWire -------------------------------
(***************************************************************************)
(* The wire format: one stream of bits, one of cells, or one of a proof.   *)
(*                                                                         *)
(* Bits: two a byte, four bytes an accumulator, puts of up to four bits.   *)
(* Cells: residues modulo 13, four octaves, a scale of eight, states of    *)
(* eight bits in two lanes, two roles. Proofs: the decoder over a chain    *)
(* with every kind of round and over short ones.                           *)
(***************************************************************************)
EXTENDS BitStream, Octaves, Wire

\* Single bits, a put that fills bytes, a wide one that splits, gamma codes
\* whose mantissa is wide, lengths of one to three groups and too long.
MCWrites ==
    {<<"bits", 0, 1>>, <<"bits", 1, 1>>, <<"bits", 5, 3>>, <<"bits", 38, 6>>,
     <<"gamma", 1, 0>>, <<"gamma", 5, 0>>, <<"gamma", 44, 0>>,
     <<"length", 0, 0>>, <<"length", 3, 0>>, <<"length", 4, 0>>, <<"length", 16, 0>>,
     <<"length", 17, 0>>}

MCLogCost == <<48, 32, 23, 16, 11, 7, 3, 0>>

\* One role, two in turn.
MCRoleSequences == {<<1, 1, 1, 1>>, <<1, 2, 1, 2, 1>>}

\* Zero, the ends of an octave, the largest magnitude of each sign.
MCValues == {0, 1, 12, 7}

\* Among them counts whose share of the scale rounds to nothing.
MCSampleCounts == {0, 1, 3, 8, 50}

MCRound(kind, projection, exact, openings, cols, rows, variables) ==
    [kind |-> kind, projection |-> projection, exactProjectionNorm |-> exact,
     rank |-> [commitment |-> 2, opening |-> 1, coarse |-> 2, constantTerm |-> 1,
               batched |-> 2],
     openings |-> openings, rows |-> rows, cols |-> cols, vars |-> variables, image |-> 1]

MCBasic(kind, cols, rows, variables) ==
    [MCRound(kind, "Fine", FALSE, 2, cols, rows, variables) EXCEPT !.rank["commitment"] = 3]

\* The shape of the configured parameter sets.
MCLong ==
    << MCRound("Sumcheck", "Coarse", TRUE, 1, 1, 1, 2),
       MCRound("Sumcheck", "Fine", TRUE, 2, 1, 1, 2),
       MCBasic("Intermediate", 1, 1, 1),
       MCBasic("Simple", 1, 0, 0) >>

\* A fine projection above a simple round.
MCShort ==
    << MCRound("Sumcheck", "Fine", FALSE, 2, 1, 1, 1),
       MCBasic("Simple", 1, 0, 0) >>

\* One round without a projection.
MCSkip == << MCRound("Sumcheck", "Skip", FALSE, 1, 1, 1, 2) >>

MCChains == {MCLong, MCShort, MCSkip}
MCOdd == [c \in MCChains |-> IF c = MCLong THEN 1 ELSE 2]

-----------------------------------------------------------------------------
\* The parts that are not called. Of a proof, none of the stream is read.
NoBits ==
    /\ stage = "idle" /\ written = <<>> /\ writer = <<>> /\ bytes = <<>>
    /\ altered = FALSE /\ reader = <<>> /\ read = <<>>

NoCells ==
    /\ phase = "idle" /\ roles = <<>> /\ pushed = <<>> /\ stream = <<>> /\ honest = FALSE
    /\ lanes = <<>> /\ pos = 0 /\ rawPos = 0 /\ index = 0 /\ filled = <<>>

NoProof ==
    /\ chain = MCSkip /\ source = HonestProof(MCSkip)
    /\ shape = <<>> /\ cells = <<>> /\ odd = 0
    /\ out = <<[kind |-> source[1].kind, items |-> NoItems]>>
    /\ todo = DecoderFields(source[1].kind)
    /\ left = Allowance.cells /\ roundsLeft = Allowance.rounds - 1 /\ allocated = 0
    /\ status = "reading"

Init ==
    \/ BitInit /\ NoCells /\ NoProof
    \/ NoBits /\ OctavesInit /\ NoProof
    \/ NoBits /\ NoCells /\ WireInit

Next ==
    \/ stage # "idle" /\ BitNext /\ UNCHANGED <<octaveVars, wireVars>>
    \/ phase # "idle" /\ OctavesNext /\ UNCHANGED <<bitVars, wireVars>>
    \/ stage = "idle" /\ phase = "idle" /\ WireNext /\ UNCHANGED <<bitVars, octaveVars>>

Spec == Init /\ [][Next]_<<bitVars, octaveVars, wireVars>>
=============================================================================

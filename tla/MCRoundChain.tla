---------------------------- MODULE MCRoundChain ----------------------------
(***************************************************************************)
(* Chains for TLC.  Ranks differ from field to field, so that a length     *)
(* compared with the wrong rank shows; witnesses are 1 or 2 entries wide.  *)
(***************************************************************************)
EXTENDS RoundChain

MCRound(kind, projection, exact, openings, cols, rows, variables) ==
    [kind |-> kind, projection |-> projection, exactProjectionNorm |-> exact,
     rank |-> [commitment |-> 2, opening |-> 1, coarse |-> 2, constantTerm |-> 1,
               batched |-> 2],
     openings |-> openings, rows |-> rows, cols |-> cols, vars |-> variables, image |-> 1]

\* A basic round: three key rows padded to four.
MCBasic(kind, cols, rows, variables) ==
    [MCRound(kind, "Fine", FALSE, 2, cols, rows, variables) EXCEPT !.rank["commitment"] = 3]

\* The shape of the configured parameter sets: coarse, then fine projections
\* with and without the exact norm, an intermediate and the simple round.
MCLong ==
    << MCRound("Sumcheck", "Coarse", TRUE, 1, 1, 1, 2),
       MCRound("Sumcheck", "Fine", TRUE, 2, 1, 1, 2),
       MCBasic("Intermediate", 1, 1, 1),
       MCBasic("Simple", 1, 0, 0) >>

\* The test configurations: three openings, one sumcheck round, a simple one;
\* and a chain that ends with a sumcheck round without a projection.
MCShort ==
    << MCRound("Sumcheck", "Fine", FALSE, 3, 1, 1, 1),
       MCBasic("Simple", 1, 0, 0) >>

MCSumcheckOnly ==
    << MCRound("Sumcheck", "Coarse", FALSE, 1, 1, 1, 2),
       MCRound("Sumcheck", "Skip", TRUE, 2, 0, 2, 1) >>

MCChains == {MCLong, MCShort, MCSumcheckOnly}
MCAllFaults == FaultKinds
MCNoFaults == {}
MCCuts == {0, 1, 2, 3}
MCNoCuts == {0}
=============================================================================

--------------------------- MODULE MCSumcheckRun ---------------------------
(***************************************************************************)
(* Rounds of sixteen or thirty-two positions for TLC.  What is drawn at    *)
(* random in the code is a fixed mixture of the indices it is drawn at.    *)
(***************************************************************************)
EXTENDS SumcheckRun

MCModulus == 13
MCChunk == 4

Label(name) ==
    CHOOSE k \in 1..12 :
      <<"witness", "folding", "matrix", "key", "inner", "outer", "flatter", "c0", "c1", "c2",
        "gamma", "slot">>[k] = name

MCDraw(seed, name, i, j) ==
    LET a == (Label(name) * 17 + i * 5 + j * 11 + seed * 29 + 3) % 101
        b == (a * a + i * j * 7 + Label(name) * 3) % 97
    IN 1 + ((b * b * b + a) % (Modulus - 1))

MCLevel(c, r) == [chunks |-> c, rank |-> r]

MCTrees(commitment, opening, coarse, constantTerm, batched) ==
    [t \in Trees |->
       CASE t = "commitment" -> commitment
         [] t = "opening" -> opening
         [] t = "coarse" -> coarse
         [] t = "constantTerm" -> constantTerm
         [] t = "batched" -> batched]

MCRound(height, rank, openings, chunks, batches, trees) ==
    [height |-> height, width |-> 2, ratio |-> 1, basicRank |-> rank, openings |-> openings,
     chunks |-> chunks, batches |-> batches, nextWidth |-> 2, tree |-> trees]

MCFlat == <<MCLevel(1, 1)>>

\* 6 + 2 + 4 of 16 positions: blocks of two sizes, a tail of zeros.
MCSkip == MCRound(2, 1, 2, 3, 1, MCTrees(MCFlat, MCFlat, <<>>, <<>>, <<>>))
\* 4 + 2 * 2 + 2 + 2: two rows and two levels, the second rebuilt from two parts.
MCDeep == MCRound(2, 2, 1, 2, 1,
                  MCTrees(<<MCLevel(1, 2), MCLevel(1, 1)>>, MCFlat, <<>>, <<>>, <<>>))
\* 8 + 2 + 2 + 8 of 32, the image in two blocks of rows.
MCCoarse == MCRound(4, 1, 1, 2, 1, MCTrees(MCFlat, MCFlat, MCFlat, <<>>, <<>>))
\* 4 + 2 + 2 + 4 + 4, and 8 + 2 + 2 + 8 + 3 * 2: batches in one row and in three.
MCFine == MCRound(2, 1, 1, 2, 2, MCTrees(MCFlat, MCFlat, <<>>, MCFlat, MCFlat))
MCFineRows == MCRound(4, 1, 1, 2, 3, MCTrees(MCFlat, MCFlat, <<>>, MCFlat, MCFlat))

MCRounds == {MCSkip, MCDeep, MCCoarse, MCFine, MCFineRows}
MCChallenges == {2, 5}
=============================================================================

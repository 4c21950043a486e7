------------------------------ MODULE MCLayout ------------------------------
(***************************************************************************)
(* Rounds for TLC: every combination of small sizes, so that components    *)
(* are and are not powers of two, trees have one or two levels, and the    *)
(* composed length is met exactly, nearly and by little more than half.    *)
(***************************************************************************)
EXTENDS Layout

MCLevel(c, r) == [chunks |-> c, rank |-> r]

MCTree(chunks, deep) ==
    IF deep THEN <<MCLevel(chunks, 2), MCLevel(3, 1)>> ELSE <<MCLevel(chunks, 1)>>

MCRound(basicRank, openings, chunks, width, treeChunks, deep, projection, batches) ==
    [height |-> 2, width |-> width, ratio |-> 2, basicRank |-> basicRank,
     openings |-> openings, chunks |-> chunks, batches |-> batches, nextWidth |-> 8,
     tree |-> [t \in Trees |->
       CASE t = "commitment" -> MCTree(treeChunks, deep)
         [] t = "opening" -> MCTree(2, FALSE)
         [] t = "coarse" /\ projection = "Coarse" -> MCTree(treeChunks, deep)
         [] t = "constantTerm" /\ projection = "Fine" -> MCTree(2, FALSE)
         [] t = "batched" /\ projection = "Fine" -> MCTree(treeChunks, deep)
         [] OTHER -> <<>>]]

MCProjections == {<<"Skip", 2>>, <<"Coarse", 2>>, <<"Fine", 2>>, <<"Fine", 3>>}

\* Digits of the folded witness, and columns: one column makes rows of one position.
MCFolded == {<<2, 1>>, <<3, 2>>}

MCRounds ==
    {MCRound(r, o, cw[1], cw[2], tc, deep, p[1], p[2]) :
       r \in {1, 3}, o \in {1, 3}, cw \in MCFolded, tc \in {1, 3}, deep \in BOOLEAN,
       p \in MCProjections}
=============================================================================

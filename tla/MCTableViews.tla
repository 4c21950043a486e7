---------------------------- MODULE MCTableViews ----------------------------
(***************************************************************************)
(* Witnesses of one to sixteen elements, with and without a zero tail, for *)
(* TLC: too short to be borrowed, borrowed once, and shared for one and    *)
(* for two folds.  One challenge is its own conjugate, one is not.         *)
(***************************************************************************)
EXTENDS TableViews

MCWitness(length, used) ==
    [i \in 1..length |-> IF i <= used THEN <<(i * i + 1) % 5, (2 * i + 3) % 5>> ELSE Zero]

MCWitnesses ==
    {MCWitness(1, 1), MCWitness(2, 1), MCWitness(4, 4), MCWitness(8, 5), MCWitness(8, 8),
     MCWitness(16, 0), MCWitness(16, 6), MCWitness(16, 11)}

MCChallenges == {<<2, 2>>, <<4, 4>>, <<3, 1>>}
=============================================================================

----------------------------- MODULE MCProducts -----------------------------
(***************************************************************************)
(* Elementwise products modulo a prime in the upper half of the range that *)
(* the product functions assert, in words of fourteen bits with a          *)
(* multiplier of ten (64 and 52 in the code).                              *)
(*                                                                         *)
(* 4007 is a prime below 2^12, a quarter of the words (2^62 there), whose  *)
(* reciprocal, 2^24 divided by it, is rounded down by almost a unit.       *)
(***************************************************************************)
EXTENDS Eltwise

\* The largest residues, and small ones.
MCInputs(op, q) ==
    LET near == 0..2 \cup (q - 12)..(q - 1)
    IN IF op = "mult" THEN near \X near \X {0} ELSE {}

MCNeighbours(op, q) == {<<0, 0, 0>>}
=============================================================================

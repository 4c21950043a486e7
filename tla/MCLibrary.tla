----------------------------- MODULE MCLibrary -----------------------------
(***************************************************************************)
(* One call of the transform library, of any of its parts, in words of     *)
(* eighteen bits with a multiplier of twelve (64 and 52 in the code).      *)
(*                                                                         *)
(* Six bits of slack make a block of 16 terms the longest the code's own   *)
(* rule allows (twelve bits and 1024 terms there). Modulus 97 takes the    *)
(* 32-bit path of the transforms, 769 the 64-bit one, near the limit of    *)
(* IFMA; degree 64 recurses twice above the base of 16. Slots: 1021 is the *)
(* largest prime in the range of the IFMA kernels, 13 lies below it and    *)
(* 1033 above. Elements: 521 and 1021 are in the range of the code's own   *)
(* moduli (an eighth to a quarter of the multiplier's range), where every  *)
(* word is reduced; 2039 is the largest prime below half of the range,     *)
(* 32749 lies just below an eighth of the words and 65521 just below a     *)
(* quarter. 13 stands for the short moduli of the library's tests: the     *)
(* estimate of the wide reduction is one off at most for words up to an    *)
(* eighth of the multiplier's range times the power of two above the       *)
(* modulus.                                                                *)
(***************************************************************************)
EXTENDS RootSearch, Ntt, SlotProduct, Eltwise

MCInstances == {[degree |-> 8, modulus |-> 17], [degree |-> 4, modulus |-> 41],
                [degree |-> 2, modulus |-> 65521]}

MCTransforms == <<[degree |-> 16, modulus |-> 97, root |-> 19],
                  [degree |-> 64, modulus |-> 769, root |-> 5]>>

\* One place alone, and runs of alternating length.
MCPatterns(degree) ==
    IF degree = 16
    THEN {{5}, {15}} \cup {{i \in 0..31 : (i \div 2^k) % 2 = 0} : k \in {0, 2, 4}}
    ELSE {{37}, {i \in 0..127 : (i \div 4) % 2 = 0}}

\* Two slots of each ring, the roots of Y^2 + 1.
MCZeta ==
    [q \in SlotModuli |-> LET z == CASE q = 13 -> 5 [] q = 1021 -> 374 [] q = 1033 -> 678
                          IN [g \in 0..1 |-> IF g = 0 THEN z ELSE q - z]]

\* Every coefficient the largest; the largest among zeros; mixed ones.
MCContent(contents, side, i, q) ==
    CASE contents = "largest" -> q - 1
      [] contents = "sparse"  -> IF (i + side) % 3 = 0 THEN q - 1 ELSE 0
      [] OTHER                -> (((5 * i) + 3) * (i + side) + (7 * side)) % q

\* Words beside a multiple of the modulus or a power of two.
Near(q) ==
    UNION {LET multiple == (2^k \div q) * q
           IN {2^k - 1, 2^k, multiple, multiple + q - 1} : k \in 0..(WordBits - 1)}
    \cup {Word - 1, Word - 1 - (Word % q)}

\* Second operands that leave products beside a multiple of the modulus.
Corners(q, x) ==
    {0, 1, q - 1} \cup IF x % q = 0 THEN {} ELSE {InverseMod(x, q), q - InverseMod(x, q)}

MCInputs(op, q) ==
    IF op = "reduce" THEN (Near(q) \cap ReducibleWords(q)) \X {0} \X {0}
    ELSE UNION {{x} \X Corners(q, x) \X (IF op = "fma" THEN {0, q - 1} ELSE {0}) :
                  x \in {y \in Near(q) : y < q}}

MCNeighbours(op, q) ==
    {<<0, 0, 0>>} \cup
    IF op = "reduce" THEN {<<Lesser(Word, 2^(CeilLog(q) + IfmaBits - 3)) - 1, 0, 0>>} ELSE {}

-----------------------------------------------------------------------------
\* The parts of the library that are not called.
NoSearch == wanted = <<>> /\ search = <<>>
NoTransform == call = <<>> /\ input = <<>> /\ data = <<>> /\ pending = <<>>
NoSlots == /\ job = <<>> /\ first = 0 /\ start = 0
           /\ acc = <<>> /\ results = <<>> /\ done = FALSE
NoElements == request = <<>> /\ next = 0 /\ result = <<>>

Init ==
    \/ RootInit /\ NoTransform /\ NoSlots /\ NoElements
    \/ NoSearch /\ NttInit /\ NoSlots /\ NoElements
    \/ NoSearch /\ NoTransform /\ SlotInit /\ NoElements
    \/ NoSearch /\ NoTransform /\ NoSlots /\ EltwiseInit

Next ==
    \/ wanted # <<>> /\ RootNext /\ UNCHANGED <<nttVars, slotVars, eltwiseVars>>
    \/ call # <<>> /\ NttNext /\ UNCHANGED <<rootVars, slotVars, eltwiseVars>>
    \/ job # <<>> /\ SlotNext /\ UNCHANGED <<rootVars, nttVars, eltwiseVars>>
    \/ request # <<>> /\ EltwiseNext /\ UNCHANGED <<rootVars, nttVars, slotVars>>

Spec == Init /\ [][Next]_<<rootVars, nttVars, slotVars, eltwiseVars>>

\* What each part promises, of a call to it.
SearchedRootsAgree == wanted # <<>> => RootsAgree
CallPassesStayInBounds == call # <<>> => PassesStayInBounds
CallTransformIsExact == call # <<>> => TransformIsExact
CalledSlotsAreExact == job # <<>> => SlotsAreExact
=============================================================================

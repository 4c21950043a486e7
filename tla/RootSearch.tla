----------------------------- MODULE RootSearch -----------------------------
(***************************************************************************)
(* The search of the root of unity a transform is built on                 *)
(* (src/incomplete-rexl/src/number_theory.rs). It starts from a random     *)
(* draw, in every process for itself: prover and verifier compute the same *)
(* transform only because the walk from whatever was drawn ends at the     *)
(* least root.                                                             *)
(***************************************************************************)
EXTENDS NumberTheory

CONSTANTS
    Instances,  \* the transforms a process may build: [degree, modulus]
    MaxDraws,   \* 200 in generate_primitive_root
    Drawable,   \* bound: the residues drawn are that near either end
    Parties     \* the processes that build the same transform

ASSUME RootSearchAssumption ==
    /\ MaxDraws \in Nat \ {0}
    /\ Drawable \in Nat
    /\ \A c \in Instances : /\ c.modulus % (2 * c.degree) = 1
                            /\ c.modulus >= 4 /\ 4 * c.modulus < Word

-----------------------------------------------------------------------------
(***************************************************************************)
(* Ntt::new in each party: draws until a primitive root of order 2 n is    *)
(* met, then the walk through its odd powers, the least one kept.          *)
(***************************************************************************)
VARIABLES
    wanted,  \* the transform the parties build
    search   \* per party: [phase, draws, current, square, least, steps]

rootVars == <<wanted, search>>

\* phase: "draw", "walk", "found" or "panicked".
Fresh == [phase |-> "draw", draws |-> 0, current |-> 0, square |-> 0,
          least |-> 0, steps |-> 0]

RootInit ==
    /\ wanted \in Instances
    /\ search = [p \in Parties |-> Fresh]

Order == 2 * wanted.degree

\* generate_primitive_root: a random residue, raised to the quotient's order.
Draw(p) ==
    /\ search[p].phase = "draw" /\ search[p].draws < MaxDraws
    /\ \E drawn \in {x \in 0..(wanted.modulus - 1) :
                       x < Drawable \/ x >= wanted.modulus - Drawable} :
         LET q == wanted.modulus
             root == PowMod(drawn, (q - 1) \div Order, q)
         IN search' = [search EXCEPT ![p] =
              IF IsPrimitiveRoot(root, Order, q)
              THEN [phase |-> "walk", draws |-> search[p].draws + 1, current |-> root,
                    square |-> MultiplyMod(root, root, q), least |-> root, steps |-> 0]
              ELSE [search[p] EXCEPT !.draws = search[p].draws + 1]]
    /\ UNCHANGED wanted

NoRootFound(p) ==
    /\ search[p].phase = "draw" /\ search[p].draws = MaxDraws
    /\ search' = [search EXCEPT ![p].phase = "panicked"]
    /\ UNCHANGED wanted

\* minimal_primitive_root: one turn of the loop over the odd powers.
Walk(p) ==
    /\ search[p].phase = "walk" /\ search[p].steps < Order
    /\ search' = [search EXCEPT ![p] =
         [search[p] EXCEPT
            !.least = Lesser(search[p].least, search[p].current),
            !.current = MultiplyMod(search[p].current, search[p].square, wanted.modulus),
            !.steps = search[p].steps + 1]]
    /\ UNCHANGED wanted

\* Mutant of WalkDone: half the loop, as if the order were the degree.
WalkDoneHalfway(p) ==
    /\ search[p].phase = "walk" /\ search[p].steps = wanted.degree \div 2
    /\ search' = [search EXCEPT ![p].phase = "found"]
    /\ UNCHANGED wanted

WalkDone(p) ==
    /\ search[p].phase = "walk" /\ search[p].steps = Order
    /\ search' = [search EXCEPT ![p].phase = "found"]
    /\ UNCHANGED wanted

SearchFinished ==
    /\ \A p \in Parties : search[p].phase \in {"found", "panicked"}
    /\ UNCHANGED rootVars

RootNext ==
    \/ \E p \in Parties : Draw(p) \/ NoRootFound(p) \/ Walk(p) \/ WalkDone(p)
    \/ SearchFinished

RootSpec == RootInit /\ [][RootNext]_rootVars

-----------------------------------------------------------------------------
\* Residues and powers by repeated multiplication, to compare with.
Residues == 0..(wanted.modulus - 1)

TruePower(x, k) ==
    LET power[i \in Nat] == IF i = 0 THEN 1 ELSE (power[i - 1] * x) % wanted.modulus
    IN power[k]

TrueRoots == {x \in Residues : TruePower(x, wanted.degree) = wanted.modulus - 1}

\* Two processes that found a root found the same one, the least of all
\* primitive roots, whatever they drew: what makes the transform of a prover
\* and of a verifier, each built at its first use, the same permutation of the
\* slots (minimal_primitive_root over all n odd powers).
RootsAgree ==
    \A p \in Parties : search[p].phase = "found" =>
        /\ search[p].least \in TrueRoots
        /\ \A x \in TrueRoots : search[p].least <= x
=============================================================================

---------------------------- MODULE RoundConfig ----------------------------
(***************************************************************************)
(* The configuration of a chain of rounds (src/protocol/config.rs) and the *)
(* data a round proof is made of.                                          *)
(*                                                                         *)
(* A chain is a sequence of round configs: Sumcheck rounds, then possibly  *)
(* Intermediate rounds and one Simple round.  The same chain is known to   *)
(* both parties.  An item of a proof is its shape and its entries; an      *)
(* entry is named by the round and the field an honest prover puts it in.  *)
(***************************************************************************)
EXTENDS Integers, Sequences, FiniteSets

CONSTANTS
    Chains,      \* the chains of round configs considered
    NofBatches   \* NOF_BATCHES, the batched projections of a fine projection

Kinds == {"Sumcheck", "Intermediate", "Simple"}
Projections == {"Coarse", "Fine", "Skip"}
Roots == {"commitment", "opening", "coarse", "constantTerm", "batched"}

VARIABLE
    chain        \* the configured chain, common to both parties

\* SumcheckConfig, IntermediateConfig and SimpleConfig.  rank gives the length
\* of each recursive commitment's root, and for a round with a basic commitment
\* rank["commitment"] is basic_commitment_rank.  rows and cols are the logarithms
\* of the witness's height and width, vars the number of sumcheck variables,
\* image the height of the projection image a basic round sends.
RoundConfigs ==
    [kind : Kinds, projection : Projections, exactProjectionNorm : BOOLEAN,
     rank : [Roots -> Nat \ {0}], openings : Nat \ {0},
     rows : Nat, cols : Nat, vars : Nat, image : Nat]

Last(c) == Len(c)
HasNext(c, r) == r < Last(c)
Width(cfg) == 2^cfg.cols
Height(cfg) == 2^cfg.rows

NextPowerOfTwo(n) ==
    CHOOSE p \in {2^k : k \in 0..n} : p >= n /\ \A k \in 0..n : 2^k >= n => p <= 2^k

\* Which round may follow which, and the sizes that tie a round to the next:
\* the packed vector of a round is the next round's witness, and every round
\* below the first proves the two claims the round above it leaves.
Follows(cfg, nxt) ==
    /\ \/ cfg.kind = "Sumcheck"
       \/ cfg.kind = "Intermediate" /\ nxt.kind # "Sumcheck"
    /\ cfg.vars = nxt.rows + nxt.cols
    /\ nxt.openings = 2

WellFormed(c) ==
    /\ c \in Seq(RoundConfigs)
    /\ c # <<>>
    /\ c[1].kind = "Sumcheck"
    /\ c[Last(c)].kind # "Intermediate"
    /\ \A r \in 1..Len(c) : HasNext(c, r) => Follows(c[r], c[r + 1])

ASSUME ChainsAssumption == \A c \in Chains : WellFormed(c)

\* Powers of two are numbers: a fact of arithmetic the provers do not know.
ASSUME SizesAssumption ==
    \A c \in Chains : \A r \in 1..Len(c) :
      /\ Width(c[r]) \in Nat \ {0}
      /\ Height(c[r]) \in Nat \ {0}
      /\ NextPowerOfTwo(c[r].rank["commitment"]) \in Nat \ {0}
ASSUME NofBatchesAssumption == NofBatches \in Nat \ {0}

-----------------------------------------------------------------------------
(***************************************************************************)
(* Items, entries and round proofs.                                        *)
(***************************************************************************)
Fields == {"opening", "coarse", "constantTerm", "batched", "norm", "mostInnerNorm",
           "projectionNorm", "constantTermClaims", "polys", "z0", "z1", "next",
           "image", "folded"}

\* <<round, field, position>>.  Round 0 holds the statement of the first round.
Entry == Nat \X (Fields \cup {"zero", "foreign", "claim"}) \X Nat
Zero == <<0, "zero", 0>>
Foreign == <<0, "foreign", 0>>      \* any value other than the one sent

NoShape == <<>>                     \* an Option that is None
Absent == [shape |-> NoShape, data |-> <<>>]
Items == [shape : Seq(Nat), data : Seq(Entry)]

\* A vector has one dimension, a horizontal matrix a height and a width, a
\* vertical matrix a height, a width and its used columns.
Entries(shape) ==
    CASE Len(shape) = 0 -> 0
      [] Len(shape) = 1 -> shape[1]
      [] OTHER -> shape[1] * shape[2]

\* An honestly built item; pads are the positions that are zero by construction.
HonestItem(r, f, shape, pads) ==
    [shape |-> shape,
     data |-> [i \in 1..Entries(shape) |-> IF i \in pads THEN Zero ELSE <<r, f, i>>]]

Single(item, i) == [shape |-> <<1>>, data |-> <<item.data[i]>>]

\* A basic commitment pads its key rows with zero rows to a power of two.
BasicCommitmentShape(cfg) == <<NextPowerOfTwo(cfg.rank["commitment"]), Width(cfg)>>
PaddingRows(cfg) ==
    (cfg.rank["commitment"] * Width(cfg) + 1)..Entries(BasicCommitmentShape(cfg))

\* The positions of the last column of a matrix stored by rows.
LastColumn(rows, width) == {i * width : i \in 1..rows}

\* projection_norm_scope: the round claims the norm of its projection image.
HasProjectionNorm(cfg) == cfg.exactProjectionNorm /\ cfg.projection # "Skip"

\* The statement's root commitment, the item named <<0, "next">>.
RootCommitment(c) == HonestItem(0, "next", <<c[1].rank["commitment"]>>, {})

\* A sumcheck's challenges come in the order they are drawn, the evaluation
\* point lists the variables the other way round.
Reversed(s) == [i \in 1..Len(s) |-> s[Len(s) + 1 - i]]

\* std::mem::replace(&mut context.spent, true)
LeftUnspent(spent, r) == spent

Spend(spent, r) == [spent EXCEPT ![r] = TRUE]

\* BoundaryCapture::advance: a cut counts down to the round it is reached in;
\* 0 stands for no capture, and stays so.
AdvancedUnguarded(cut) == cut - 1

Advanced(cut) == IF cut = 0 THEN 0 ELSE cut - 1

RoundProofs == [kind : Kinds, items : [Fields -> Items]]

\* A claim about an evaluation: an entry, or the conjugate of one.
Claims == [of : Entry, conjugated : BOOLEAN]
Claim(e) == [of |-> e, conjugated |-> FALSE]
Conjugate(x) == [x EXCEPT !.conjugated = ~@]
RootClaims(c) == [i \in 1..c[1].openings |-> Claim(<<0, "claim", i>>)]

\* What holds of the witness of round r > 1 at the two points the sumcheck of
\* round r - 1 leaves, the point and its conjugate: z1 evaluates the conjugated
\* witness, so the claim at the conjugate point is the conjugate of z1.
TrueClaims(c, r) ==
    IF r = 1 THEN RootClaims(c)
    ELSE <<Claim(<<r - 1, "z0", 1>>), Conjugate(Claim(<<r - 1, "z1", 1>>))>>
=============================================================================

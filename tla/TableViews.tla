----------------------------- MODULE TableViews -----------------------------
(***************************************************************************)
(* The witness and its conjugate in the sumcheck of a statement            *)
(* (src/protocol/sumcheck_utils/linear.rs, src/protocol/snark/lowering.rs).*)
(*                                                                         *)
(* The witness is large, and a claim may use it and its conjugate several  *)
(* times: each use is a table of its own.  A table that is long enough is  *)
(* not copied: it borrows the caller's memory, and the table of the        *)
(* conjugate borrows the same memory and conjugates an entry whenever one  *)
(* is read.  The first table of either kind are folded together, and as    *)
(* long as the challenges are their own conjugates the fold of the         *)
(* conjugate is the conjugate of the fold: one folded table is kept, the   *)
(* witness's, and the conjugate's stays a view of it.  A challenge that is *)
(* not, or a table that has become short, ends the sharing.                *)
(*                                                                         *)
(* The ring is two slots of a prime field that conjugation exchanges.      *)
(***************************************************************************)
EXTENDS Integers, Sequences, FiniteSetsExt

CONSTANTS
    Modulus,        \* the field of a slot
    BorrowMin,      \* BORROW_MIN_LEN
    Witnesses,      \* the witnesses the statements are about: sequences of ring elements
    MaxUses,        \* bound: how often a product uses the witness, or its conjugate
    Challenges      \* the challenges a variable may be given

Field == 0..(Modulus - 1)
Ring == Field \X Field

ASSUME FieldAssumption == Modulus \in Nat /\ Modulus > 1
ASSUME BorrowAssumption == BorrowMin \in Nat /\ BorrowMin > 1
ASSUME WitnessAssumption ==
    \A w \in Witnesses : w \in Seq(Ring) /\ \E k \in 0..Len(w) : Len(w) = 2^k
ASSUME UsesAssumption == MaxUses \in Nat
ASSUME ChallengesAssumption == Challenges \subseteq Ring

\* A fact of arithmetic the provers do not have, as far as it is needed.
ASSUME PowersAssumption ==
    \A w \in Witnesses : \A n \in 0..Len(w) : 2^n \in Nat /\ 2^(n + 1) = 2 * 2^n

VARIABLES
    witness,      \* the caller's memory
    tables,       \* witness_pool and conj_pool: sequences of tables, by kind
    points,       \* evaluation_points: the challenges so far
    panicked      \* a table that is viewed was folded without its view

vars == <<witness, tables, points, panicked>>

Kinds == {"witness", "conjugate"}

-----------------------------------------------------------------------------
(***************************************************************************)
(* The ring.                                                               *)
(***************************************************************************)
Zero == <<0, 0>>
Conjugate(x) == <<x[2], x[1]>>
At(low, high, r) == [s \in 1..2 |-> (low[s] + r[s] * (high[s] - low[s])) % Modulus]

(***************************************************************************)
(* A table: the memory it borrows (none; the caller's, 0; or what the      *)
(* fold of a round made for two tables to share, the round's number), the  *)
(* entries there, whether they are conjugated when read, where its zero    *)
(* tail begins, its variables, and whether another table is a view of it.  *)
(***************************************************************************)
Own == {}
Caller == {0}

Table(memory, data, mapped, end, n) ==
    [memory |-> memory, data |-> data, mapped |-> mapped, end |-> end, vars |-> n, viewed |-> FALSE]

Load(t, i) == IF t.mapped THEN Conjugate(t.data[i]) ELSE t.data[i]
Entries(t) == [i \in DOMAIN t.data |-> Load(t, i)]
Half(t) == Len(t.data) \div 2
FoldEnd(t) == Min({(t.end + 1) \div 2, Half(t)})

FloorLog(n) == CHOOSE k \in 0..n : 2^k <= n /\ n < 2^(k + 1)

\* used_length
Used(data) == Max({0} \cup {i \in DOMAIN data : data[i] # Zero})

\* witness_oracle and conjugated_oracle: a short witness is copied.
Oracle(kind) ==
    LET n == FloorLog(Len(witness))
        conjugated == [i \in DOMAIN witness |-> Conjugate(witness[i])]
        copy == IF kind = "conjugate" THEN conjugated ELSE witness
    IN IF Len(witness) < BorrowMin
       THEN Table(Own, copy, FALSE, Used(witness), n)
       ELSE Table(Caller, witness, kind = "conjugate", Used(witness), n)

-----------------------------------------------------------------------------
(***************************************************************************)
(* Folding.                                                                *)
(***************************************************************************)
\* The entries of a fold: pairs of them, zero from the fold's end on.
FoldOf(entries, end, r) ==
    [i \in 1..(Len(entries) \div 2) |->
       IF i <= end THEN At(entries[2 * i - 1], entries[2 * i], r) ELSE Zero]

\* install_fold: the table owns its fold.
Installed(t, entries, end) ==
    [t EXCEPT !.memory = Own, !.data = entries, !.mapped = FALSE, !.end = end, !.vars = @ - 1]

\* partial_evaluate: a table that has one entry is constant in what is left.
FoldedAlone(t, r) ==
    IF Len(t.data) = 1 THEN [t EXCEPT !.vars = @ - 1]
    ELSE Installed(t, FoldOf(Entries(t), FoldEnd(t), r), FoldEnd(t))

PanicsAlone(t) == Len(t.data) > 1 /\ t.viewed

\* Mutant of CanFoldTogether: a shared fold is not recognised as one memory.
CanFoldCallers(own, view) ==
    /\ view.memory = Caller /\ own.memory = Caller
    /\ own.end = view.end
    /\ Len(own.data) >= 2

\* The two tables read the same memory, one as it is, the other conjugated.
CanFoldTogether(own, view) ==
    /\ view.memory # Own /\ view.mapped
    /\ own.memory = view.memory /\ ~own.mapped
    /\ own.end = view.end
    /\ Len(own.data) >= 2

IsFixed(r) == Conjugate(r) = r

\* Mutant of StaysShared: any challenge keeps the fold of the view a view.
StaysSharedLong(own, r) == Half(own) >= BorrowMin

StaysShared(own, r) == IsFixed(r) /\ Half(own) >= BorrowMin

\* One fold for both, the second a view of the first.
SharedFold(own, view, r, round) ==
    LET folded == FoldedAlone([own EXCEPT !.viewed = FALSE], r)
    IN [own |-> [folded EXCEPT !.memory = {round}, !.viewed = TRUE],
        view |-> [view EXCEPT !.memory = {round}, !.data = folded.data, !.end = folded.end,
                              !.vars = @ - 1]]

\* Two folds from one pass over the shared memory; nobody is a view any more.
SplitFold(own, view, r) ==
    [own |-> Installed([own EXCEPT !.viewed = FALSE], FoldOf(Entries(own), FoldEnd(own), r), FoldEnd(own)),
     view |-> Installed(view, FoldOf(Entries(view), FoldEnd(own), r), FoldEnd(own))]

\* partial_evaluate_with_mapped
FoldTogether(own, view, r, round) ==
    IF StaysShared(own, r) THEN SharedFold(own, view, r, round) ELSE SplitFold(own, view, r)

-----------------------------------------------------------------------------
(***************************************************************************)
(* The tables of a statement, and a round.                                 *)
(***************************************************************************)
\* OraclePool: a table for every use, the witness's first one in any case.
Init ==
    /\ witness \in Witnesses
    /\ \E uses \in 0..MaxUses, conjugates \in 0..MaxUses :
         tables = [kind \in Kinds |->
                     [i \in 1..(IF kind = "witness" THEN Max({uses, 1}) ELSE conjugates) |->
                        Oracle(kind)]]
    /\ points = <<>>
    /\ panicked = FALSE

\* first_cell of both pools, when they can be folded together.
Joint ==
    /\ tables["conjugate"] # <<>>
    /\ CanFoldTogether(tables["witness"][1], tables["conjugate"][1])

\* The leaves of the statement, a table each.
Cells == UNION {{kind} \X DOMAIN tables[kind] : kind \in Kinds}

\* The tables the round's loop over the leaves folds; the two are passed over.
Alone == {cell \in Cells : ~(Joint /\ cell[2] = 1)}

TakeChallenge ==
    /\ Len(witness) # 2^Len(points) /\ ~panicked
    /\ \E r \in Challenges :
         LET pair == FoldTogether(tables["witness"][1], tables["conjugate"][1], r, Len(points) + 1)
             folded(kind, i) ==
               CASE <<kind, i>> \in Alone -> FoldedAlone(tables[kind][i], r)
                 [] OTHER -> IF kind = "witness" THEN pair.own ELSE pair.view
         IN /\ tables' = [kind \in Kinds |-> [i \in DOMAIN tables[kind] |-> folded(kind, i)]]
            /\ points' = Append(points, r)
    /\ panicked' = \E cell \in Alone : PanicsAlone(tables[cell[1]][cell[2]])
    /\ UNCHANGED witness

Folded == Len(witness) = 2^Len(points)
Finished == Folded /\ UNCHANGED vars

(***************************************************************************)
(* What the chain of rounds is handed: the last variable's challenge comes *)
(* first, the leading ones pick a column of the witness and the others a   *)
(* row of it, and the conjugate's evaluation is stated as one of the       *)
(* witness, at the conjugate of the point.                                 *)
(***************************************************************************)
Final(kind) == tables[kind][1].data[1]

\* Mutant of ChainInputs: the conjugate's evaluation is passed on as it is.
ChainInputsUnconjugated(width) ==
    LET point == [i \in DOMAIN points |-> points[Len(points) + 1 - i]]
        outer == FloorLog(width)
        statement(p, value) == [outer |-> SubSeq(p, 1, outer), inner |-> SubSeq(p, outer + 1, Len(p)),
                                claim |-> value]
        conjugate == [i \in DOMAIN point |-> Conjugate(point[i])]
    IN <<statement(point, Final("witness"))>>
         \o (IF tables["conjugate"] = <<>> THEN <<>>
             ELSE <<statement(conjugate, Final("conjugate"))>>)

\* chain_inputs
ChainInputs(width) ==
    LET point == [i \in DOMAIN points |-> points[Len(points) + 1 - i]]
        outer == FloorLog(width)
        statement(p, value) == [outer |-> SubSeq(p, 1, outer), inner |-> SubSeq(p, outer + 1, Len(p)),
                                claim |-> value]
        conjugate == [i \in DOMAIN point |-> Conjugate(point[i])]
    IN <<statement(point, Final("witness"))>>
         \o (IF tables["conjugate"] = <<>> THEN <<>>
             ELSE <<statement(conjugate, Conjugate(Final("conjugate")))>>)

\* An entry of a structured row, the first layer on the leading bit, in a slot.
RowEntry(layers, i, slot) ==
    FoldSet(LAMBDA k, entry :
              (entry * (IF (i \div 2^(Len(layers) - k)) % 2 = 1 THEN layers[k][slot]
                        ELSE 1 - layers[k][slot])) % Modulus,
            1, DOMAIN layers)

\* claim (open.rs): rows into columns, columns into one element.
Opened(statement) ==
    LET height == 2^Len(statement.inner)
        column(c, s) == MapThenSumSet(LAMBDA i : RowEntry(statement.inner, i, s)
                                                   * witness[c * height + i + 1][s], 0..(height - 1))
    IN [s \in 1..2 |->
          MapThenSumSet(LAMBDA c : RowEntry(statement.outer, c, s) * column(c, s),
                        0..(2^Len(statement.outer) - 1)) % Modulus]

Next == TakeChallenge \/ Finished
Spec == Init /\ [][Next]_vars

-----------------------------------------------------------------------------
(***************************************************************************)
(* The multilinear extension, for reference.                               *)
(***************************************************************************)
Bit(n, k) == (n \div 2^(k - 1)) % 2

\* The weight of the corner c of the cube of the challenged variables, in a slot.
CornerWeight(c, slot) ==
    FoldSet(LAMBDA k, weight : (weight * (IF Bit(c, k) = 1 THEN points[k][slot]
                                          ELSE 1 - points[k][slot])) % Modulus,
            1, DOMAIN points)

Conjugated(kind, x) == IF kind = "conjugate" THEN Conjugate(x) ELSE x

\* Entry i of the original table, folded by all challenges at once.
ExtensionAt(kind, i) ==
    LET corners == 2^Len(points)
        entry(c) == Conjugated(kind, witness[(i - 1) * corners + c + 1])
    IN [s \in 1..2 |->
          MapThenSumSet(LAMBDA c : CornerWeight(c, s) * entry(c)[s], 0..(corners - 1)) % Modulus]

(***************************************************************************)
(* Properties.                                                             *)
(***************************************************************************)
\* Where the zero tail of every table begins after the challenges so far.
TailStart ==
    CHOOSE e \in 0..Len(witness) :
      LET size == 2^Len(points)
      IN e * size >= Used(witness) /\ (e - 1) * size < Used(witness)

\* Whatever is borrowed, shared or split on the way, every table holds the
\* multilinear extension of the witness, or of its conjugate, at the challenges,
\* and all agree where its zero tail begins: the gadgets pass over what is beyond.
CellsAreFolds ==
    \A kind \in Kinds : \A i \in DOMAIN tables[kind] :
      LET t == tables[kind][i]
      IN /\ Len(t.data) = 2^t.vars
         /\ \A k \in DOMAIN t.data : Load(t, k) = ExtensionAt(kind, k)
         /\ t.end = TailStart
         /\ \A k \in (t.end + 1)..Len(t.data) : Load(t, k) = Zero

\* A table made by a fold and shared has one owner, marked as viewed, and one
\* view that conjugates what it reads; no table is marked that has no view.
ViewsHaveAnOwner ==
    LET cell(c) == tables[c[1]][c[2]]
        sharing == {c \in Cells : cell(c).memory \notin {Own, Caller}}
    IN /\ {c \in Cells : cell(c).viewed} = {c \in sharing : c[1] = "witness"}
       /\ sharing # {} => /\ sharing = {<<"witness", 1>>, <<"conjugate", 1>>}
                          /\ tables["witness"][1].memory = tables["conjugate"][1].memory
                          /\ tables["conjugate"][1].mapped /\ ~tables["witness"][1].mapped

\* The assertion of partial_evaluate is never reached, because a table is marked
\* exactly while it has a view; and when all variables are challenged every table
\* owns its one entry: final_evaluations reads that.
NeverPanics ==
    /\ ~panicked
    /\ ViewsHaveAnOwner
    /\ Folded => \A kind \in Kinds : \A i \in DOMAIN tables[kind] : tables[kind][i].memory = Own

\* The statements the chain starts from hold of the committed witness, however it
\* is cut into columns, whenever the evaluations the sumcheck ended with do.
ChainInputsAreTrue ==
    Folded =>
      \A k \in 0..FloorLog(Len(witness)) :
        LET statements == ChainInputs(2^k)
        IN \A j \in DOMAIN statements : Opened(statements[j]) = statements[j].claim
=============================================================================

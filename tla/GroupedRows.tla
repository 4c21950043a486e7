---------------------------- MODULE GroupedRows ----------------------------
(***************************************************************************)
(* The grouped kernel of the coarse projection (common/arithmetic.rs,       *)
(* ternary_rows): the rows of a ternary matrix applied to a block of short  *)
(* digits.  A row adds sixteen bit digits with wrap-around, four at a time  *)
(* from a table of their 81 signed sums, and is widened into a 32 bit sum   *)
(* before its partial could leave sixteen bits.  What it may add is bounded *)
(* block by block; a block whose digits are too large makes the kernel      *)
(* decline, whatever it has written so far.                                 *)
(*                                                                         *)
(* A slice stands for the 32 coefficients the code handles in one register: *)
(* lanes do not interact.  Widths are constants: I16Max for 2^15 - 1,       *)
(* I32Max for 2^31 - 1, Pass for PASS; a group is four digits, as the code  *)
(* asserts.                                                                *)
(***************************************************************************)
EXTENDS Integers

CONSTANTS I16Max, I32Max,  \* largest signed values of the two widths
          Pass,            \* groups of four that a block has
          Rows, Slices,    \* rows of the matrix, slices of a digit vector
          Inputs           \* [len, digit, pos, nonZero]: what is projected

Group == 4
Block == Pass * Group
I16 == (-I16Max - 1) .. I16Max
RowIds == 0 .. (Rows - 1)
SliceIds == 0 .. (Slices - 1)

ASSUME WidthsAssumption ==
    /\ I16Max \in Nat \ {0}
    /\ I32Max \in Nat
    /\ I32Max >= I16Max

ASSUME KernelAssumption ==
    /\ Pass \in Nat \ {0}
    /\ Rows \in Nat \ {0}
    /\ Slices \in Nat \ {0}

ASSUME InputsAssumption ==
    \A in \in Inputs :
       /\ in.len \in Nat
       /\ in.digit \in [SliceIds -> [0 .. (in.len - 1) -> I16]]
       /\ in.pos \in [RowIds -> SUBSET (0 .. (in.len - 1))]
       /\ in.nonZero \in [RowIds -> SUBSET (0 .. (in.len - 1))]

VARIABLES in,       \* the digits and the two mask planes of the matrix
          at,       \* where the kernel stands
          slice,    \* k
          block, group,  \* the block of the slice, and the group in it
          largest,  \* the largest magnitude of the current block
          budget,   \* what a row's partial may have reached
          partial,  \* sixteen bit: the current block's sum of each row
          scratch,  \* sixteen bit: each row's sum since the last widening
          wide,     \* 32 bit: each row's widened sum
          out,      \* what was emitted for each slice
          exact     \* history: the sums of each slice in the integers

gvars == <<in, at, slice, block, group, largest, budget, partial, scratch, wide,
           out, exact>>

Zeros == [r \in RowIds |-> 0]

(***************************************************************************)
(* Registers                                                               *)
(***************************************************************************)

\* Mutant of Wrap16: the register read as unsigned.
Wrap16Unsigned(x) == x % (2 * I16Max + 2)

\* A sum kept in sixteen bits.
Wrap16(x) == ((x + I16Max + 1) % (2 * I16Max + 2)) - (I16Max + 1)

\* A sum kept in 32 bits.
Wrap32(x) == ((x + I32Max + 1) % (2 * I32Max + 2)) - (I32Max + 1)

Abs(x) == IF x < 0 THEN -x ELSE x

(***************************************************************************)
(* Selections and tables of a group                                        *)
(***************************************************************************)

\* The entry of the matrix that two mask bits stand for.
Sign(r, e) ==
    IF e \notin in.nonZero[r] THEN 0 ELSE IF e \in in.pos[r] THEN 1 ELSE -1

\* The ternary digit that selects an entry of the table.
Trit(r, e) ==
    IF e \notin in.nonZero[r] THEN 1 ELSE IF e \in in.pos[r] THEN 2 ELSE 0

\* The index of a row's selection among the 81 sums of four digits.
Selection(r, first) ==
    (27 * Trit(r, first + 3)) + (9 * Trit(r, first + 2))
    + (3 * Trit(r, first + 1)) + Trit(r, first)

\* One digit subtracted, left out or added.
Signed(s, d, w) ==
    Wrap16(IF d = 0 THEN s - w ELSE IF d = 1 THEN s ELSE s + w)

\* The sum that an index of the table holds.
TernarySum(w0, w1, w2, w3, index) ==
    Signed(Signed(Signed(Signed(0, index % 3, w0),
                         (index \div 3) % 3, w1),
                  (index \div 9) % 3, w2),
           index \div 27, w3)

\* The first element of the current group.
First == (block * Block) + (group * Group)

\* What a row takes from the table of the current group.
LookUp(r) ==
    LET w == in.digit[slice]
    IN  TernarySum(w[First], w[First + 1], w[First + 2], w[First + 3],
                   Selection(r, First))

\* What the matrix says of the same digits, in the integers.
Term(r, e) == Sign(r, e) * in.digit[slice][e]

GroupTerm(r) ==
    Term(r, First) + Term(r, First + 1) + Term(r, First + 2) + Term(r, First + 3)

(***************************************************************************)
(* The kernel                                                              *)
(***************************************************************************)

GroupedInit ==
    /\ in \in Inputs
    /\ at = "entered"
    /\ slice = 0 /\ block = 0 /\ group = 0
    /\ largest = 0 /\ budget = 0
    /\ partial = Zeros /\ scratch = Zeros /\ wide = Zeros
    /\ out = [k \in SliceIds |-> Zeros]
    /\ exact = [k \in SliceIds |-> Zeros]

Blocks == in.len \div Block

\* A vector that is not made of blocks, or whose sums could leave 32 bits, is
\* left to the other kernel.
TooLong == \/ Blocks * Block # in.len
           \/ in.len * (I16Max \div Block) > I32Max

Enter ==
    /\ at = "entered"
    /\ at' = IF TooLong THEN "declined" ELSE "block"
    /\ UNCHANGED <<in, slice, block, group, largest, budget, partial, scratch, wide,
                   out, exact>>

InBlock == (block * Block) .. ((block * Block) + Block - 1)

IsLargest(m) ==
    /\ \A e \in InBlock : Abs(in.digit[slice][e]) <= m
    /\ \E e \in InBlock : Abs(in.digit[slice][e]) = m

Widened == [r \in RowIds |-> Wrap32(wide[r] + scratch[r])]

\* The head of a block: its largest digit bounds what a row adds, and the
\* rows are widened first if that could leave sixteen bits.
OpenBlock ==
    /\ at = "block" /\ block < Blocks
    /\ \E m \in 0 .. (I16Max + 1) :
          /\ IsLargest(m)
          /\ Block * m <= I16Max
          /\ largest' = m
          /\ IF budget + (Block * m) > I16Max
             THEN wide' = Widened /\ budget' = 0
             ELSE UNCHANGED <<wide, budget>>
    /\ at' = "groups" /\ group' = 0 /\ partial' = Zeros
    /\ UNCHANGED <<in, slice, block, scratch, out, exact>>

\* A block whose digits are too large ends the kernel.
DeclineBlock ==
    /\ at = "block" /\ block < Blocks
    /\ \E m \in 0 .. (I16Max + 1) : IsLargest(m) /\ Block * m > I16Max
    /\ at' = "declined"
    /\ UNCHANGED <<in, slice, block, group, largest, budget, partial, scratch, wide,
                   out, exact>>

\* One group of the block: every row adds what its selection picks.
AddGroup ==
    /\ at = "groups"
    /\ partial' = [r \in RowIds |-> Wrap16(partial[r] + LookUp(r))]
    /\ exact' = [exact EXCEPT ![slice] =
                    [r \in RowIds |-> exact[slice][r] + GroupTerm(r)]]
    /\ group' = group + 1
    /\ at' = IF group + 1 = Pass THEN "rows" ELSE "groups"
    /\ UNCHANGED <<in, slice, block, largest, budget, scratch, wide, out>>

\* Mutant of Joined: the sum of the previous run or slice is never dropped.
JoinedAlways(r) == Wrap16(partial[r] + scratch[r])

\* A partial opens the row's sum, or joins it.
Joined(r) == IF budget = 0 THEN partial[r] ELSE Wrap16(partial[r] + scratch[r])

\* Mutant of Spent: the budget of the last block alone.
SpentByLast == Block * largest

\* What the rows may have reached after the block.
Spent == budget + (Block * largest)

\* The end of a block.
CloseBlock ==
    /\ at = "rows"
    /\ scratch' = [r \in RowIds |-> Joined(r)]
    /\ budget' = Spent
    /\ at' = "block" /\ block' = block + 1
    /\ UNCHANGED <<in, slice, group, largest, partial, wide, out, exact>>

\* The end of a slice: the rows are widened and their sums emitted.
EndSlice ==
    /\ at = "block" /\ block = Blocks
    /\ out' = [out EXCEPT ![slice] = Widened]
    /\ UNCHANGED <<in, group, largest, partial, scratch, exact>>

\* The next slice starts from cleared sums and an empty budget; what the rows
\* held in sixteen bits stays behind.
NextSlice ==
    /\ EndSlice
    /\ slice + 1 < Slices
    /\ slice' = slice + 1
    /\ block' = 0 /\ budget' = 0 /\ wide' = Zeros
    /\ UNCHANGED at

LastSlice ==
    /\ EndSlice
    /\ slice + 1 = Slices
    /\ at' = "emitted"
    /\ wide' = Widened
    /\ UNCHANGED <<slice, block, budget>>

GroupedNext ==
    \/ Enter
    \/ OpenBlock
    \/ DeclineBlock
    \/ AddGroup
    \/ CloseBlock
    \/ NextSlice
    \/ LastSlice

GroupedSpec == GroupedInit /\ [][GroupedNext]_gvars

(***************************************************************************)
(* Properties                                                              *)
(***************************************************************************)

PerRow(S) == [RowIds -> S]

GroupedTypeOK ==
    /\ in \in Inputs
    /\ at \in {"entered", "block", "groups", "rows", "declined", "emitted"}
    /\ slice \in SliceIds
    /\ block \in Nat
    /\ group \in 0 .. Pass
    /\ largest \in 0 .. I16Max
    /\ budget \in 0 .. I16Max
    /\ partial \in PerRow(Int) /\ scratch \in PerRow(Int) /\ wide \in PerRow(Int)
    /\ out \in [SliceIds -> PerRow(Int)]
    /\ exact \in [SliceIds -> PerRow(Int)]

(***************************************************************************)
(* Between two blocks no row's sixteen bit sum exceeds the budget, whatever *)
(* was widened or carried over: the comparison with the budget that decides *)
(* on widening therefore comes in time.                                    *)
(***************************************************************************)
BudgetCoversRows ==
    at = "block" /\ block > 0 =>
       \A r \in RowIds : Abs(scratch[r]) <= budget

(***************************************************************************)
(* What the kernel emits is the exact sum of every row: no addition wrapped *)
(* in sixteen or 32 bits, no partial was lost between blocks, and none of a *)
(* previous slice or block was added.                                      *)
(***************************************************************************)
EmittedIsExact == at = "emitted" => out = exact
=============================================================================

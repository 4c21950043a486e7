------------------------ MODULE ProjectRows_proofs -------------------------
(***************************************************************************)
(* The projection of one block is exact for every width, number of rows,    *)
(* slices and groups, every window, and every vector of digits and matrix:  *)
(* first the grouped kernel by itself, then the tiled and the scalar one    *)
(* that take over when it declines.                                        *)
(***************************************************************************)
EXTENDS ProjectRows, TLAPS, FiniteSetTheorems, WellFoundedInduction, SequenceTheorems

(***************************************************************************)
(* Arithmetic                                                              *)
(***************************************************************************)

Cap == I16Max \div Block

LEMMA Constants ==
    /\ Block \in Nat \ {0} /\ Block = 4 * Pass
    /\ Pass \in Nat \ {0} /\ I16Max \in Nat \ {0} /\ I32Max \in Nat
    /\ Slices \in Nat \ {0} /\ 0 \in SliceIds
BY WidthsAssumption, KernelAssumption DEF Block, Group, SliceIds

\* A product grows with its factor.
LEMMA Grows ==
    ASSUME NEW a \in Nat, NEW b \in Nat, NEW c \in Nat, a <= b
    PROVE  a * c <= b * c
OBVIOUS

LEMMA Products ==
    ASSUME NEW a \in Nat, NEW b \in Nat
    PROVE  a * b \in Nat /\ (a + 1) * b = (a * b) + b
OBVIOUS

\* Division by a positive number.
LEMMA Division ==
    ASSUME NEW a \in Nat, NEW b \in Nat \ {0}
    PROVE  /\ a \div b \in Nat
           /\ \A m \in Nat : b * m <= a => m <= a \div b
OBVIOUS

\* A value that fits sixteen bits is kept.
LEMMA Fits16 ==
    ASSUME NEW x \in Int, Abs(x) <= I16Max
    PROVE  Wrap16(x) = x
BY WidthsAssumption DEF Wrap16, Abs

\* A value that fits 32 bits is kept.
LEMMA Fits32 ==
    ASSUME NEW x \in Int, Abs(x) <= I32Max
    PROVE  Wrap32(x) = x
BY WidthsAssumption DEF Wrap32, Abs

LEMMA WrapType ==
    ASSUME NEW x \in Int
    PROVE  Wrap16(x) \in Int /\ Wrap32(x) \in Int
BY WidthsAssumption DEF Wrap16, Wrap32

(***************************************************************************)
(* Selections and tables                                                   *)
(***************************************************************************)

\* One step of a table entry adds the digit with the sign of its trit.
LEMMA SignedExact ==
    ASSUME NEW s \in Int, NEW w \in Int, NEW d \in 0 .. 2, NEW t \in Int,
           t = (d - 1) * w, Abs(s + t) <= I16Max
    PROVE  Signed(s, d, w) = s + t
<1>1. CASE d = 0  BY <1>1, Fits16, s - w = s + t, s - w \in Int DEF Signed
<1>2. CASE d = 1  BY <1>2, Fits16, s = s + t DEF Signed
<1>3. CASE d = 2  BY <1>3, Fits16, s + w = s + t, s + w \in Int DEF Signed
<1>4. QED  BY <1>1, <1>2, <1>3

\* The base three digits of an index.
LEMMA IndexDigits ==
    ASSUME NEW a \in 0 .. 2, NEW b \in 0 .. 2, NEW c \in 0 .. 2, NEW d \in 0 .. 2
    PROVE  LET i == (27 * d) + (9 * c) + (3 * b) + a
           IN  /\ i % 3 = a
               /\ (i \div 3) % 3 = b
               /\ (i \div 9) % 3 = c
               /\ i \div 27 = d
OBVIOUS

\* A trit is the sign plus one.
LEMMA TritIsSign ==
    ASSUME NEW r, NEW e
    PROVE  Trit(r, e) \in 0 .. 2 /\ Trit(r, e) - 1 = Sign(r, e) /\ Sign(r, e) \in -1 .. 1
BY DEF Trit, Sign

\* The term of one entry is no larger than its digit.
LEMMA TermBound ==
    ASSUME NEW x \in -1 .. 1, NEW w \in Int, NEW m \in Nat, Abs(w) <= m
    PROVE  x * w \in Int /\ Abs(x * w) <= m
<1>1. x = -1 \/ x = 0 \/ x = 1  OBVIOUS
<1>2. CASE x = -1  BY <1>2, x * w = -w DEF Abs
<1>3. CASE x = 0  BY <1>3, x * w = 0 DEF Abs
<1>4. CASE x = 1  BY <1>4, x * w = w DEF Abs
<1>5. QED  BY <1>1, <1>2, <1>3, <1>4

\* The table entry of a selection is the signed sum of the four digits, if four
\* of the largest fit sixteen bits.
LEMMA TableEntry ==
    ASSUME NEW a \in 0 .. 2, NEW b \in 0 .. 2, NEW c \in 0 .. 2, NEW d \in 0 .. 2,
           NEW w0 \in Int, NEW w1 \in Int, NEW w2 \in Int, NEW w3 \in Int,
           NEW m \in Nat, 4 * m <= I16Max,
           Abs(w0) <= m, Abs(w1) <= m, Abs(w2) <= m, Abs(w3) <= m
    PROVE  LET sum == ((a - 1) * w0) + ((b - 1) * w1) + ((c - 1) * w2) + ((d - 1) * w3)
           IN  /\ TernarySum(w0, w1, w2, w3, (27 * d) + (9 * c) + (3 * b) + a) = sum
               /\ sum \in Int /\ Abs(sum) <= 4 * m
<1> DEFINE i == (27 * d) + (9 * c) + (3 * b) + a
           t0 == (a - 1) * w0
           t1 == (b - 1) * w1
           t2 == (c - 1) * w2
           t3 == (d - 1) * w3
<1>1. /\ t0 \in Int /\ Abs(t0) <= m
      /\ t1 \in Int /\ Abs(t1) <= m
      /\ t2 \in Int /\ Abs(t2) <= m
      /\ t3 \in Int /\ Abs(t3) <= m
  <2>1. a - 1 \in -1 .. 1 /\ b - 1 \in -1 .. 1 /\ c - 1 \in -1 .. 1 /\ d - 1 \in -1 .. 1
        OBVIOUS
  <2> HIDE DEF t0, t1, t2, t3
  <2>2. t0 \in Int /\ Abs(t0) <= m  BY <2>1, TermBound DEF t0
  <2>3. t1 \in Int /\ Abs(t1) <= m  BY <2>1, TermBound DEF t1
  <2>4. t2 \in Int /\ Abs(t2) <= m  BY <2>1, TermBound DEF t2
  <2>5. t3 \in Int /\ Abs(t3) <= m  BY <2>1, TermBound DEF t3
  <2>6. QED  BY <2>2, <2>3, <2>4, <2>5
<1>2. i % 3 = a /\ (i \div 3) % 3 = b /\ (i \div 9) % 3 = c /\ i \div 27 = d
      BY IndexDigits
<1> HIDE DEF t0, t1, t2, t3
<1>3. /\ Abs(0 + t0) <= I16Max
      /\ Abs(t0 + t1) <= I16Max
      /\ Abs(t0 + t1 + t2) <= I16Max
      /\ Abs(t0 + t1 + t2 + t3) <= 4 * m
      /\ Abs(t0 + t1 + t2 + t3) <= I16Max
      BY <1>1, WidthsAssumption DEF Abs
<1>4. Signed(0, a, w0) = t0
  <2>1. t0 = (a - 1) * w0  BY DEF t0
  <2>2. Abs(t0) <= I16Max  BY <1>1, <1>3
  <2>3. CASE a = 0
    <3>1. t0 = 0 - w0  BY <2>1, <2>3
    <3>2. QED  BY <1>1, <2>2, <2>3, <3>1, Fits16 DEF Signed
  <2>4. CASE a = 1
    <3>1. t0 = 0  BY <2>1, <2>4
    <3>2. QED  BY <1>1, <2>2, <2>4, <3>1, Fits16 DEF Signed
  <2>5. CASE a = 2
    <3>1. t0 = 0 + w0  BY <2>1, <2>5
    <3>2. QED  BY <1>1, <2>2, <2>5, <3>1, Fits16 DEF Signed
  <2>6. QED  BY <2>3, <2>4, <2>5
<1>5. Signed(t0, b, w1) = t0 + t1
  <2>1. t1 = (b - 1) * w1  BY DEF t1
  <2>2. QED  BY <1>1, <1>3, <2>1, SignedExact
<1>6. Signed(t0 + t1, c, w2) = t0 + t1 + t2
  <2>1. t2 = (c - 1) * w2  BY DEF t2
  <2>2. t0 + t1 \in Int  BY <1>1
  <2>3. QED  BY <1>1, <1>3, <2>1, <2>2, SignedExact
<1>7. Signed(t0 + t1 + t2, d, w3) = t0 + t1 + t2 + t3
  <2>1. t3 = (d - 1) * w3  BY DEF t3
  <2>2. t0 + t1 + t2 \in Int  BY <1>1
  <2>3. QED  BY <1>1, <1>3, <2>1, <2>2, SignedExact
<1>8. TernarySum(w0, w1, w2, w3, i) = t0 + t1 + t2 + t3
      BY <1>2, <1>4, <1>5, <1>6, <1>7 DEF TernarySum
<1>9. QED  BY <1>1, <1>3, <1>8 DEF t0, t1, t2, t3

\* What a row takes from the table is what the matrix says of the four digits.
LEMMA LookUpExact ==
    ASSUME NEW r \in RowIds, NEW m \in Nat, 4 * m <= I16Max,
           \A c \in 0 .. 3 : /\ in.digit[slice][First + c] \in Int
                             /\ Abs(in.digit[slice][First + c]) <= m,
           First \in Nat
    PROVE  /\ LookUp(r) = GroupTerm(r)
           /\ GroupTerm(r) \in Int
           /\ Abs(GroupTerm(r)) <= 4 * m
<1> DEFINE w(c) == in.digit[slice][First + c]
           t(c) == Trit(r, First + c)
<1>1. /\ w(0) \in Int /\ Abs(w(0)) <= m
      /\ w(1) \in Int /\ Abs(w(1)) <= m
      /\ w(2) \in Int /\ Abs(w(2)) <= m
      /\ w(3) \in Int /\ Abs(w(3)) <= m
      OBVIOUS
<1>2. /\ t(0) \in 0 .. 2 /\ t(0) - 1 = Sign(r, First)
      /\ t(1) \in 0 .. 2 /\ t(1) - 1 = Sign(r, First + 1)
      /\ t(2) \in 0 .. 2 /\ t(2) - 1 = Sign(r, First + 2)
      /\ t(3) \in 0 .. 2 /\ t(3) - 1 = Sign(r, First + 3)
      BY TritIsSign
<1>3. First + 0 = First  OBVIOUS
<1>4. LookUp(r) = TernarySum(w(0), w(1), w(2), w(3),
                             (27 * t(3)) + (9 * t(2)) + (3 * t(1)) + t(0))
      BY <1>3 DEF LookUp, Selection
<1>5. GroupTerm(r) = ((t(0) - 1) * w(0)) + ((t(1) - 1) * w(1))
                     + ((t(2) - 1) * w(2)) + ((t(3) - 1) * w(3))
      BY <1>2, <1>3 DEF GroupTerm, Term
<1> HIDE DEF w, t
<1>6. QED  BY <1>1, <1>2, <1>4, <1>5, TableEntry

(***************************************************************************)
(* The inductive invariant                                                 *)
(***************************************************************************)

\* Past the entry, the digits are made of blocks and sums fit 32 bits.
EntryPassed ==
    at \in {"block", "groups", "rows", "emitted"} =>
       Blocks * Block = in.len /\ in.len * Cap <= I32Max

\* Between two blocks: the budget covers what a row holds, and that and the
\* widened sum are the exact sum.
BetweenBlocks ==
    at = "block" =>
       /\ block <= Blocks
       /\ block = 0 => budget = 0 /\ wide = Zeros /\ exact[slice] = Zeros
       /\ Blocks = 0 => scratch = Zeros
       /\ \A r \in RowIds :
             /\ block > 0 => /\ Abs(scratch[r]) <= budget
                            /\ wide[r] + scratch[r] = exact[slice][r]
             /\ Abs(exact[slice][r]) <= (block * Block) * Cap

\* In a block: what a row has added is bounded by the groups done.
InsideBlock ==
    at \in {"groups", "rows"} =>
       /\ block < Blocks
       /\ IF at = "groups" THEN group < Pass ELSE group = Pass
       /\ budget + (Block * largest) <= I16Max
       /\ \A e \in InBlock : Abs(in.digit[slice][e]) <= largest
       /\ \A r \in RowIds :
             /\ Abs(partial[r]) <= group * (4 * largest)
             /\ budget > 0 => Abs(scratch[r]) <= budget
             /\ wide[r] + (IF budget = 0 THEN 0 ELSE scratch[r]) + partial[r]
                  = exact[slice][r]
             /\ Abs(exact[slice][r]) <= ((block * Block) * Cap) + (group * (4 * Cap))

\* The slices emitted are exact; the later ones have not begun.
SlicesEmitted ==
    /\ at = "entered" => /\ block = 0 /\ budget = 0
                         /\ wide = Zeros /\ scratch = Zeros
                         /\ exact[slice] = Zeros
    /\ \A s \in SliceIds : /\ s < slice => out[s] = exact[s]
                           /\ s > slice => exact[s] = Zeros
    /\ EmittedIsExact

GroupedInv == GroupedTypeOK /\ EntryPassed /\ BetweenBlocks /\ InsideBlock /\ SlicesEmitted

LEMMA BlocksFacts ==
    ASSUME GroupedTypeOK
    PROVE  /\ in.len \in Nat /\ Blocks \in Nat /\ Cap \in Nat
           /\ in.digit \in [SliceIds -> [0 .. (in.len - 1) -> I16]]
<1>1. in \in Inputs  BY DEF GroupedTypeOK
<1>2. in.len \in Nat /\ in.digit \in [SliceIds -> [0 .. (in.len - 1) -> I16]]
      BY <1>1, InputsAssumption
<1>3. QED  BY <1>2, Constants, Division DEF Blocks, Cap

LEMMA InitialInv ==
    GroupedInit => GroupedInv
<1> SUFFICES ASSUME GroupedInit PROVE GroupedInv
    OBVIOUS
<1>1. GroupedTypeOK
      BY Constants DEF GroupedInit, GroupedTypeOK, Zeros, PerRow, SliceIds
<1>2. EntryPassed /\ BetweenBlocks /\ InsideBlock
      BY DEF GroupedInit, EntryPassed, BetweenBlocks, InsideBlock
<1>3. SlicesEmitted
      BY Constants DEF GroupedInit, SlicesEmitted, EmittedIsExact, SliceIds, Zeros
<1>4. QED  BY <1>1, <1>2, <1>3 DEF GroupedInv

\* What a row holds between two blocks, and with it the widened sum, fits 32 bits.
LEMMA WideningIsExact ==
    ASSUME GroupedInv, at = "block", block > 0 \/ Blocks = 0
    PROVE  Widened = exact[slice]
<1>1. /\ GroupedTypeOK /\ BetweenBlocks /\ EntryPassed
      /\ block \in Nat /\ slice \in SliceIds
      /\ exact[slice] \in [RowIds -> Int]
      BY DEF GroupedInv, GroupedTypeOK, PerRow
<1>2. block * Block <= in.len
      BY <1>1, BlocksFacts, Constants, Grows DEF BetweenBlocks, EntryPassed
<1>3. (block * Block) * Cap <= I32Max
  <2>1. block * Block \in Nat  BY <1>1, Constants
  <2>2. (block * Block) * Cap <= in.len * Cap
        BY <1>1, <1>2, <2>1, BlocksFacts, Grows
  <2>3. in.len * Cap <= I32Max  BY <1>1 DEF EntryPassed
  <2>4. (block * Block) * Cap \in Nat /\ in.len * Cap \in Nat
        BY <1>1, <2>1, BlocksFacts
  <2>5. QED  BY <2>2, <2>3, <2>4, Constants
<1>4. ASSUME NEW r \in RowIds
      PROVE  Wrap32(wide[r] + scratch[r]) = exact[slice][r]
  <2>1. wide[r] + scratch[r] = exact[slice][r]
    <3>1. CASE block > 0  BY <1>1, <3>1 DEF BetweenBlocks
    <3>2. CASE Blocks = 0
      <4>1. block = 0  BY <1>1, <3>2 DEF BetweenBlocks
      <4>2. QED  BY <1>1, <3>2, <4>1 DEF BetweenBlocks, Zeros
    <3>3. QED  BY <3>1, <3>2
  <2>2. exact[slice][r] \in Int  BY <1>1
  <2>3. Abs(exact[slice][r]) <= (block * Block) * Cap
        BY <1>1 DEF BetweenBlocks
  <2>4. Abs(exact[slice][r]) \in Int /\ (block * Block) * Cap \in Int
        BY <1>1, <2>2, BlocksFacts, Constants DEF Abs
  <2>5. Abs(exact[slice][r]) <= I32Max
        BY <1>3, <2>3, <2>4, Constants
  <2>6. QED  BY <2>1, <2>2, <2>5, Fits32
<1>5. QED  BY <1>1, <1>4 DEF Widened

LEMMA EnterKeeps ==
    GroupedInv /\ Enter => GroupedInv'
<1> SUFFICES ASSUME GroupedInv, Enter PROVE GroupedInv'
    OBVIOUS
<1>1. GroupedTypeOK'
      BY DEF GroupedInv, GroupedTypeOK, Enter
<1>2. EntryPassed'
  <2>1. in' = in /\ (at' = "declined" \/ (at' = "block" /\ ~TooLong))
        BY DEF Enter
  <2>2. in.len * Cap \in Int /\ I32Max \in Int
        BY BlocksFacts, Constants DEF GroupedInv
  <2>3. ~TooLong => Blocks * Block = in.len /\ in.len * Cap <= I32Max
        BY <2>2 DEF TooLong, Cap
  <2>4. QED  BY <2>1, <2>3 DEF EntryPassed, Blocks, Cap
<1>3. BetweenBlocks'
  <2> SUFFICES ASSUME at' = "block" PROVE BetweenBlocks'
      BY DEF BetweenBlocks
  <2>1. block = 0 /\ budget = 0 /\ wide = Zeros /\ scratch = Zeros /\ exact[slice] = Zeros
        BY DEF GroupedInv, SlicesEmitted, Enter
  <2>2. \A r \in RowIds : Abs(exact[slice][r]) <= (block * Block) * Cap
        BY <2>1, BlocksFacts, Constants DEF GroupedInv, Zeros, Abs
  <2>3. 0 <= Blocks  BY BlocksFacts DEF GroupedInv
  <2>4. QED  BY <2>1, <2>2, <2>3 DEF Enter, BetweenBlocks, Blocks, Zeros
<1>4. InsideBlock'  BY DEF Enter, InsideBlock
<1>5. SlicesEmitted'
      BY DEF GroupedInv, Enter, SlicesEmitted, EmittedIsExact
<1>6. QED  BY <1>1, <1>2, <1>3, <1>4, <1>5 DEF GroupedInv

LEMMA OpenBlockKeeps ==
    GroupedInv /\ OpenBlock => GroupedInv'
<1> SUFFICES ASSUME GroupedInv, OpenBlock PROVE GroupedInv'
    OBVIOUS
<1>0. PICK m \in 0 .. (I16Max + 1) :
         /\ IsLargest(m)
         /\ Block * m <= I16Max
         /\ largest' = m
         /\ IF budget + (Block * m) > I16Max
            THEN wide' = Widened /\ budget' = 0
            ELSE UNCHANGED <<wide, budget>>
      BY DEF OpenBlock
<1>1. /\ GroupedTypeOK /\ BetweenBlocks
      /\ at = "block" /\ block < Blocks /\ block \in Nat
      /\ budget \in Nat /\ budget <= I16Max
      /\ m \in Nat
      /\ exact[slice] \in [RowIds -> Int]
      /\ wide \in [RowIds -> Int] /\ scratch \in [RowIds -> Int]
      BY Constants DEF GroupedInv, GroupedTypeOK, OpenBlock, PerRow
<1>2. Block * m \in Nat /\ m <= I16Max
  <2>1. Block * m \in Nat  BY <1>1, Constants
  <2>2. 1 * m <= Block * m  BY <1>1, Constants, Grows
  <2>3. QED  BY <1>0, <1>1, <2>1, <2>2, Constants
<1>3. budget + (Block * m) > I16Max => budget > 0 /\ block > 0
      BY <1>0, <1>1, <1>2, Constants DEF BetweenBlocks
<1>4. budget + (Block * m) > I16Max => wide' = exact[slice] /\ budget' = 0
      BY <1>0, <1>1, <1>3, WideningIsExact
<1>5. budget' \in Nat /\ budget' + (Block * m) <= I16Max
  <2>1. CASE budget + (Block * m) > I16Max
        BY <1>0, <1>1, <1>2, <1>4, <2>1
  <2>2. CASE ~(budget + (Block * m) > I16Max)
    <3>1. budget' = budget  BY <1>0, <2>2
    <3>2. budget + (Block * m) \in Int /\ I16Max \in Int  BY <1>1, <1>2, Constants
    <3>3. QED  BY <1>1, <2>2, <3>1, <3>2
  <2>3. QED  BY <2>1, <2>2
<1>6. wide' \in [RowIds -> Int]
      BY <1>0, <1>1, <1>4
<1>7. GroupedTypeOK'
      BY <1>0, <1>1, <1>2, <1>5, <1>6, Constants
         DEF GroupedTypeOK, OpenBlock, PerRow, Zeros
<1>8. EntryPassed'
      BY <1>1 DEF GroupedInv, OpenBlock, EntryPassed, Blocks, Cap
<1>9. BetweenBlocks'  BY DEF OpenBlock, BetweenBlocks
<1>10. InsideBlock'
  <2>1. block' = block /\ slice' = slice /\ in' = in /\ exact' = exact /\ scratch' = scratch
        /\ at' = "groups" /\ group' = 0 /\ partial' = Zeros /\ largest' = m
        BY <1>0 DEF OpenBlock
  <2>2. group' < Pass  BY <2>1, Constants
  <2>3. \A e \in InBlock' : Abs(in'.digit[slice'][e]) <= largest'
        BY <1>0, <2>1 DEF IsLargest, InBlock
  <2>4. ASSUME NEW r \in RowIds
        PROVE  /\ Abs(partial'[r]) <= group' * (4 * largest')
               /\ budget' > 0 => Abs(scratch'[r]) <= budget'
               /\ wide'[r] + (IF budget' = 0 THEN 0 ELSE scratch'[r]) + partial'[r]
                    = exact'[slice'][r]
               /\ Abs(exact'[slice'][r]) <= ((block' * Block) * Cap) + (group' * (4 * Cap))
    <3>1. partial'[r] = 0 /\ Abs(partial'[r]) = 0  BY <2>1 DEF Zeros, Abs
    <3>2. group' * (4 * largest') = 0 /\ group' * (4 * Cap) = 0
          BY <1>1, <2>1, BlocksFacts
    <3>3. budget' > 0 => Abs(scratch'[r]) <= budget'
      <4>1. CASE budget + (Block * m) > I16Max  BY <1>4, <4>1
      <4>2. CASE ~(budget + (Block * m) > I16Max)
            BY <1>0, <1>1, <2>1, <4>2 DEF BetweenBlocks
      <4>3. QED  BY <4>1, <4>2
    <3>4. wide'[r] + (IF budget' = 0 THEN 0 ELSE scratch'[r]) = exact[slice][r]
      <4>1. CASE budget + (Block * m) > I16Max  BY <1>1, <1>4, <4>1
      <4>2. CASE ~(budget + (Block * m) > I16Max)
        <5>1. wide' = wide /\ budget' = budget  BY <1>0, <4>2
        <5>2. CASE block = 0
              BY <1>1, <5>1, <5>2 DEF BetweenBlocks, Zeros
        <5>3. CASE block > 0
          <6>1. /\ Abs(scratch[r]) <= budget
                /\ wide[r] + scratch[r] = exact[slice][r]
                BY <1>1, <5>3 DEF BetweenBlocks
          <6>2. scratch[r] \in Int /\ wide[r] \in Int  BY <1>1
          <6>3. budget = 0 => scratch[r] = 0  BY <6>1, <6>2 DEF Abs
          <6>4. QED  BY <2>1, <5>1, <6>1, <6>2, <6>3
        <5>4. QED  BY <1>1, <5>2, <5>3
      <4>3. QED  BY <4>1, <4>2
    <3>5. Abs(exact[slice][r]) <= (block * Block) * Cap  BY <1>1 DEF BetweenBlocks
    <3>6. QED
          BY <1>1, <1>6, <2>1, <3>1, <3>2, <3>3, <3>4, <3>5, BlocksFacts, Constants
  <2>5. QED
        BY <1>1, <1>5, <2>1, <2>2, <2>3, <2>4 DEF InsideBlock, Blocks
<1>11. SlicesEmitted'
      BY DEF GroupedInv, OpenBlock, SlicesEmitted, EmittedIsExact
<1>12. QED  BY <1>7, <1>8, <1>9, <1>10, <1>11 DEF GroupedInv

LEMMA DeclineBlockKeeps ==
    GroupedInv /\ DeclineBlock => GroupedInv'
<1> SUFFICES ASSUME GroupedInv, DeclineBlock PROVE GroupedInv'
    OBVIOUS
<1>1. GroupedTypeOK'  BY DEF GroupedInv, GroupedTypeOK, DeclineBlock
<1>2. EntryPassed' /\ BetweenBlocks' /\ InsideBlock'
      BY DEF DeclineBlock, EntryPassed, BetweenBlocks, InsideBlock
<1>3. SlicesEmitted'
      BY DEF GroupedInv, DeclineBlock, SlicesEmitted, EmittedIsExact
<1>4. QED  BY <1>1, <1>2, <1>3 DEF GroupedInv

LEMMA AddGroupKeeps ==
    GroupedInv /\ AddGroup => GroupedInv'
<1> SUFFICES ASSUME GroupedInv, AddGroup PROVE GroupedInv'
    OBVIOUS
<1>1. /\ GroupedTypeOK /\ InsideBlock /\ EntryPassed
      /\ at = "groups" /\ group < Pass /\ group \in Nat
      /\ block < Blocks /\ block \in Nat
      /\ budget \in Nat /\ largest \in Nat /\ slice \in SliceIds
      /\ budget + (Block * largest) <= I16Max
      /\ Blocks * Block = in.len
      /\ partial \in [RowIds -> Int] /\ scratch \in [RowIds -> Int]
      /\ wide \in [RowIds -> Int]
      /\ exact \in [SliceIds -> [RowIds -> Int]]
      BY Constants DEF GroupedInv, GroupedTypeOK, AddGroup, InsideBlock, EntryPassed, PerRow
<1>2. \A c \in 0 .. 3 : /\ First + c \in InBlock
                         /\ First + c \in 0 .. (in.len - 1)
  <2> DEFINE before == block * Block
  <2>1. /\ Block \in Nat /\ Blocks \in Nat /\ block + 1 \in Nat /\ block + 1 <= Blocks
        /\ in.len \in Nat
        BY <1>1, BlocksFacts, Constants
  <2>2. (block + 1) * Block <= in.len
        BY <1>1, <2>1, Grows
  <2>3. before + Block <= in.len /\ before \in Nat
        BY <1>1, <2>1, <2>2, Products
  <2>4. (group * 4) + 3 < Block  BY <1>1, Constants
  <2>5. First = before + (group * 4) /\ InBlock = before .. (before + Block - 1)
        BY DEF First, InBlock, Group
  <2> HIDE DEF before
  <2>6. QED  BY <1>1, <2>1, <2>3, <2>4, <2>5
<1>3. \A c \in 0 .. 3 : /\ in.digit[slice][First + c] \in Int
                         /\ Abs(in.digit[slice][First + c]) <= largest
  <2>1. \A c \in 0 .. 3 : in.digit[slice][First + c] \in I16
        BY <1>1, <1>2, BlocksFacts
  <2>2. QED  BY <1>1, <1>2, <2>1, Constants DEF InsideBlock, I16
<1>4. First \in Nat  BY <1>1, Constants DEF First, Group
<1>5. Block * largest \in Nat /\ Block * largest <= I16Max /\ 4 * largest <= Block * largest
  <2>1. 4 <= Block  BY Constants
  <2>2. QED  BY <1>1, <2>1, Constants, Grows
<1>6. \A r \in RowIds : /\ LookUp(r) = GroupTerm(r)
                        /\ GroupTerm(r) \in Int
                        /\ Abs(GroupTerm(r)) <= 4 * largest
  <2>1. 4 * largest <= I16Max
        BY <1>1, <1>5, Constants
  <2>2. QED  BY <1>1, <1>3, <1>4, <2>1, LookUpExact
<1>7. ASSUME NEW r \in RowIds
      PROVE  /\ Abs(partial[r] + GroupTerm(r)) <= (group + 1) * (4 * largest)
             /\ Wrap16(partial[r] + LookUp(r)) = partial[r] + GroupTerm(r)
  <2>1. Abs(partial[r]) <= group * (4 * largest)  BY <1>1 DEF InsideBlock
  <2>2. (group + 1) * (4 * largest) = (group * (4 * largest)) + (4 * largest)
        BY <1>1
  <2>3. group * (4 * largest) \in Nat /\ (group + 1) * (4 * largest) \in Nat
        BY <1>1
  <2>4. Abs(partial[r] + GroupTerm(r)) <= (group + 1) * (4 * largest)
        BY <1>1, <1>6, <2>1, <2>2, <2>3 DEF Abs
  <2>5. (group + 1) * (4 * largest) <= Block * largest
    <3>1. (group + 1) * (4 * largest) <= Pass * (4 * largest)
          BY <1>1, Constants, Grows
    <3>2. Pass * (4 * largest) = Block * largest  BY <1>1, Constants
    <3>3. QED  BY <3>1, <3>2
  <2>6. partial[r] + GroupTerm(r) \in Int  BY <1>1, <1>6
  <2>7. Abs(partial[r] + GroupTerm(r)) <= I16Max
        BY <1>5, <2>3, <2>4, <2>5, <2>6, Constants DEF Abs
  <2>8. QED  BY <1>6, <2>4, <2>6, <2>7, Fits16
<1>8. /\ partial' = [r \in RowIds |-> partial[r] + GroupTerm(r)]
      /\ exact' = [exact EXCEPT ![slice] =
                      [r \in RowIds |-> exact[slice][r] + GroupTerm(r)]]
      /\ exact'[slice] = [r \in RowIds |-> exact[slice][r] + GroupTerm(r)]
      /\ group' = group + 1
      /\ at' = IF group + 1 = Pass THEN "rows" ELSE "groups"
      /\ in' = in /\ slice' = slice /\ block' = block /\ largest' = largest
      /\ budget' = budget /\ scratch' = scratch /\ wide' = wide /\ out' = out
      BY <1>1, <1>7 DEF AddGroup
<1>9. partial' \in [RowIds -> Int] /\ exact' \in [SliceIds -> [RowIds -> Int]]
      BY <1>1, <1>6, <1>8
<1>10. GroupedTypeOK'
  <2>1. group' \in 0 .. Pass  BY <1>1, <1>8, Constants
  <2>2. QED  BY <1>1, <1>8, <1>9, <2>1 DEF GroupedTypeOK, PerRow
<1>11. EntryPassed'
      BY <1>1, <1>8 DEF EntryPassed, Blocks, Cap
<1>12. BetweenBlocks'  BY <1>8 DEF BetweenBlocks
<1>13. InsideBlock'
  <2>1. IF at' = "groups" THEN group' < Pass ELSE group' = Pass
        BY <1>1, <1>8, Constants
  <2>2. ASSUME NEW r \in RowIds
        PROVE  /\ Abs(partial'[r]) <= group' * (4 * largest')
               /\ budget' > 0 => Abs(scratch'[r]) <= budget'
               /\ wide'[r] + (IF budget' = 0 THEN 0 ELSE scratch'[r]) + partial'[r]
                    = exact'[slice'][r]
               /\ Abs(exact'[slice'][r]) <= ((block' * Block) * Cap) + (group' * (4 * Cap))
    <3>1. Abs(partial'[r]) <= group' * (4 * largest')  BY <1>7, <1>8
    <3>2. budget' > 0 => Abs(scratch'[r]) <= budget'  BY <1>1, <1>8 DEF InsideBlock
    <3>3. wide'[r] + (IF budget' = 0 THEN 0 ELSE scratch'[r]) + partial'[r]
             = exact'[slice'][r]
      <4>1. wide[r] + (IF budget = 0 THEN 0 ELSE scratch[r]) + partial[r] = exact[slice][r]
            BY <1>1 DEF InsideBlock
      <4>2. QED  BY <1>1, <1>6, <1>8, <4>1
    <3>4. Abs(exact'[slice'][r]) <= ((block' * Block) * Cap) + (group' * (4 * Cap))
      <4>0. Cap \in Nat /\ 4 * Cap \in Nat  BY <1>1, BlocksFacts
      <4>1. largest <= Cap
            BY <1>1, <1>5, Constants, Division DEF Cap
      <4>2. Abs(exact[slice][r]) <= ((block * Block) * Cap) + (group * (4 * Cap))
            BY <1>1 DEF InsideBlock
      <4>3. Abs(GroupTerm(r)) <= 4 * Cap /\ GroupTerm(r) \in Int
        <5>1. 4 * largest <= 4 * Cap  BY <1>1, <4>1, BlocksFacts
        <5>2. QED  BY <1>1, <1>6, <5>1, BlocksFacts, SMTT(60) DEF Abs
      <4>4. (group + 1) * (4 * Cap) = (group * (4 * Cap)) + (4 * Cap)
            BY <1>1, <4>0, Products
      <4>5. /\ (block * Block) * Cap \in Nat /\ group * (4 * Cap) \in Nat /\ 4 * Cap \in Nat
            /\ exact[slice][r] \in Int
        <5>1. block * Block \in Nat  BY <1>1, Constants
        <5>2. QED  BY <1>1, <4>0, <5>1, Products
      <4>6. Abs(exact[slice][r] + GroupTerm(r))
               <= ((block * Block) * Cap) + ((group + 1) * (4 * Cap))
            BY <4>2, <4>3, <4>4, <4>5 DEF Abs
      <4>7. QED  BY <1>8, <4>6
    <3>5. QED  BY <3>1, <3>2, <3>3, <3>4
  <2>3. \A e \in InBlock' : Abs(in'.digit[slice'][e]) <= largest'
        BY <1>1, <1>8 DEF InsideBlock, InBlock
  <2>4. QED  BY <1>1, <1>8, <2>1, <2>2, <2>3 DEF InsideBlock, Blocks
<1>14. SlicesEmitted'
  <2>1. \A s \in SliceIds : s # slice => exact'[s] = exact[s]  BY <1>1, <1>8
  <2>2. slice \in Int /\ \A s \in SliceIds : s \in Int  BY <1>1 DEF SliceIds
  <2>3. at' # "entered" /\ at' # "emitted"  BY <1>8
  <2>4. QED
        BY <1>8, <2>1, <2>2, <2>3 DEF GroupedInv, SlicesEmitted, EmittedIsExact
<1>15. QED  BY <1>10, <1>11, <1>12, <1>13, <1>14 DEF GroupedInv

LEMMA CloseBlockKeeps ==
    GroupedInv /\ CloseBlock => GroupedInv'
<1> SUFFICES ASSUME GroupedInv, CloseBlock PROVE GroupedInv'
    OBVIOUS
<1>1. /\ GroupedTypeOK /\ InsideBlock /\ EntryPassed
      /\ at = "rows" /\ group = Pass
      /\ block < Blocks /\ block \in Nat
      /\ budget \in Nat /\ largest \in Nat /\ slice \in SliceIds
      /\ budget + (Block * largest) <= I16Max
      /\ partial \in [RowIds -> Int] /\ scratch \in [RowIds -> Int]
      /\ wide \in [RowIds -> Int]
      /\ exact[slice] \in [RowIds -> Int]
      BY Constants DEF GroupedInv, GroupedTypeOK, CloseBlock, InsideBlock, EntryPassed, PerRow
<1>2. Block * largest \in Nat /\ group * (4 * largest) = Block * largest
      /\ group * (4 * Cap) = Block * Cap
      BY <1>1, BlocksFacts, Constants
<1>3. ASSUME NEW r \in RowIds
      PROVE  /\ Joined(r) = (IF budget = 0 THEN 0 ELSE scratch[r]) + partial[r]
             /\ Joined(r) \in Int
             /\ Abs(Joined(r)) <= budget + (Block * largest)
  <2>1. Abs(partial[r]) <= Block * largest /\ partial[r] \in Int
        BY <1>1, <1>2 DEF InsideBlock
  <2>2. CASE budget = 0
        BY <1>2, <2>1, <2>2 DEF Joined
  <2>3. CASE budget > 0
    <3>1. Abs(scratch[r]) <= budget /\ scratch[r] \in Int
          BY <1>1, <2>3 DEF InsideBlock
    <3>2. Abs(partial[r] + scratch[r]) <= budget + (Block * largest)
          BY <1>1, <1>2, <2>1, <3>1 DEF Abs
    <3>3. Abs(partial[r] + scratch[r]) <= I16Max
          BY <1>1, <1>2, <2>1, <3>1, <3>2, Constants DEF Abs
    <3>4. Joined(r) = partial[r] + scratch[r]
          BY <2>1, <2>3, <3>1, <3>3, Fits16 DEF Joined
    <3>5. QED  BY <2>1, <2>3, <3>1, <3>2, <3>4
  <2>4. QED  BY <1>1, <2>2, <2>3
<1>4. /\ scratch' = [r \in RowIds |-> Joined(r)]
      /\ budget' = budget + (Block * largest)
      /\ at' = "block" /\ block' = block + 1
      /\ in' = in /\ slice' = slice /\ wide' = wide /\ exact' = exact
      BY DEF CloseBlock, Spent
<1>5. GroupedTypeOK'
  <2>1. scratch' \in [RowIds -> Int]  BY <1>3, <1>4
  <2>2. budget' \in 0 .. I16Max /\ block' \in Nat  BY <1>1, <1>2, <1>4, Constants
  <2>3. QED  BY <1>1, <1>4, <2>1, <2>2 DEF GroupedTypeOK, CloseBlock, PerRow
<1>6. EntryPassed'  BY <1>1, <1>4 DEF EntryPassed, Blocks, Cap
<1>7. BetweenBlocks'
  <2>1. /\ block' <= Blocks /\ block' > 0 /\ Blocks # 0
        BY <1>1, <1>4, BlocksFacts
  <2>2. ASSUME NEW r \in RowIds
        PROVE  /\ Abs(scratch'[r]) <= budget'
               /\ wide'[r] + scratch'[r] = exact'[slice'][r]
               /\ Abs(exact'[slice'][r]) <= (block' * Block) * Cap
    <3>1. Abs(scratch'[r]) <= budget'  BY <1>3, <1>4
    <3>2. wide[r] + (IF budget = 0 THEN 0 ELSE scratch[r]) + partial[r] = exact[slice][r]
          BY <1>1 DEF InsideBlock
    <3>3. wide'[r] + scratch'[r] = exact'[slice'][r]
          BY <1>1, <1>3, <1>4, <3>2
    <3>4. Abs(exact[slice][r]) <= ((block * Block) * Cap) + (Block * Cap)
          BY <1>1, <1>2 DEF InsideBlock
    <3>5. ((block + 1) * Block) * Cap = ((block * Block) * Cap) + (Block * Cap)
          BY <1>1, BlocksFacts, Constants
    <3>6. QED  BY <1>4, <3>1, <3>3, <3>4, <3>5
  <2>3. QED  BY <1>4, <2>1, <2>2 DEF BetweenBlocks, Blocks
<1>8. InsideBlock'  BY <1>4 DEF InsideBlock
<1>9. SlicesEmitted'
      BY DEF GroupedInv, CloseBlock, SlicesEmitted, EmittedIsExact
<1>10. QED  BY <1>5, <1>6, <1>7, <1>8, <1>9 DEF GroupedInv

LEMMA NextSliceKeeps ==
    GroupedInv /\ NextSlice => GroupedInv'
<1> SUFFICES ASSUME GroupedInv, NextSlice PROVE GroupedInv'
    OBVIOUS
<1>1. /\ GroupedTypeOK /\ BetweenBlocks /\ SlicesEmitted
      /\ at = "block" /\ block = Blocks /\ block \in Nat
      /\ slice \in SliceIds /\ slice + 1 \in SliceIds /\ slice \in Nat
      /\ \A s \in SliceIds : s \in Int
      /\ exact \in [SliceIds -> [RowIds -> Int]]
      /\ out \in [SliceIds -> [RowIds -> Int]]
      BY Constants DEF GroupedInv, GroupedTypeOK, NextSlice, EndSlice, SliceIds, PerRow
<1>2. Widened = exact[slice]
      BY <1>1, WideningIsExact
<1>3. /\ out' = [out EXCEPT ![slice] = exact[slice]]
      /\ slice' = slice + 1 /\ block' = 0 /\ budget' = 0 /\ wide' = Zeros
      /\ at' = "block" /\ in' = in /\ exact' = exact /\ scratch' = scratch
      /\ group' = group /\ largest' = largest /\ partial' = partial
      BY <1>1, <1>2 DEF NextSlice, EndSlice
<1>4. exact'[slice'] = Zeros
  <2>1. slice + 1 > slice  BY <1>1
  <2>2. QED  BY <1>1, <1>3, <2>1 DEF SlicesEmitted
<1>5. GroupedTypeOK'
  <2>1. out' \in [SliceIds -> [RowIds -> Int]]  BY <1>1, <1>3
  <2>2. wide' \in [RowIds -> Int]  BY <1>3 DEF Zeros
  <2>3. QED  BY <1>1, <1>3, <2>1, <2>2, Constants DEF GroupedTypeOK, PerRow
<1>6. EntryPassed'  BY <1>1, <1>3 DEF GroupedInv, EntryPassed, Blocks, Cap
<1>7. BetweenBlocks'
  <2>1. 0 <= Blocks /\ (0 * Block) * Cap = 0  BY <1>1, BlocksFacts, Constants
  <2>2. \A r \in RowIds : Abs(exact'[slice'][r]) <= (block' * Block) * Cap
        BY <1>3, <1>4, <2>1 DEF Zeros, Abs
  <2>3. Blocks = 0 => scratch = Zeros  BY <1>1 DEF BetweenBlocks
  <2>4. QED  BY <1>3, <1>4, <2>1, <2>2, <2>3 DEF BetweenBlocks, Blocks, Zeros
<1>8. InsideBlock'  BY <1>3 DEF InsideBlock
<1>9. SlicesEmitted'
  <2>1. ASSUME NEW s \in SliceIds
        PROVE  /\ s < slice' => out'[s] = exact'[s]
               /\ s > slice' => exact'[s] = Zeros
    <3>1. s \in Int  BY <1>1
    <3>2. CASE s = slice  BY <1>1, <1>3, <3>2
    <3>3. CASE s # slice
      <4>1. out'[s] = out[s]  BY <1>1, <1>3, <3>3
      <4>2. QED  BY <1>1, <1>3, <3>1, <3>3, <4>1 DEF SlicesEmitted
    <3>4. QED  BY <3>2, <3>3
  <2>2. QED  BY <1>3, <2>1 DEF SlicesEmitted, EmittedIsExact
<1>10. QED  BY <1>5, <1>6, <1>7, <1>8, <1>9 DEF GroupedInv

LEMMA LastSliceKeeps ==
    GroupedInv /\ LastSlice => GroupedInv'
<1> SUFFICES ASSUME GroupedInv, LastSlice PROVE GroupedInv'
    OBVIOUS
<1>1. /\ GroupedTypeOK /\ BetweenBlocks /\ SlicesEmitted
      /\ at = "block" /\ block = Blocks /\ block \in Nat
      /\ slice \in SliceIds /\ slice + 1 = Slices /\ slice \in Nat
      /\ exact \in [SliceIds -> [RowIds -> Int]]
      /\ out \in [SliceIds -> [RowIds -> Int]]
      BY Constants DEF GroupedInv, GroupedTypeOK, LastSlice, EndSlice, SliceIds, PerRow
<1>2. Widened = exact[slice]
      BY <1>1, WideningIsExact
<1>3. /\ out' = [out EXCEPT ![slice] = exact[slice]]
      /\ slice' = slice /\ block' = block /\ budget' = budget /\ wide' = exact[slice]
      /\ at' = "emitted" /\ in' = in /\ exact' = exact /\ scratch' = scratch
      /\ group' = group /\ largest' = largest /\ partial' = partial
      BY <1>1, <1>2 DEF LastSlice, EndSlice
<1>4. GroupedTypeOK'
  <2>1. out' \in [SliceIds -> [RowIds -> Int]]  BY <1>1, <1>3
  <2>2. QED  BY <1>1, <1>3, <2>1 DEF GroupedTypeOK, PerRow
<1>5. EntryPassed'  BY <1>1, <1>3 DEF GroupedInv, EntryPassed, Blocks, Cap
<1>6. BetweenBlocks' /\ InsideBlock'  BY <1>3 DEF BetweenBlocks, InsideBlock
<1>7. \A s \in SliceIds : s \in Int /\ (s # slice => s < slice) /\ ~(s > slice)
      BY <1>1, Constants DEF SliceIds
<1>8. out' = exact'
  <2>1. \A s \in SliceIds : out'[s] = exact[s]
        BY <1>1, <1>3, <1>7 DEF SlicesEmitted
  <2>2. out' \in [SliceIds -> [RowIds -> Int]]  BY <1>1, <1>3
  <2>3. QED  BY <1>1, <1>3, <2>1, <2>2
<1>9. SlicesEmitted'
      BY <1>3, <1>7, <1>8 DEF SlicesEmitted, EmittedIsExact
<1>10. QED  BY <1>4, <1>5, <1>6, <1>9 DEF GroupedInv

LEMMA StutterKeeps ==
    GroupedInv /\ UNCHANGED gvars => GroupedInv'
<1> SUFFICES ASSUME GroupedInv, UNCHANGED gvars PROVE GroupedInv'
    OBVIOUS
<1>1. GroupedTypeOK'  BY DEF GroupedInv, GroupedTypeOK, gvars
<1>2. EntryPassed' /\ BetweenBlocks'
      BY DEF GroupedInv, EntryPassed, BetweenBlocks, Blocks, gvars
<1>3. InsideBlock'
      BY DEF GroupedInv, InsideBlock, InBlock, Blocks, gvars
<1>4. SlicesEmitted'
      BY DEF GroupedInv, SlicesEmitted, EmittedIsExact, gvars
<1>5. QED  BY <1>1, <1>2, <1>3, <1>4 DEF GroupedInv

(***************************************************************************)
(* The theorems of the grouped kernel                                      *)
(***************************************************************************)

\* The strengthened invariant holds in every reachable state of the kernel.
THEOREM GroupedInvariant == GroupedSpec => []GroupedInv
<1>1. GroupedInit => GroupedInv  BY InitialInv
<1>2. GroupedInv /\ [GroupedNext]_gvars => GroupedInv'
      BY EnterKeeps, OpenBlockKeeps, DeclineBlockKeeps, AddGroupKeeps, CloseBlockKeeps,
         NextSliceKeeps, LastSliceKeeps, StutterKeeps DEF GroupedNext
<1>3. QED  BY <1>1, <1>2, PTL DEF GroupedSpec

\* For every width, matrix and vector of digits, no row's sixteen bit sum
\* exceeds the budget between two blocks (ternary_rows).
THEOREM BudgetIsEnough == GroupedSpec => []BudgetCoversRows
<1>1. GroupedInv => BudgetCoversRows
      BY DEF GroupedInv, BetweenBlocks, BudgetCoversRows
<1>2. QED  BY <1>1, GroupedInvariant, PTL

\* For every width, matrix and vector of digits, what the kernel emits is the
\* exact sum of every row (ternary_rows).
THEOREM GroupedKernelIsExact == GroupedSpec => []EmittedIsExact
<1>1. GroupedInv => EmittedIsExact
      BY DEF GroupedInv, SlicesEmitted
<1>2. QED  BY <1>1, GroupedInvariant, PTL

(***************************************************************************)
(* Functions that advance                                                  *)
(***************************************************************************)

\* A set of naturals has a least one.
LEMMA LeastNatural ==
    ASSUME NEW T, T \subseteq Nat, T # {}
    PROVE  \E x \in T : \A y \in T : x <= y
<1>1. IsWellFoundedOn(OpToRel(<, Nat), Nat)
  BY NatLessThanWellFounded
<1>2. PICK x \in T : \A y \in T : ~ (<<y, x>> \in OpToRel(<, Nat))
  BY <1>1, WFMin
<1>3. \A y \in T : y \in Nat
  OBVIOUS
<1>4. \A y \in T : ~(y < x)
  BY <1>2, <1>3 DEF OpToRel
<1> QED BY <1>3, <1>4

\* A value for each number from first to last, the next from the last one.
Advances(g, first, last, base, step) ==
    /\ g[first] = base
    /\ \A i \in first .. last : i < last => g[i + 1] = step[i][g[i]]

\* Every step keeps a value of the right kind.
StepsWithin(step, first, last, V) == \A i \in first .. last : i < last => step[i] \in [V -> V]

\* A function that starts at base and advances by step exists.
LEMMA AdvancesExists ==
    ASSUME NEW first \in Nat, NEW last \in Nat, first <= last, NEW V, NEW base \in V,
           NEW step, StepsWithin(step, first, last, V)
    PROVE  \E g \in [first .. last -> V] : Advances(g, first, last, base, step)
<1> DEFINE Solves(g, n) == g \in [first .. n -> V] /\ Advances(g, first, n, base, step)
           Wrong == {n \in first .. last : ~ \E g : Solves(g, n)}
<1>1. Wrong = {}
  <2> SUFFICES ASSUME Wrong # {} PROVE FALSE
    OBVIOUS
  <2>1. Wrong \subseteq Nat
    OBVIOUS
  <2> HIDE DEF Wrong, Solves
  <2>2. PICK n \in Wrong : \A j \in Wrong : n <= j
    BY <2>1, LeastNatural
  <2>3. n \in first .. last /\ ~ \E g : Solves(g, n)
    BY <2>2 DEF Wrong
  <2>4. CASE n = first
    <3> DEFINE g == [i \in first .. n |-> base]
    <3>1. g \in [first .. n -> V] /\ g[first] = base
      BY <2>4
    <3>2. Advances(g, first, n, base, step)
      BY <2>4, <3>1 DEF Advances
    <3> QED BY <2>3, <3>1, <3>2 DEF Solves
  <2>5. CASE n # first
    <3>1. PICK j \in Nat : n = j + 1 /\ j \in first .. last /\ j < last /\ ~(n <= j)
      <4>1. n - 1 \in Nat /\ n = (n - 1) + 1 /\ n - 1 \in first .. last /\ n - 1 < last /\ ~(n <= n - 1)
        BY <2>3, <2>5
      <4> QED BY <4>1
    <3>2. PICK h : Solves(h, j)
      BY <2>2, <3>1 DEF Wrong
    <3>3. h \in [first .. j -> V] /\ h[first] = base
          /\ \A i \in first .. j : i < j => h[i + 1] = step[i][h[i]]
      BY <3>2 DEF Solves, Advances
    <3>4. step[j] \in [V -> V] /\ h[j] \in V
      BY <3>1, <3>3 DEF StepsWithin
    <3> DEFINE g == [i \in first .. n |-> IF i = n THEN step[j][h[j]] ELSE h[i]]
    <3>5. \A i \in first .. n : i # n => i \in first .. j
      BY <3>1
    <3>6. g \in [first .. n -> V]
      BY <3>3, <3>4, <3>5
    <3>7. \A i \in first .. j : g[i] = h[i]
      BY <3>1
    <3>8. g[n] = step[j][h[j]]
      BY <2>3
    <3> HIDE DEF g
    <3>9. g[first] = base
      BY <3>1, <3>3, <3>7
    <3>10. \A i \in first .. n : i < n => g[i + 1] = step[i][g[i]]
      <4> SUFFICES ASSUME NEW i \in first .. n, i < n PROVE g[i + 1] = step[i][g[i]]
        OBVIOUS
      <4>1. CASE i = j
        BY <3>1, <3>7, <3>8, <4>1
      <4>2. CASE i # j
        <5>1. i \in first .. j /\ i < j /\ i + 1 \in first .. j
          BY <3>1, <4>2
        <5> QED BY <3>3, <3>7, <5>1
      <4> QED BY <4>1, <4>2
    <3> QED BY <2>3, <3>6, <3>9, <3>10 DEF Solves, Advances
  <2> QED BY <2>4, <2>5
<1>2. last \in first .. last
  OBVIOUS
<1> HIDE DEF Solves
<1>3. PICK g : Solves(g, last)
  BY <1>1, <1>2
<1> QED BY <1>3 DEF Solves

\* What takes the steps wherever it has a value of the right kind takes them all.
Resumes(h, first, last, base, step, V) ==
    /\ h[first] = base
    /\ \A i \in first .. last : i < last /\ h[i] \in V => h[i + 1] = step[i][h[i]]

\* All values are of the right kind.
Within(h, first, last, V) == \A i \in first .. last : h[i] \in V

\* What advances inside a set as long as it is in it stays in it.
LEMMA ResumesWithin ==
    ASSUME NEW first \in Nat, NEW last \in Nat, first <= last, NEW V, NEW base \in V,
           NEW step, StepsWithin(step, first, last, V),
           NEW h, Resumes(h, first, last, base, step, V)
    PROVE  Within(h, first, last, V)
<1> DEFINE Wrong == {n \in first .. last : h[n] \notin V}
<1>1. Wrong = {}
  <2> SUFFICES ASSUME Wrong # {} PROVE FALSE
    OBVIOUS
  <2>1. Wrong \subseteq Nat
    OBVIOUS
  <2> HIDE DEF Wrong
  <2>2. PICK n \in Wrong : \A j \in Wrong : n <= j
    BY <2>1, LeastNatural
  <2>3. n \in first .. last /\ h[n] \notin V
    BY <2>2 DEF Wrong
  <2>4. n # first
    BY <2>3 DEF Resumes
  <2>5. PICK j \in Nat : n = j + 1 /\ j \in first .. last /\ j < last /\ ~(n <= j)
    <3>1. n - 1 \in Nat /\ n = (n - 1) + 1 /\ n - 1 \in first .. last /\ n - 1 < last /\ ~(n <= n - 1)
      BY <2>3, <2>4
    <3> QED BY <3>1
  <2>6. h[j] \in V
    BY <2>2, <2>5 DEF Wrong
  <2>7. step[j] \in [V -> V]
    BY <2>5 DEF StepsWithin
  <2>8. h[n] = step[j][h[j]]
    BY <2>5, <2>6 DEF Resumes
  <2> QED BY <2>3, <2>6, <2>7, <2>8
<1> QED BY <1>1 DEF Within

(***************************************************************************)
(* The lists                                                               *)
(***************************************************************************)

\* Ascending, one position after the other.
Stores(g, len, S) ==
    /\ g[0] = << >>
    /\ \A e \in 0 .. (len - 1) : g[e + 1] = IF e \in S THEN Append(g[e], e) ELSE g[e]

\* The list of a set of positions is stored one position after the other.
LEMMA AscendingStores ==
    ASSUME NEW len \in Nat, NEW S
    PROVE  \E g : /\ \A e \in 0 .. len : g[e] \in Seq(Nat)
                  /\ Stores(g, len, S)
                  /\ Ascending(len, S) = g[len]
<1> DEFINE Body(g, e) == IF e = 0 THEN << >>
                         ELSE IF e - 1 \in S THEN Append(g[e - 1], e - 1) ELSE g[e - 1]
           Equation(g) == g = [e \in 0 .. len |-> Body(g, e)]
           stored == CHOOSE g : Equation(g)
           step == [i \in 0 .. len |-> [q \in Seq(Nat) |-> IF i \in S THEN Append(q, i) ELSE q]]
<1>1. Ascending(len, S) = stored[len]
  BY DEF Ascending
<1>2. \A i \in 0 .. len : /\ step[i] \in [Seq(Nat) -> Seq(Nat)]
                          /\ \A q \in Seq(Nat) : step[i][q] = IF i \in S THEN Append(q, i) ELSE q
  <2>1. \A i \in 0 .. len : \A q \in Seq(Nat) : Append(q, i) \in Seq(Nat)
    OBVIOUS
  <2> QED BY <2>1
<1> HIDE DEF step
<1>3. << >> \in Seq(Nat) /\ 0 \in Nat /\ 0 <= len /\ StepsWithin(step, 0, len, Seq(Nat))
  BY <1>2 DEF StepsWithin
<1>4. PICK g \in [0 .. len -> Seq(Nat)] : Advances(g, 0, len, << >>, step)
  BY <1>3, AdvancesExists
<1>5. Equation(g)
  <2>1. g[0] = << >> /\ \A i \in 0 .. len : i < len => g[i + 1] = step[i][g[i]]
    BY <1>4 DEF Advances
  <2>2. ASSUME NEW e \in 0 .. len PROVE g[e] = Body(g, e)
    <3>1. CASE e = 0
      BY <2>1, <3>1
    <3>2. CASE e # 0
      <4>1. e - 1 \in 0 .. len /\ e - 1 < len /\ (e - 1) + 1 = e
        BY <3>2
      <4> QED BY <1>2, <2>1, <3>2, <4>1
    <3> QED BY <3>1, <3>2
  <2> HIDE DEF Body
  <2> QED BY <2>2
<1>6. Equation(stored)
  <2> HIDE DEF Equation
  <2> QED BY <1>5
<1> HIDE DEF stored
<1>7. \A e \in 0 .. len : stored[e] = Body(stored, e)
  <2> HIDE DEF Body
  <2> QED BY <1>6
<1>8. Stores(stored, len, S)
  <2>1. stored[0] = << >>
    BY <1>7
  <2>2. ASSUME NEW e \in 0 .. (len - 1)
        PROVE  stored[e + 1] = IF e \in S THEN Append(stored[e], e) ELSE stored[e]
    <3>1. e + 1 \in 0 .. len /\ e + 1 # 0 /\ (e + 1) - 1 = e
      OBVIOUS
    <3>2. stored[e + 1] = Body(stored, e + 1)
      <4> HIDE DEF Body
      <4> QED BY <1>7, <3>1
    <3> QED BY <3>1, <3>2
  <2> QED BY <2>1, <2>2 DEF Stores
<1>9. Resumes(stored, 0, len, << >>, step, Seq(Nat))
  <2>1. \A i \in 0 .. len : i < len => i \in 0 .. (len - 1)
    OBVIOUS
  <2> QED BY <1>2, <1>8, <2>1 DEF Resumes, Stores
<1>10. Within(stored, 0, len, Seq(Nat))
  BY <1>3, <1>9, ResumesWithin
<1> QED BY <1>1, <1>8, <1>10 DEF Within

\* How many of a set of positions come before one.
Rank(S, t) == Cardinality({e \in S : e < t})

\* The rank starts at nothing, ends at the whole set and counts each position.
LEMMA RankSteps ==
    ASSUME NEW len \in Nat, NEW S, S \subseteq 0 .. (len - 1)
    PROVE  /\ \A t \in 0 .. len : Rank(S, t) \in Nat
           /\ Rank(S, 0) = 0
           /\ Rank(S, len) = Cardinality(S)
           /\ \A t \in 0 .. (len - 1) :
                 Rank(S, t + 1) = IF t \in S THEN Rank(S, t) + 1 ELSE Rank(S, t)
           /\ \A t \in 0 .. len, u \in 0 .. len : t <= u => Rank(S, t) <= Rank(S, u)
<1> DEFINE Before(t) == {e \in S : e < t}
<1>0. \A e \in S : e \in Nat /\ e < len
  OBVIOUS
<1>1. IsFiniteSet(S)
  <2>1. IsFiniteSet(0 .. (len - 1))
    BY FS_Interval
  <2> QED BY <2>1, FS_Subset
<1>2. \A t \in Int : IsFiniteSet(Before(t))
  <2>1. \A t \in Int : Before(t) \subseteq S
    OBVIOUS
  <2> HIDE DEF Before
  <2> QED BY <1>1, <2>1, FS_Subset
<1>3. \A t \in Int : Rank(S, t) \in Nat /\ Rank(S, t) = Cardinality(Before(t))
  <2>1. \A t \in Int : Rank(S, t) = Cardinality(Before(t))
    BY DEF Rank
  <2> HIDE DEF Before
  <2> QED BY <1>2, <2>1, FS_CardinalityType
<1>4. Rank(S, 0) = 0
  <2>1. Before(0) = {}
    <3>1. \A e \in S : ~(e < 0)
      BY <1>0
    <3> QED BY <3>1
  <2>2. 0 \in Int
    OBVIOUS
  <2> HIDE DEF Before
  <2> QED BY <1>3, <2>1, <2>2, FS_EmptySet
<1>5. Rank(S, len) = Cardinality(S)
  <2>1. Before(len) = S
    BY <1>0
  <2> HIDE DEF Before
  <2> QED BY <1>3, <2>1
<1>6. ASSUME NEW t \in 0 .. (len - 1)
      PROVE  Rank(S, t + 1) = IF t \in S THEN Rank(S, t) + 1 ELSE Rank(S, t)
  <2>1. CASE t \in S
    <3>1. Before(t + 1) = Before(t) \cup {t} /\ t \notin Before(t)
      <4>1. (\A e \in S : e < t + 1 <=> e < t \/ e = t) /\ ~(t < t)
        BY <1>0
      <4> QED BY <2>1, <4>1
    <3>2. t \in Int /\ t + 1 \in Int
      OBVIOUS
    <3> HIDE DEF Before
    <3> QED BY <1>2, <1>3, <2>1, <3>1, <3>2, FS_AddElement
  <2>2. CASE t \notin S
    <3>1. Before(t + 1) = Before(t)
      <4>1. \A e \in S : e < t + 1 <=> e < t \/ e = t
        BY <1>0
      <4> QED BY <2>2, <4>1
    <3>2. t \in Int /\ t + 1 \in Int
      OBVIOUS
    <3> HIDE DEF Before
    <3> QED BY <1>3, <2>2, <3>1, <3>2
  <2> QED BY <2>1, <2>2
<1>7. ASSUME NEW t \in 0 .. len, NEW u \in 0 .. len, t <= u
      PROVE  Rank(S, t) <= Rank(S, u)
  <2>1. Before(t) \subseteq Before(u) /\ t \in Int /\ u \in Int
    <3>1. \A e \in S : e < t => e < u
      BY <1>0, <1>7
    <3>2. t \in Int /\ u \in Int
      OBVIOUS
    <3> QED BY <3>1, <3>2
  <2> HIDE DEF Before
  <2> QED BY <1>2, <1>3, <2>1, FS_Subset
<1>8. \A t \in 0 .. len : Rank(S, t) \in Nat
  <2>1. \A t \in 0 .. len : t \in Int
    OBVIOUS
  <2> QED BY <1>3, <2>1
<1>9. \A t \in 0 .. len, u \in 0 .. len : t <= u => Rank(S, t) <= Rank(S, u)
  BY <1>7
<1>10. \A t \in 0 .. (len - 1) :
         Rank(S, t + 1) = IF t \in S THEN Rank(S, t) + 1 ELSE Rank(S, t)
  BY <1>6
<1> QED BY <1>4, <1>5, <1>8, <1>9, <1>10

\* A list holds the positions below u of S: whatever comes before t is among the
\* first Rank(S, t).
Sorted(q, S, u) ==
    /\ q \in Seq(Nat)
    /\ Len(q) = Rank(S, u)
    /\ \A p \in 1 .. Len(q) : \A t \in 0 .. u : q[p] < t <=> p <= Rank(S, t)

\* One more position keeps the list sorted.
LEMMA SortedNext ==
    ASSUME NEW len \in Nat, NEW S, S \subseteq 0 .. (len - 1), NEW u \in 0 .. (len - 1),
           NEW q, Sorted(q, S, u)
    PROVE  Sorted(IF u \in S THEN Append(q, u) ELSE q, S, u + 1)
<1>1. /\ \A t \in 0 .. len : Rank(S, t) \in Nat
      /\ Rank(S, u + 1) = IF u \in S THEN Rank(S, u) + 1 ELSE Rank(S, u)
      /\ \A t \in 0 .. u : Rank(S, t) <= Rank(S, u)
  <2>1. \A t \in 0 .. u : t \in 0 .. len /\ t <= u
    OBVIOUS
  <2>2. u \in 0 .. len
    OBVIOUS
  <2>3. /\ \A t \in 0 .. len : Rank(S, t) \in Nat
        /\ \A t \in 0 .. (len - 1) :
              Rank(S, t + 1) = IF t \in S THEN Rank(S, t) + 1 ELSE Rank(S, t)
        /\ \A t \in 0 .. len, v \in 0 .. len : t <= v => Rank(S, t) <= Rank(S, v)
    BY RankSteps
  <2> QED BY <2>1, <2>2, <2>3
<1>2. q \in Seq(Nat) /\ Len(q) = Rank(S, u) /\ Len(q) \in Nat /\ u \in Nat
      /\ \A p \in 1 .. Len(q) : \A t \in 0 .. u : q[p] < t <=> p <= Rank(S, t)
  BY DEF Sorted
<1>3. \A p \in 1 .. Len(q) : q[p] \in Nat /\ q[p] < u
  <2> TAKE p \in 1 .. Len(q)
  <2>1. p <= Rank(S, u) /\ u \in 0 .. u
    BY <1>2
  <2>2. q[p] \in Nat
    BY <1>2
  <2> QED BY <1>2, <2>1, <2>2
<1>4. CASE u \in S
  <2> DEFINE n == Append(q, u)
  <2>1. /\ n \in Seq(Nat) /\ Len(n) = Len(q) + 1 /\ n[Len(q) + 1] = u
        /\ \A p \in 1 .. Len(q) : n[p] = q[p]
    BY <1>2
  <2> HIDE DEF n
  <2>2. ASSUME NEW p \in 1 .. Len(n), NEW t \in 0 .. (u + 1)
        PROVE  n[p] < t <=> p <= Rank(S, t)
    <3>1. CASE p \in 1 .. Len(q) /\ t \in 0 .. u
      BY <1>2, <2>1, <3>1
    <3>2. CASE p \in 1 .. Len(q) /\ t = u + 1
      BY <1>1, <1>2, <1>3, <1>4, <2>1, <3>2
    <3>3. CASE p = Len(q) + 1 /\ t \in 0 .. u
      <4>1. Rank(S, t) <= Len(q) /\ Rank(S, t) \in Nat
        BY <1>1, <1>2, <3>3
      <4> QED BY <1>2, <2>1, <3>3, <4>1
    <3>4. CASE p = Len(q) + 1 /\ t = u + 1
      BY <1>1, <1>2, <1>4, <2>1, <3>4
    <3>5. p \in 1 .. Len(q) \/ p = Len(q) + 1
      BY <1>2, <2>1
    <3>6. t \in 0 .. u \/ t = u + 1
      OBVIOUS
    <3> QED BY <3>1, <3>2, <3>3, <3>4, <3>5, <3>6
  <2>3. Len(n) = Rank(S, u + 1)
    BY <1>1, <1>2, <1>4, <2>1
  <2>4. Sorted(n, S, u + 1)
    BY <2>1, <2>2, <2>3 DEF Sorted
  <2> QED BY <1>4, <2>4 DEF n
<1>5. CASE u \notin S
  <2>1. ASSUME NEW p \in 1 .. Len(q), NEW t \in 0 .. (u + 1)
        PROVE  q[p] < t <=> p <= Rank(S, t)
    <3>1. CASE t \in 0 .. u
      BY <1>2, <3>1
    <3>2. CASE t = u + 1
      BY <1>1, <1>2, <1>3, <1>5, <3>2
    <3> QED BY <3>1, <3>2
  <2>2. Len(q) = Rank(S, u + 1)
    BY <1>1, <1>2, <1>5
  <2> QED BY <1>2, <1>5, <2>1, <2>2 DEF Sorted
<1> QED BY <1>4, <1>5

\* The stored list is sorted and holds the whole set.
LEMMA AscendingSorted ==
    ASSUME NEW len \in Nat, NEW S, S \subseteq 0 .. (len - 1)
    PROVE  Sorted(Ascending(len, S), S, len)
<1>1. PICK g : /\ \A e \in 0 .. len : g[e] \in Seq(Nat)
               /\ Stores(g, len, S)
               /\ Ascending(len, S) = g[len]
  BY AscendingStores
<1> DEFINE Wrong == {u \in 0 .. len : ~ Sorted(g[u], S, u)}
<1>2. Wrong = {}
  <2> SUFFICES ASSUME Wrong # {} PROVE FALSE
    OBVIOUS
  <2>1. Wrong \subseteq Nat
    OBVIOUS
  <2> HIDE DEF Wrong
  <2>2. PICK n \in Wrong : \A j \in Wrong : n <= j
    BY <2>1, LeastNatural
  <2>3. n \in 0 .. len /\ ~ Sorted(g[n], S, n)
    BY <2>2 DEF Wrong
  <2>4. CASE n = 0
    <3>1. g[0] = << >> /\ Rank(S, 0) = 0
      BY <1>1, RankSteps DEF Stores
    <3>2. << >> \in Seq(Nat) /\ Len(<< >>) = 0 /\ 1 .. 0 = {}
      OBVIOUS
    <3>3. Sorted(g[0], S, 0)
      BY <3>1, <3>2 DEF Sorted
    <3> QED BY <2>3, <2>4, <3>3
  <2>5. CASE n # 0
    <3>1. PICK u \in Nat : n = u + 1 /\ u \in 0 .. (len - 1) /\ u \in 0 .. len /\ ~(n <= u)
      <4>1. n - 1 \in Nat /\ n = (n - 1) + 1 /\ n - 1 \in 0 .. (len - 1) /\ n - 1 \in 0 .. len
            /\ ~(n <= n - 1)
        BY <2>3, <2>5
      <4> QED BY <4>1
    <3>2. Sorted(g[u], S, u)
      BY <2>2, <3>1 DEF Wrong
    <3>3. Sorted(IF u \in S THEN Append(g[u], u) ELSE g[u], S, u + 1)
      BY <3>1, <3>2, SortedNext
    <3>4. g[n] = IF u \in S THEN Append(g[u], u) ELSE g[u]
      BY <1>1, <3>1 DEF Stores
    <3> QED BY <2>3, <3>1, <3>3, <3>4
  <2> QED BY <2>4, <2>5
<1>3. len \in 0 .. len
  OBVIOUS
<1>4. Sorted(g[len], S, len)
  BY <1>2, <1>3
<1> QED BY <1>1, <1>4

\* What the assumption on the inputs gives.
LEMMA InputsAre ==
    ASSUME NEW m \in Inputs
    PROVE  /\ m.len \in Nat
           /\ \A s \in SliceIds : \A e \in 0 .. (m.len - 1) : m.digit[s][e] \in I16
           /\ \A r \in RowIds : \A sign \in Signs : EntriesOf(m, sign, r) \subseteq 0 .. (m.len - 1)
           /\ Rows \in Nat \ {0} /\ Slices \in Nat \ {0}
<1>1. /\ m.len \in Nat
      /\ m.digit \in [SliceIds -> [0 .. (m.len - 1) -> I16]]
      /\ m.nonZero \in [RowIds -> SUBSET (0 .. (m.len - 1))]
  BY InputsAssumption
<1>2. \A r \in RowIds : m.nonZero[r] \subseteq 0 .. (m.len - 1)
  BY <1>1
<1>3. \A r \in RowIds : \A sign \in Signs : EntriesOf(m, sign, r) \subseteq 0 .. (m.len - 1)
  BY <1>2 DEF EntriesOf
<1> QED BY <1>1, <1>3, KernelAssumption

\* The bounds count the entries of the rows before.
Counts(b, m, sign) ==
    /\ b[0] = 0
    /\ \A i \in 0 .. Rows : b[i] \in Nat
    /\ \A i \in RowIds : b[i + 1] = b[i] + Cardinality(EntriesOf(m, sign, i))

\* A row has finitely many entries.
LEMMA CountsEntries ==
    ASSUME NEW m \in Inputs, NEW sign \in Signs, NEW i \in RowIds
    PROVE  Cardinality(EntriesOf(m, sign, i)) \in Nat
<1>1. EntriesOf(m, sign, i) \subseteq 0 .. (m.len - 1) /\ m.len \in Nat
  BY InputsAre
<1>2. IsFiniteSet(0 .. (m.len - 1))
  BY <1>1, FS_Interval
<1> QED BY <1>1, <1>2, FS_Subset, FS_CardinalityType

\* The first pass counts the entries of the rows.
LEMMA BoundsCount ==
    ASSUME NEW m \in Inputs, NEW sign \in Signs
    PROVE  Counts(Bounds(m, sign), m, sign)
<1> DEFINE Body(g, i) == IF i = 0 THEN 0
                         ELSE g[i - 1] + Cardinality(EntriesOf(m, sign, i - 1))
           Equation(g) == g = [i \in 0 .. Rows |-> Body(g, i)]
           counted == CHOOSE g : Equation(g)
           step == [i \in 0 .. Rows |-> [n \in Nat |-> n + Cardinality(EntriesOf(m, sign, i))]]
<1>1. Bounds(m, sign) = counted
  BY DEF Bounds
<1>2. /\ \A i \in RowIds : Cardinality(EntriesOf(m, sign, i)) \in Nat
      /\ Rows \in Nat /\ RowIds = 0 .. (Rows - 1)
  BY CountsEntries, InputsAre DEF RowIds
<1>3. \A i \in RowIds : /\ step[i] \in [Nat -> Nat]
                        /\ \A n \in Nat : step[i][n] = n + Cardinality(EntriesOf(m, sign, i))
  <2>1. \A i \in RowIds : \A n \in Nat : n + Cardinality(EntriesOf(m, sign, i)) \in Nat
    BY <1>2
  <2>2. \A i \in RowIds : i \in 0 .. Rows
    BY <1>2
  <2> QED BY <2>1, <2>2
<1> HIDE DEF step
<1>4. \A i \in 0 .. Rows : i < Rows => i \in RowIds
  BY <1>2
<1>5. 0 \in Nat /\ 0 <= Rows /\ Rows \in Nat /\ StepsWithin(step, 0, Rows, Nat)
  <2>1. StepsWithin(step, 0, Rows, Nat)
    BY <1>3, <1>4 DEF StepsWithin
  <2> QED BY <1>2, <2>1
<1>6. PICK g \in [0 .. Rows -> Nat] : Advances(g, 0, Rows, 0, step)
  BY <1>5, AdvancesExists
<1>7. Equation(g)
  <2>1. g[0] = 0 /\ \A i \in 0 .. Rows : i < Rows => g[i + 1] = step[i][g[i]]
    BY <1>6 DEF Advances
  <2>2. ASSUME NEW i \in 0 .. Rows PROVE g[i] = Body(g, i)
    <3>1. CASE i = 0
      BY <2>1, <3>1
    <3>2. CASE i # 0
      <4>1. i - 1 \in 0 .. Rows /\ i - 1 < Rows /\ (i - 1) + 1 = i
        BY <1>5, <3>2
      <4>2. i - 1 \in RowIds /\ g[i - 1] \in Nat
        BY <1>4, <4>1
      <4> QED BY <1>3, <2>1, <3>2, <4>1, <4>2
    <3> QED BY <3>1, <3>2
  <2> HIDE DEF Body
  <2> QED BY <2>2
<1>8. Equation(counted)
  <2> HIDE DEF Equation
  <2> QED BY <1>7
<1> HIDE DEF counted
<1>9. \A i \in 0 .. Rows : counted[i] = Body(counted, i)
  <2> HIDE DEF Body
  <2> QED BY <1>8
<1>10. counted[0] = 0
  BY <1>5, <1>9
<1>11. ASSUME NEW i \in RowIds
       PROVE  counted[i + 1] = counted[i] + Cardinality(EntriesOf(m, sign, i))
  <2>1. i + 1 \in 0 .. Rows /\ i + 1 # 0 /\ (i + 1) - 1 = i
    BY <1>2
  <2>2. counted[i + 1] = Body(counted, i + 1)
    <3> HIDE DEF Body
    <3> QED BY <1>9, <2>1
  <2> QED BY <2>1, <2>2
<1>12. Resumes(counted, 0, Rows, 0, step, Nat)
  BY <1>3, <1>4, <1>10, <1>11 DEF Resumes
<1>13. Within(counted, 0, Rows, Nat)
  BY <1>5, <1>12, ResumesWithin
<1> QED BY <1>1, <1>10, <1>11, <1>13 DEF Counts, Within

\* OffsetList, one row after the other.
Glues(g, m, sign) ==
    /\ g[0] = << >>
    /\ \A i \in 0 .. Rows : g[i] \in Seq(Nat)
    /\ \A i \in RowIds : g[i + 1] = g[i] \o Ascending(m.len, EntriesOf(m, sign, i))

\* The second pass glues the rows' lists.
LEMMA OffsetListGlues ==
    ASSUME NEW m \in Inputs, NEW sign \in Signs
    PROVE  \E g : Glues(g, m, sign) /\ OffsetList(m, sign) = g[Rows]
<1> DEFINE List(i) == Ascending(m.len, EntriesOf(m, sign, i))
           Body(g, i) == IF i = 0 THEN << >> ELSE g[i - 1] \o List(i - 1)
           Equation(g) == g = [i \in 0 .. Rows |-> Body(g, i)]
           glued == CHOOSE g : Equation(g)
           step == [i \in 0 .. Rows |-> [q \in Seq(Nat) |-> q \o List(i)]]
<1>1. OffsetList(m, sign) = glued[Rows]
  BY DEF OffsetList
<1>2. /\ \A i \in RowIds : List(i) \in Seq(Nat)
      /\ Rows \in Nat /\ RowIds = 0 .. (Rows - 1)
  <2>1. /\ m.len \in Nat /\ Rows \in Nat
        /\ \A i \in RowIds : EntriesOf(m, sign, i) \subseteq 0 .. (m.len - 1)
    BY InputsAre
  <2>2. \A i \in RowIds : Sorted(List(i), EntriesOf(m, sign, i), m.len)
    BY <2>1, AscendingSorted
  <2> QED BY <2>1, <2>2 DEF Sorted, RowIds
<1> HIDE DEF List
<1>3. \A i \in RowIds : /\ step[i] \in [Seq(Nat) -> Seq(Nat)]
                        /\ \A q \in Seq(Nat) : step[i][q] = q \o List(i)
  <2>1. \A i \in RowIds : \A q \in Seq(Nat) : q \o List(i) \in Seq(Nat)
    BY <1>2, ConcatProperties
  <2>2. \A i \in RowIds : i \in 0 .. Rows
    BY <1>2
  <2> QED BY <2>1, <2>2
<1> HIDE DEF step
<1>4. \A i \in 0 .. Rows : i < Rows => i \in RowIds
  BY <1>2
<1>5. /\ << >> \in Seq(Nat) /\ 0 \in Nat /\ 0 <= Rows /\ Rows \in Nat
      /\ StepsWithin(step, 0, Rows, Seq(Nat))
  BY <1>2, <1>3, <1>4 DEF StepsWithin
<1>6. PICK g \in [0 .. Rows -> Seq(Nat)] : Advances(g, 0, Rows, << >>, step)
  BY <1>5, AdvancesExists
<1>7. Equation(g)
  <2>1. g[0] = << >> /\ \A i \in 0 .. Rows : i < Rows => g[i + 1] = step[i][g[i]]
    BY <1>6 DEF Advances
  <2>2. ASSUME NEW i \in 0 .. Rows PROVE g[i] = Body(g, i)
    <3>1. CASE i = 0
      BY <2>1, <3>1
    <3>2. CASE i # 0
      <4>1. i - 1 \in 0 .. Rows /\ i - 1 < Rows /\ (i - 1) + 1 = i
        BY <1>5, <3>2
      <4>2. i - 1 \in RowIds /\ g[i - 1] \in Seq(Nat)
        BY <1>4, <4>1
      <4> QED BY <1>3, <2>1, <3>2, <4>1, <4>2
    <3> QED BY <3>1, <3>2
  <2> HIDE DEF Body
  <2> QED BY <2>2
<1>8. Equation(glued)
  <2> HIDE DEF Equation
  <2> QED BY <1>7
<1> HIDE DEF glued
<1>9. \A i \in 0 .. Rows : glued[i] = Body(glued, i)
  <2> HIDE DEF Body
  <2> QED BY <1>8
<1>10. glued[0] = << >>
  BY <1>5, <1>9
<1>11. ASSUME NEW i \in RowIds
       PROVE  glued[i + 1] = glued[i] \o List(i)
  <2>1. i + 1 \in 0 .. Rows /\ i + 1 # 0 /\ (i + 1) - 1 = i
    BY <1>2
  <2>2. glued[i + 1] = Body(glued, i + 1)
    <3> HIDE DEF Body
    <3> QED BY <1>9, <2>1
  <2> QED BY <2>1, <2>2
<1>12. Resumes(glued, 0, Rows, << >>, step, Seq(Nat))
  BY <1>3, <1>4, <1>10, <1>11 DEF Resumes
<1>13. Within(glued, 0, Rows, Seq(Nat))
  BY <1>5, <1>12, ResumesWithin
<1> QED BY <1>1, <1>10, <1>11, <1>13 DEF Glues, Within, List

\* Each row's list stands in the flat one, from where the row begins.
Stands(q, j, m, sign) ==
    /\ Len(q) = Bounds(m, sign)[j]
    /\ \A p \in 1 .. Len(q) : q[p] < m.len
    /\ \A i \in 0 .. j : Bounds(m, sign)[i] <= Len(q)
    /\ \A i \in RowIds : i < j =>
          \A p \in 1 .. Cardinality(EntriesOf(m, sign, i)) :
             /\ Bounds(m, sign)[i] + p <= Len(q)
             /\ q[Bounds(m, sign)[i] + p] = Ascending(m.len, EntriesOf(m, sign, i))[p]

\* One more row glued keeps every earlier one where its bound says.
LEMMA StandsNext ==
    ASSUME NEW m \in Inputs, NEW sign \in Signs, NEW j \in RowIds,
           NEW q \in Seq(Nat), Stands(q, j, m, sign)
    PROVE  Stands(q \o Ascending(m.len, EntriesOf(m, sign, j)), j + 1, m, sign)
<1> DEFINE B == Bounds(m, sign)
           Count(i) == Cardinality(EntriesOf(m, sign, i))
           List(i) == Ascending(m.len, EntriesOf(m, sign, i))
           n == q \o List(j)
<1>1. /\ \A i \in 0 .. Rows : B[i] \in Nat
      /\ B[j + 1] = B[j] + Count(j)
  BY BoundsCount DEF Counts
<1>2. Rows \in Nat /\ RowIds = 0 .. (Rows - 1) /\ \A i \in RowIds : i \in 0 .. Rows /\ i \in Nat
  BY InputsAre DEF RowIds
<1>3. \A i \in RowIds : /\ List(i) \in Seq(Nat) /\ Len(List(i)) = Count(i) /\ Count(i) \in Nat
                        /\ \A p \in 1 .. Len(List(i)) : List(i)[p] < m.len
  <2> TAKE i \in RowIds
  <2>1. EntriesOf(m, sign, i) \subseteq 0 .. (m.len - 1) /\ m.len \in Nat
    BY InputsAre
  <2>2. Sorted(List(i), EntriesOf(m, sign, i), m.len)
    BY <2>1, AscendingSorted
  <2>3. Rank(EntriesOf(m, sign, i), m.len) = Count(i)
    BY <2>1, RankSteps
  <2>4. Count(i) \in Nat
    BY CountsEntries
  <2>5. m.len \in 0 .. m.len
    BY <2>1
  <2> HIDE DEF List, Count
  <2>6. List(i) \in Seq(Nat) /\ Len(List(i)) = Count(i)
    BY <2>2, <2>3 DEF Sorted
  <2>7. \A p \in 1 .. Len(List(i)) : List(i)[p] < m.len
    BY <2>2, <2>3, <2>4, <2>5, <2>6 DEF Sorted
  <2> QED BY <2>4, <2>6, <2>7
<1>4. /\ Len(q) = B[j] /\ \A p \in 1 .. Len(q) : q[p] < m.len
      /\ \A i \in 0 .. j : B[i] <= Len(q)
      /\ \A i \in RowIds : i < j =>
            \A p \in 1 .. Count(i) : B[i] + p <= Len(q) /\ q[B[i] + p] = List(i)[p]
  BY DEF Stands
<1> HIDE DEF B, Count, List
<1>5. /\ Len(n) = Len(q) + Len(List(j))
      /\ \A p \in 1 .. Len(q) : n[p] = q[p]
      /\ \A p \in 1 .. Len(List(j)) : n[Len(q) + p] = List(j)[p]
  <2>1. List(j) \in Seq(Nat)
    BY <1>3
  <2>2. /\ Len(n) = Len(q) + Len(List(j))
        /\ \A i \in 1 .. (Len(q) + Len(List(j))) :
              n[i] = IF i <= Len(q) THEN q[i] ELSE List(j)[i - Len(q)]
    BY <2>1, ConcatProperties
  <2>3. Len(q) \in Nat /\ Len(List(j)) \in Nat
    BY <2>1
  <2> HIDE DEF n
  <2>4. ASSUME NEW p \in 1 .. Len(q) PROVE n[p] = q[p]
    BY <2>2, <2>3
  <2>5. ASSUME NEW p \in 1 .. Len(List(j)) PROVE n[Len(q) + p] = List(j)[p]
    <3>1. PICK i \in Nat : i = Len(q) + p
      BY <2>3
    <3>2. i \in 1 .. (Len(q) + Len(List(j))) /\ ~(i <= Len(q)) /\ i - Len(q) = p
      BY <2>3, <3>1
    <3> QED BY <2>2, <3>1, <3>2
  <2> QED BY <2>2, <2>4, <2>5
<1> HIDE DEF n
<1>6. Len(n) = B[j + 1]
  BY <1>1, <1>3, <1>4, <1>5
<1>7. ASSUME NEW i \in RowIds, i < j + 1, NEW p \in 1 .. Count(i)
      PROVE  B[i] + p <= Len(n) /\ n[B[i] + p] = List(i)[p]
  <2>1. Count(i) \in Nat /\ B[i] \in Nat /\ Len(q) \in Nat /\ Count(j) \in Nat
    BY <1>1, <1>2, <1>3
  <2>2. CASE i = j
    BY <1>3, <1>4, <1>5, <2>1, <2>2
  <2>3. CASE i # j
    <3>1. i < j
      BY <1>2, <1>7, <2>3
    <3>2. B[i] + p <= Len(q) /\ q[B[i] + p] = List(i)[p]
      BY <1>4, <3>1
    <3>3. B[i] + p \in 1 .. Len(q)
      BY <2>1, <3>2
    <3>4. Len(q) <= Len(n)
      BY <1>3, <1>5, <2>1
    <3>5. Len(n) \in Nat
      BY <1>3, <1>5, <2>1
    <3> QED BY <1>5, <2>1, <3>2, <3>3, <3>4, <3>5
  <2> QED BY <2>2, <2>3
<1>8. ASSUME NEW p \in 1 .. Len(n) PROVE n[p] < m.len
  <2>1. Len(q) \in Nat /\ Len(List(j)) \in Nat
    BY <1>3
  <2>2. CASE p <= Len(q)
    <3>1. p \in 1 .. Len(q)
      BY <2>1, <2>2
    <3> QED BY <1>4, <1>5, <3>1
  <2>3. CASE ~(p <= Len(q))
    <3>1. PICK i \in 1 .. Len(List(j)) : p = Len(q) + i
      <4>1. p - Len(q) \in 1 .. Len(List(j)) /\ p = Len(q) + (p - Len(q))
        BY <1>5, <2>1, <2>3
      <4> QED BY <4>1
    <3> QED BY <1>3, <1>5, <3>1
  <2> QED BY <2>2, <2>3
<1>9. ASSUME NEW i \in 0 .. (j + 1) PROVE B[i] <= Len(n)
  <2>1. Len(q) \in Nat /\ Len(List(j)) \in Nat /\ Len(q) <= Len(n) /\ Len(n) \in Nat
    BY <1>3, <1>5
  <2>2. CASE i = j + 1
    BY <1>6, <2>1, <2>2
  <2>3. CASE i # j + 1
    <3>1. i \in 0 .. j /\ i \in 0 .. Rows
      BY <1>2, <2>3
    <3> QED BY <1>1, <1>4, <2>1, <3>1
  <2> QED BY <2>2, <2>3
<1> QED BY <1>6, <1>7, <1>8, <1>9 DEF Stands, B, Count, List, n

\* Every row's list stands in the flat list where the bounds say.
LEMMA OffsetListStands ==
    ASSUME NEW m \in Inputs, NEW sign \in Signs
    PROVE  OffsetList(m, sign) \in Seq(Nat) /\ Stands(OffsetList(m, sign), Rows, m, sign)
<1>1. PICK g : Glues(g, m, sign) /\ OffsetList(m, sign) = g[Rows]
  BY OffsetListGlues
<1>2. Rows \in Nat /\ RowIds = 0 .. (Rows - 1) /\ \A i \in RowIds : i \in 0 .. Rows /\ i \in Nat
  BY InputsAre DEF RowIds
<1> DEFINE Wrong == {j \in 0 .. Rows : ~ Stands(g[j], j, m, sign)}
<1>3. Wrong = {}
  <2> SUFFICES ASSUME Wrong # {} PROVE FALSE
    OBVIOUS
  <2>1. Wrong \subseteq Nat
    OBVIOUS
  <2> HIDE DEF Wrong
  <2>2. PICK n \in Wrong : \A j \in Wrong : n <= j
    BY <2>1, LeastNatural
  <2>3. n \in 0 .. Rows /\ ~ Stands(g[n], n, m, sign)
    BY <2>2 DEF Wrong
  <2>4. CASE n = 0
    <3>1. g[0] = << >> /\ Bounds(m, sign)[0] = 0
      BY <1>1, BoundsCount DEF Glues, Counts
    <3>2. Len(<< >>) = 0 /\ 1 .. 0 = {} /\ \A i \in RowIds : ~(i < 0)
      BY <1>2
    <3>3. Stands(g[0], 0, m, sign)
      <4>1. \A i \in 0 .. 0 : i = 0
        OBVIOUS
      <4> QED BY <3>1, <3>2, <4>1 DEF Stands
    <3> QED BY <2>3, <2>4, <3>3
  <2>5. CASE n # 0
    <3>1. PICK j \in Nat : n = j + 1 /\ j \in RowIds /\ j \in 0 .. Rows /\ ~(n <= j)
      <4>1. n - 1 \in Nat /\ n = (n - 1) + 1 /\ n - 1 \in 0 .. (Rows - 1) /\ n - 1 \in 0 .. Rows
            /\ ~(n <= n - 1)
        BY <1>2, <2>3, <2>5
      <4> QED BY <1>2, <4>1
    <3>2. Stands(g[j], j, m, sign)
      BY <2>2, <3>1 DEF Wrong
    <3>3. g[j] \in Seq(Nat) /\ g[n] = g[j] \o Ascending(m.len, EntriesOf(m, sign, j))
      BY <1>1, <3>1 DEF Glues
    <3>4. Stands(g[n], j + 1, m, sign)
      BY <3>1, <3>2, <3>3, StandsNext
    <3> QED BY <2>3, <3>1, <3>4
  <2> QED BY <2>4, <2>5
<1>4. Rows \in 0 .. Rows
  BY <1>2
<1>5. Stands(g[Rows], Rows, m, sign)
  BY <1>3, <1>4
<1>6. g[Rows] \in Seq(Nat)
  BY <1>1, <1>4 DEF Glues
<1> QED BY <1>1, <1>5, <1>6

(***************************************************************************)
(* How far a row's list of one sign is consumed when the elements before t  *)
(* are.                                                                    *)
(***************************************************************************)
Reached(m, sign, r, t) == Bounds(m, sign)[r] + Rank(EntriesOf(m, sign, r), t)

\* The cursor moves inside its row's part of the flat list, past the entries
\* before t and no other.
ReachesRow(m, sign, r) ==
    LET B == Bounds(m, sign)
        O == OffsetList(m, sign)
    IN  /\ B[r] \in Nat /\ B[r + 1] \in Nat /\ O \in Seq(Nat) /\ B[r + 1] <= Len(O)
        /\ Reached(m, sign, r, 0) = B[r]
        /\ Reached(m, sign, r, m.len) = B[r + 1]
        /\ \A t \in 0 .. m.len : Reached(m, sign, r, t) \in B[r] .. B[r + 1]
        /\ \A t \in 0 .. m.len, u \in 0 .. m.len :
              t <= u => Reached(m, sign, r, t) <= Reached(m, sign, r, u)
        /\ \A i \in B[r] .. (B[r + 1] - 1) : \A t \in 0 .. m.len :
              O[i + 1] < t <=> i < Reached(m, sign, r, t)
        /\ \A t \in 0 .. (m.len - 1) :
              IF t \in EntriesOf(m, sign, r)
              THEN /\ Reached(m, sign, r, t + 1) = Reached(m, sign, r, t) + 1
                   /\ O[Reached(m, sign, r, t) + 1] = t
              ELSE Reached(m, sign, r, t + 1) = Reached(m, sign, r, t)

\* The cursor's positions in a row, for every row and sign.
LEMMA RowReached ==
    ASSUME NEW m \in Inputs, NEW sign \in Signs, NEW r \in RowIds
    PROVE  ReachesRow(m, sign, r)
<1> DEFINE B == Bounds(m, sign)
           O == OffsetList(m, sign)
           E == EntriesOf(m, sign, r)
           A == Ascending(m.len, E)
           T(t) == Reached(m, sign, r, t)
<1>1. E \subseteq 0 .. (m.len - 1) /\ m.len \in Nat
  BY InputsAre
<1>2. r \in 0 .. Rows /\ r + 1 \in 0 .. Rows /\ r < Rows
  BY InputsAre DEF RowIds
<1>3. B[r] \in Nat /\ B[r + 1] \in Nat /\ B[r + 1] = B[r] + Cardinality(E)
  BY <1>2, BoundsCount DEF Counts
<1>4. /\ \A t \in 0 .. m.len : Rank(E, t) \in Nat
      /\ Rank(E, 0) = 0
      /\ Rank(E, m.len) = Cardinality(E)
      /\ \A t \in 0 .. (m.len - 1) : Rank(E, t + 1) = IF t \in E THEN Rank(E, t) + 1 ELSE Rank(E, t)
      /\ \A t \in 0 .. m.len, u \in 0 .. m.len : t <= u => Rank(E, t) <= Rank(E, u)
  <2> HIDE DEF E
  <2> QED BY <1>1, RankSteps
<1>5. /\ O \in Seq(Nat)
      /\ \A p \in 1 .. Cardinality(E) : B[r] + p <= Len(O) /\ O[B[r] + p] = A[p]
  BY <1>2, OffsetListStands DEF Stands
<1>6. /\ A \in Seq(Nat) /\ Len(A) = Cardinality(E)
      /\ \A p \in 1 .. Len(A) : \A t \in 0 .. m.len : A[p] < t <=> p <= Rank(E, t)
  <2>1. Sorted(A, E, m.len)
    <3> HIDE DEF E
    <3> QED BY <1>1, AscendingSorted
  <2> HIDE DEF A, E
  <2> QED BY <1>4, <2>1 DEF Sorted
<1>7. \A t : T(t) = B[r] + Rank(E, t)
  BY DEF Reached
<1>8. Cardinality(E) \in Nat
  BY CountsEntries
<1> HIDE DEF B, O, E, A, T
<1>9. B[r + 1] <= Len(O)
  BY <1>2, OffsetListStands DEF Stands, B, O
<1>10. ASSUME NEW t \in 0 .. m.len PROVE T(t) \in B[r] .. B[r + 1]
  <2>1. Rank(E, t) \in Nat /\ Rank(E, t) <= Rank(E, m.len) /\ Rank(E, m.len) = Cardinality(E)
    <3>1. m.len \in 0 .. m.len /\ t <= m.len
      BY <1>1
    <3> QED BY <1>4, <3>1
  <2> QED BY <1>3, <1>7, <1>8, <2>1
<1>11. ASSUME NEW t \in 0 .. m.len, NEW u \in 0 .. m.len, t <= u PROVE T(t) <= T(u)
  <2>1. Rank(E, t) \in Nat /\ Rank(E, u) \in Nat /\ Rank(E, t) <= Rank(E, u)
    BY <1>4, <1>11
  <2> QED BY <1>3, <1>7, <2>1
<1>12. ASSUME NEW i \in B[r] .. (B[r + 1] - 1), NEW t \in 0 .. m.len
       PROVE  O[i + 1] < t <=> i < T(t)
  <2>1. PICK p \in Nat : i + 1 = B[r] + p /\ p \in 1 .. Cardinality(E)
    <3>1. (i + 1) - B[r] \in Nat /\ i + 1 = B[r] + ((i + 1) - B[r])
          /\ (i + 1) - B[r] \in 1 .. Cardinality(E)
      BY <1>3, <1>8
    <3> QED BY <3>1
  <2>2. O[i + 1] = A[p] /\ p \in 1 .. Len(A)
    BY <1>5, <1>6, <2>1
  <2>3. O[i + 1] < t <=> p <= Rank(E, t)
    BY <1>6, <2>2
  <2>4. p <= Rank(E, t) <=> i < T(t)
    BY <1>3, <1>4, <1>7, <2>1
  <2> QED BY <2>3, <2>4
<1>13. ASSUME NEW t \in 0 .. (m.len - 1)
       PROVE  IF t \in E THEN T(t + 1) = T(t) + 1 /\ O[T(t) + 1] = t
              ELSE T(t + 1) = T(t)
  <2>1. t \in 0 .. m.len /\ t + 1 \in 0 .. m.len /\ t \in Nat
    BY <1>1
  <2>2. Rank(E, t) \in Nat /\ Rank(E, t + 1) = IF t \in E THEN Rank(E, t) + 1 ELSE Rank(E, t)
    BY <1>4, <2>1
  <2>3. CASE t \notin E
    BY <1>7, <2>2, <2>3
  <2>4. CASE t \in E
    <3>1. T(t + 1) = T(t) + 1 /\ T(t) \in Nat /\ T(t + 1) \in Nat
      BY <1>3, <1>7, <2>2, <2>4
    <3>2. T(t) \in B[r] .. (B[r + 1] - 1)
      <4>1. T(t) \in B[r] .. B[r + 1] /\ T(t + 1) \in B[r] .. B[r + 1]
        BY <1>10, <2>1
      <4> QED BY <1>3, <3>1, <4>1
    <3>3. ~(O[T(t) + 1] < t) /\ O[T(t) + 1] < t + 1
      <4>1. ~(T(t) < T(t)) /\ T(t) < T(t + 1)
        BY <3>1
      <4> QED BY <1>12, <2>1, <3>2, <4>1
    <3>4. O[T(t) + 1] \in Nat
      <4>1. T(t) + 1 \in 1 .. Len(O)
        BY <1>3, <1>5, <1>9, <3>1, <3>2
      <4> QED BY <1>5, <4>1
    <3> QED BY <2>1, <2>4, <3>1, <3>3, <3>4
  <2> QED BY <2>3, <2>4
<1>14. T(0) = B[r] /\ T(m.len) = B[r + 1]
  BY <1>3, <1>4, <1>7
<1>15. /\ \A t \in 0 .. m.len : T(t) \in B[r] .. B[r + 1]
       /\ \A t \in 0 .. m.len, u \in 0 .. m.len : t <= u => T(t) <= T(u)
       /\ \A i \in B[r] .. (B[r + 1] - 1) : \A t \in 0 .. m.len : O[i + 1] < t <=> i < T(t)
       /\ \A t \in 0 .. (m.len - 1) :
             IF t \in E THEN T(t + 1) = T(t) + 1 /\ O[T(t) + 1] = t ELSE T(t + 1) = T(t)
  BY <1>10, <1>11, <1>12, <1>13
<1> QED BY <1>3, <1>5, <1>9, <1>14, <1>15 DEF ReachesRow, B, O, E, T

(***************************************************************************)
(* Sums                                                                    *)
(***************************************************************************)

\* A stretch of a list is summed one entry after the other.
AddsUp(q, d, first) ==
    /\ ListSum(q, d, first, first) = 0
    /\ \A i \in first .. Len(q) : ListSum(q, d, first, i) \in Int
    /\ \A i \in first .. (Len(q) - 1) :
          ListSum(q, d, first, i + 1) = ListSum(q, d, first, i) + d[q[i + 1]]

\* A stretch of a list is added one digit after the other.
LEMMA ListAddsUp ==
    ASSUME NEW q, Len(q) \in Nat, NEW d, \A i \in 1 .. Len(q) : d[q[i]] \in Int,
           NEW first \in Nat, first <= Len(q)
    PROVE  AddsUp(q, d, first)
<1> DEFINE last == Len(q)
           Body(g, i) == IF i = first THEN 0 ELSE g[i - 1] + d[q[i]]
           Equation(g) == g = [i \in first .. last |-> Body(g, i)]
           added == CHOOSE g : Equation(g)
           step == [i \in first .. last |-> [n \in Int |-> n + d[q[i + 1]]]]
<1>1. \A i : ListSum(q, d, first, i) = added[i]
  BY DEF ListSum
<1>2. last \in Nat /\ first <= last
  OBVIOUS
<1>3. \A i \in first .. last : i < last =>
        /\ step[i] \in [Int -> Int]
        /\ \A n \in Int : step[i][n] = n + d[q[i + 1]]
  <2> SUFFICES ASSUME NEW i \in first .. last, i < last
               PROVE  /\ step[i] \in [Int -> Int]
                      /\ \A n \in Int : step[i][n] = n + d[q[i + 1]]
    OBVIOUS
  <2>1. i + 1 \in 1 .. Len(q)
    BY <1>2
  <2>2. d[q[i + 1]] \in Int
    BY <2>1
  <2> QED BY <2>2
<1> HIDE DEF step, last
<1>4. 0 \in Int /\ StepsWithin(step, first, last, Int)
  BY <1>3 DEF StepsWithin
<1>5. PICK g \in [first .. last -> Int] : Advances(g, first, last, 0, step)
  BY <1>2, <1>4, AdvancesExists
<1>6. Equation(g)
  <2>1. g[first] = 0 /\ \A i \in first .. last : i < last => g[i + 1] = step[i][g[i]]
    BY <1>5 DEF Advances
  <2>2. ASSUME NEW i \in first .. last PROVE g[i] = Body(g, i)
    <3>1. CASE i = first
      BY <2>1, <3>1
    <3>2. CASE i # first
      <4>1. i - 1 \in first .. last /\ i - 1 < last /\ (i - 1) + 1 = i
        BY <1>2, <3>2
      <4>2. g[i - 1] \in Int
        BY <4>1
      <4>3. g[i] = step[i - 1][g[i - 1]] /\ step[i - 1][g[i - 1]] = g[i - 1] + d[q[i]]
        BY <1>3, <2>1, <4>1, <4>2
      <4> QED BY <3>2, <4>3
    <3> QED BY <3>1, <3>2
  <2> HIDE DEF Body
  <2> QED BY <2>2
<1>7. Equation(added)
  <2> HIDE DEF Equation
  <2> QED BY <1>6
<1> HIDE DEF added
<1>8. \A i \in first .. last : added[i] = Body(added, i)
  <2> HIDE DEF Body
  <2> QED BY <1>7
<1>9. added[first] = 0
  <2>1. first \in first .. last
    BY <1>2
  <2> QED BY <1>8, <2>1
<1>10. ASSUME NEW i \in first .. last, i < last
       PROVE  added[i + 1] = added[i] + d[q[i + 1]]
  <2>1. i + 1 \in first .. last /\ i + 1 # first /\ (i + 1) - 1 = i
    BY <1>2, <1>10
  <2>2. added[i + 1] = Body(added, i + 1)
    <3> HIDE DEF Body
    <3> QED BY <1>8, <2>1
  <2> QED BY <2>1, <2>2
<1>11. Resumes(added, first, last, 0, step, Int)
  BY <1>3, <1>9, <1>10 DEF Resumes
<1>12. \A i \in first .. last : added[i] \in Int
  BY <1>2, <1>4, <1>11, ResumesWithin DEF Within
<1>13. \A i \in first .. (last - 1) : added[i + 1] = added[i] + d[q[i + 1]]
  <2>1. \A i \in first .. (last - 1) : i \in first .. last /\ i < last
    BY <1>2
  <2> QED BY <1>10, <2>1
<1> QED BY <1>1, <1>9, <1>12, <1>13 DEF AddsUp, last

\* The entry of the matrix.
EntryAt(m, r, e) == IF e \notin m.nonZero[r] THEN 0 ELSE IF e \in m.pos[r] THEN 1 ELSE -1

\* The sums of a row are integers, and each element adds its term.
RowAdds(m, s, r) ==
    /\ RowSums(m, s, r)[0] = 0
    /\ \A e \in 0 .. m.len : RowSums(m, s, r)[e] \in Int
    /\ \A e \in 0 .. (m.len - 1) :
          RowSums(m, s, r)[e + 1] = RowSums(m, s, r)[e] + (EntryAt(m, r, e) * m.digit[s][e])

\* The sums of a row grow by its entry times the digit.
LEMMA RowSumsAdd ==
    ASSUME NEW m \in Inputs, NEW s \in SliceIds, NEW r \in RowIds
    PROVE  RowAdds(m, s, r)
<1> DEFINE last == m.len
           Summand(e) == EntryAt(m, r, e) * m.digit[s][e]
           Body(g, e) == IF e = 0 THEN 0 ELSE g[e - 1] + Summand(e - 1)
           Equation(g) == g = [e \in 0 .. last |-> Body(g, e)]
           sums == CHOOSE g : Equation(g)
           step == [e \in 0 .. last |-> [n \in Int |-> n + Summand(e)]]
<1>1. RowSums(m, s, r) = sums
  BY DEF RowSums, EntryAt
<1>2. last \in Nat /\ 0 <= last /\ 0 \in Nat
  BY InputsAre
<1>3. \A e \in 0 .. (last - 1) : Summand(e) \in Int
  <2> TAKE e \in 0 .. (last - 1)
  <2>1. m.digit[s][e] \in Int
    BY InputsAre, WidthsAssumption DEF I16
  <2>2. EntryAt(m, r, e) \in Int
    BY DEF EntryAt
  <2> QED BY <2>1, <2>2
<1> HIDE DEF Summand
<1>4. \A e \in 0 .. last : e < last =>
        /\ step[e] \in [Int -> Int]
        /\ \A n \in Int : step[e][n] = n + Summand(e)
  <2> SUFFICES ASSUME NEW e \in 0 .. last, e < last
               PROVE  /\ step[e] \in [Int -> Int]
                      /\ \A n \in Int : step[e][n] = n + Summand(e)
    OBVIOUS
  <2>1. e \in 0 .. (last - 1)
    BY <1>2
  <2>2. Summand(e) \in Int
    BY <1>3, <2>1
  <2> QED BY <2>2
<1> HIDE DEF step, last
<1>5. 0 \in Int /\ StepsWithin(step, 0, last, Int)
  BY <1>4 DEF StepsWithin
<1>6. PICK g \in [0 .. last -> Int] : Advances(g, 0, last, 0, step)
  BY <1>2, <1>5, AdvancesExists
<1>7. Equation(g)
  <2>1. g[0] = 0 /\ \A i \in 0 .. last : i < last => g[i + 1] = step[i][g[i]]
    BY <1>6 DEF Advances
  <2>2. ASSUME NEW i \in 0 .. last PROVE g[i] = Body(g, i)
    <3>1. CASE i = 0
      BY <2>1, <3>1
    <3>2. CASE i # 0
      <4>1. i - 1 \in 0 .. last /\ i - 1 < last /\ (i - 1) + 1 = i
        BY <1>2, <3>2
      <4>2. g[i - 1] \in Int
        BY <4>1
      <4>3. g[i] = step[i - 1][g[i - 1]] /\ step[i - 1][g[i - 1]] = g[i - 1] + Summand(i - 1)
        BY <1>4, <2>1, <4>1, <4>2
      <4> QED BY <3>2, <4>3
    <3> QED BY <3>1, <3>2
  <2> HIDE DEF Body
  <2> QED BY <2>2
<1>8. Equation(sums)
  <2> HIDE DEF Equation
  <2> QED BY <1>7
<1> HIDE DEF sums
<1>9. \A i \in 0 .. last : sums[i] = Body(sums, i)
  <2> HIDE DEF Body
  <2> QED BY <1>8
<1>10. sums[0] = 0
  BY <1>2, <1>9
<1>11. ASSUME NEW i \in 0 .. last, i < last
       PROVE  sums[i + 1] = sums[i] + Summand(i)
  <2>1. i + 1 \in 0 .. last /\ i + 1 # 0 /\ (i + 1) - 1 = i
    BY <1>2, <1>11
  <2>2. sums[i + 1] = Body(sums, i + 1)
    <3> HIDE DEF Body
    <3> QED BY <1>9, <2>1
  <2> QED BY <2>1, <2>2
<1>12. Resumes(sums, 0, last, 0, step, Int)
  BY <1>4, <1>10, <1>11 DEF Resumes
<1>13. \A i \in 0 .. last : sums[i] \in Int
  BY <1>2, <1>5, <1>12, ResumesWithin DEF Within
<1>14. \A i \in 0 .. (last - 1) : sums[i + 1] = sums[i] + Summand(i)
  <2>1. \A i \in 0 .. (last - 1) : i \in 0 .. last /\ i < last
    BY <1>2
  <2> QED BY <1>11, <2>1
<1> QED BY <1>1, <1>10, <1>13, <1>14 DEF RowAdds, last, Summand

(***************************************************************************)
(* Registers                                                               *)
(***************************************************************************)

\* Division with remainder.
LEMMA Remainders ==
    ASSUME NEW m \in Nat \ {0}, NEW x \in Int
    PROVE  x % m \in 0 .. (m - 1) /\ \E q \in Int : x = (m * q) + (x % m)
<1>1. x \div m \in Int /\ x = (m * (x \div m)) + (x % m) /\ x % m \in 0 .. (m - 1)
  OBVIOUS
<1> QED BY <1>1

\* Wrapping takes away a multiple of the number of values.
LEMMA WrapTakes ==
    ASSUME NEW x \in Int
    PROVE  /\ Wrap16(x) \in I16
           /\ \E q \in Int : x = Wrap16(x) + ((2 * I16Max + 2) * q)
<1> DEFINE m == 2 * I16Max + 2
           y == x + I16Max + 1
<1>1. m \in Nat \ {0} /\ y \in Int /\ I16Max \in Nat
  BY WidthsAssumption
<1>2. Wrap16(x) = (y % m) - (I16Max + 1)
  BY DEF Wrap16
<1>3. m = 2 * I16Max + 2 /\ y = x + I16Max + 1
  OBVIOUS
<1> HIDE DEF m, y
<1>4. y % m \in 0 .. (m - 1)
  BY <1>1, Remainders
<1>5. PICK q \in Int : y = (m * q) + (y % m)
  BY <1>1, Remainders
<1>6. m * q \in Int /\ y % m \in Int
  BY <1>1, <1>4
<1>7. x = Wrap16(x) + (m * q)
  BY <1>1, <1>2, <1>3, <1>5, <1>6
<1>8. Wrap16(x) \in I16
  BY <1>1, <1>2, <1>3, <1>4 DEF I16
<1> QED BY <1>3, <1>7, <1>8

\* Values of the width that differ by a multiple of their number are the same.
LEMMA WrapUnique ==
    ASSUME NEW x \in I16, NEW y \in I16, NEW q \in Int,
           x = y + ((2 * I16Max + 2) * q)
    PROVE  x = y
<1> DEFINE m == 2 * I16Max + 2
<1>1. m \in Nat /\ m > 0 /\ x \in Int /\ y \in Int /\ x - y < m /\ y - x < m
  BY WidthsAssumption DEF I16
<1> HIDE DEF m
<1>2. x = y + (m * q)
  BY DEF m
<1>3. q >= 1 => m * q >= m
  BY <1>1
<1>4. q <= -1 => m * q <= -m
  BY <1>1
<1>5. m * q \in Int
  BY <1>1
<1>6. q = 0
  BY <1>1, <1>2, <1>3, <1>4, <1>5
<1> QED BY <1>1, <1>2, <1>6

\* The positive and the negative entries, each wrapped, and their difference.
LEMMA WrapDifference ==
    ASSUME NEW x \in Int, NEW y \in Int, Abs(x - y) <= I16Max
    PROVE  Wrap16(Wrap16(x) - Wrap16(y)) = x - y
<1> DEFINE m == 2 * I16Max + 2
           a == Wrap16(x)
           b == Wrap16(y)
           c == Wrap16(a - b)
<1>1. PICK p \in Int : x = a + (m * p)
  BY WrapTakes
<1>2. PICK q \in Int : y = b + (m * q)
  BY WrapTakes
<1>3. m \in Nat /\ a \in Int /\ b \in Int /\ a - b \in Int
  <2>1. a \in I16 /\ b \in I16
    BY WrapTakes
  <2> HIDE DEF a, b
  <2>2. a \in Int /\ b \in Int
    BY <2>1, WidthsAssumption DEF I16
  <2> QED BY <2>2, WidthsAssumption
<1>4. PICK o \in Int : a - b = c + (m * o)
  <2> HIDE DEF a, b
  <2> QED BY <1>3, WrapTakes
<1>5. c \in I16 /\ c \in Int
  <2>1. c \in I16
    <3> HIDE DEF a, b
    <3> QED BY <1>3, WrapTakes
  <2> HIDE DEF c
  <2> QED BY <2>1, WidthsAssumption DEF I16
<1>6. x - y \in I16
  BY WidthsAssumption DEF I16, Abs
<1>7. m = 2 * I16Max + 2
  OBVIOUS
<1> HIDE DEF m, a, b, c
<1>8. /\ (o + p) - q \in Int
      /\ m * ((o + p) - q) = ((m * o) + (m * p)) - (m * q)
      /\ m * o \in Int /\ m * p \in Int /\ m * q \in Int
  BY <1>3
<1>9. x - y = c + (m * ((o + p) - q))
  BY <1>1, <1>2, <1>3, <1>4, <1>5, <1>8
<1>10. x - y = c
  BY <1>5, <1>6, <1>7, <1>8, <1>9, WrapUnique
<1> QED BY <1>10 DEF a, b, c

(***************************************************************************)
(* What a row consumes of its two lists is what the matrix says            *)
(***************************************************************************)
Taken(m, s, r, sign, a, b) ==
    ListSum(OffsetList(m, sign), m.digit[s], Reached(m, sign, r, a), Reached(m, sign, r, b))

\* Digits are integers.
LEMMA DigitsAre ==
    ASSUME NEW m \in Inputs, NEW s \in SliceIds
    PROVE  \A e \in 0 .. (m.len - 1) : m.digit[s][e] \in Int
BY InputsAre, WidthsAssumption DEF I16

\* One more element adds its digit if the row has an entry of the sign there.
LEMMA TakenNext ==
    ASSUME NEW m \in Inputs, NEW s \in SliceIds, NEW r \in RowIds, NEW sign \in Signs,
           NEW a \in 0 .. m.len
    PROVE  /\ Taken(m, s, r, sign, a, a) = 0
           /\ \A b \in a .. m.len : Taken(m, s, r, sign, a, b) \in Int
           /\ \A b \in a .. (m.len - 1) :
                 Taken(m, s, r, sign, a, b + 1) =
                   Taken(m, s, r, sign, a, b)
                   + (IF b \in EntriesOf(m, sign, r) THEN m.digit[s][b] ELSE 0)
<1> DEFINE q == OffsetList(m, sign)
           d == m.digit[s]
           B == Bounds(m, sign)
           R(t) == Reached(m, sign, r, t)
<1>0. m.len \in Nat
  BY InputsAre
<1>1. /\ B[r] \in Nat /\ B[r + 1] \in Nat /\ q \in Seq(Nat) /\ B[r + 1] <= Len(q)
      /\ \A t \in 0 .. m.len : R(t) \in B[r] .. B[r + 1]
      /\ \A t \in 0 .. m.len, u \in 0 .. m.len : t <= u => R(t) <= R(u)
      /\ \A t \in 0 .. (m.len - 1) :
            IF t \in EntriesOf(m, sign, r)
            THEN R(t + 1) = R(t) + 1 /\ q[R(t) + 1] = t
            ELSE R(t + 1) = R(t)
  BY RowReached DEF ReachesRow
<1>2. \A i \in 1 .. Len(q) : d[q[i]] \in Int
  <2> TAKE i \in 1 .. Len(q)
  <2>1. q[i] \in Nat /\ q[i] < m.len
    BY <1>1, OffsetListStands DEF Stands
  <2>2. q[i] \in 0 .. (m.len - 1)
    BY <1>0, <2>1
  <2> QED BY <2>2, DigitsAre
<1> HIDE DEF q, d, B, R
<1>3. R(a) \in Nat /\ R(a) <= Len(q) /\ Len(q) \in Nat
  BY <1>1
<1>4. AddsUp(q, d, R(a))
  BY <1>2, <1>3, ListAddsUp
<1>5. \A b : Taken(m, s, r, sign, a, b) = ListSum(q, d, R(a), R(b))
  BY DEF Taken, q, d, R
<1>6. Taken(m, s, r, sign, a, a) = 0
  BY <1>4, <1>5 DEF AddsUp
<1>7. ASSUME NEW b \in a .. m.len
      PROVE  R(b) \in R(a) .. Len(q) /\ Taken(m, s, r, sign, a, b) \in Int
  <2>1. b \in 0 .. m.len /\ a <= b
    BY <1>0
  <2>2. R(b) \in B[r] .. B[r + 1] /\ R(a) <= R(b)
    BY <1>1, <2>1
  <2>3. R(b) \in R(a) .. Len(q)
    BY <1>1, <1>3, <2>2
  <2> QED BY <1>4, <1>5, <2>3 DEF AddsUp
<1>8. ASSUME NEW b \in a .. (m.len - 1)
      PROVE  Taken(m, s, r, sign, a, b + 1) =
                   Taken(m, s, r, sign, a, b)
                   + (IF b \in EntriesOf(m, sign, r) THEN d[b] ELSE 0)
  <2>1. b \in 0 .. (m.len - 1) /\ b \in a .. m.len /\ b + 1 \in a .. m.len
    BY <1>0
  <2>2. CASE b \notin EntriesOf(m, sign, r)
    <3>1. R(b + 1) = R(b)
      BY <1>1, <2>1, <2>2
    <3>2. Taken(m, s, r, sign, a, b) \in Int
      BY <1>7, <2>1
    <3> QED BY <1>5, <2>2, <3>1, <3>2
  <2>3. CASE b \in EntriesOf(m, sign, r)
    <3>1. R(b + 1) = R(b) + 1 /\ q[R(b) + 1] = b
      BY <1>1, <2>1, <2>3
    <3>2. R(b) \in R(a) .. Len(q) /\ R(b + 1) \in R(a) .. Len(q)
      BY <1>7, <2>1
    <3>3. R(b) \in R(a) .. (Len(q) - 1)
      BY <1>3, <3>1, <3>2
    <3>4. ListSum(q, d, R(a), R(b) + 1) = ListSum(q, d, R(a), R(b)) + d[q[R(b) + 1]]
      BY <1>4, <3>3 DEF AddsUp
    <3> QED BY <1>5, <2>3, <3>1, <3>4
  <2> QED BY <2>2, <2>3
<1> QED BY <1>6, <1>7, <1>8 DEF d

\* Between two elements, the digits at +1 less those at -1 are the row's growth.
LEMMA RowTaken ==
    ASSUME NEW m \in Inputs, NEW s \in SliceIds, NEW r \in RowIds,
           NEW a \in 0 .. m.len, NEW b \in a .. m.len
    PROVE  /\ Taken(m, s, r, "plus", a, b) \in Int /\ Taken(m, s, r, "minus", a, b) \in Int
           /\ RowSums(m, s, r)[a] \in Int /\ RowSums(m, s, r)[b] \in Int
           /\ Taken(m, s, r, "plus", a, b) - Taken(m, s, r, "minus", a, b)
                = RowSums(m, s, r)[b] - RowSums(m, s, r)[a]
<1> DEFINE P(t) == Taken(m, s, r, "plus", a, t)
           N(t) == Taken(m, s, r, "minus", a, t)
           R(t) == RowSums(m, s, r)[t]
           Wrong == {t \in a .. m.len : P(t) - N(t) # R(t) - R(a)}
<1>0. m.len \in Nat
  BY InputsAre
<1>1. "plus" \in Signs /\ "minus" \in Signs
  BY DEF Signs
<1>2. P(a) = 0 /\ N(a) = 0 /\ \A t \in a .. m.len : P(t) \in Int /\ N(t) \in Int
  BY <1>1, TakenNext
<1>3. \A t \in 0 .. m.len : R(t) \in Int
  BY RowSumsAdd DEF RowAdds
<1>4. ASSUME NEW t \in a .. (m.len - 1)
      PROVE  P(t + 1) - N(t + 1) = (P(t) - N(t)) + (R(t + 1) - R(t))
  <2>1. t \in 0 .. (m.len - 1) /\ t \in a .. m.len
    BY <1>0
  <2>2. P(t + 1) = P(t) + (IF t \in EntriesOf(m, "plus", r) THEN m.digit[s][t] ELSE 0)
    BY <1>1, TakenNext
  <2>3. N(t + 1) = N(t) + (IF t \in EntriesOf(m, "minus", r) THEN m.digit[s][t] ELSE 0)
    BY <1>1, TakenNext
  <2>4. R(t + 1) = R(t) + (EntryAt(m, r, t) * m.digit[s][t]) /\ R(t) \in Int
    BY <2>1, RowSumsAdd DEF RowAdds
  <2>5. PICK x \in Int : x = m.digit[s][t]
    BY <2>1, DigitsAre
  <2>6. /\ EntryAt(m, r, t) = IF t \in EntriesOf(m, "plus", r) THEN 1
                              ELSE IF t \in EntriesOf(m, "minus", r) THEN -1 ELSE 0
        /\ ~(t \in EntriesOf(m, "plus", r) /\ t \in EntriesOf(m, "minus", r))
    BY DEF EntryAt, EntriesOf
  <2>7. P(t) \in Int /\ N(t) \in Int
    BY <1>2, <2>1
  <2> HIDE DEF P, N, R
  <2>8. CASE t \in EntriesOf(m, "plus", r)
    BY <2>2, <2>3, <2>4, <2>5, <2>6, <2>7, <2>8
  <2>9. CASE t \in EntriesOf(m, "minus", r)
    BY <2>2, <2>3, <2>4, <2>5, <2>6, <2>7, <2>9
  <2>10. CASE t \notin EntriesOf(m, "plus", r) /\ t \notin EntriesOf(m, "minus", r)
    BY <2>2, <2>3, <2>4, <2>5, <2>6, <2>7, <2>10
  <2> QED BY <2>8, <2>9, <2>10
<1> HIDE DEF P, N, R
<1>5. Wrong = {}
  <2> SUFFICES ASSUME Wrong # {} PROVE FALSE
    OBVIOUS
  <2>1. Wrong \subseteq Nat
    BY <1>0
  <2> HIDE DEF Wrong
  <2>2. PICK n \in Wrong : \A j \in Wrong : n <= j
    BY <2>1, LeastNatural
  <2>3. n \in a .. m.len /\ P(n) - N(n) # R(n) - R(a)
    BY <2>2 DEF Wrong
  <2>4. a \in 0 .. m.len /\ R(a) \in Int
    BY <1>3
  <2>5. n # a
    BY <1>2, <2>3, <2>4
  <2>6. PICK t \in Nat : n = t + 1 /\ t \in a .. (m.len - 1) /\ t \in a .. m.len /\ ~(n <= t)
    <3>1. n - 1 \in Nat /\ n = (n - 1) + 1 /\ n - 1 \in a .. (m.len - 1) /\ n - 1 \in a .. m.len
          /\ ~(n <= n - 1)
      BY <1>0, <2>3, <2>5
    <3> QED BY <3>1
  <2>7. P(t) - N(t) = R(t) - R(a)
    BY <2>2, <2>6 DEF Wrong
  <2>8. t \in 0 .. m.len /\ n \in 0 .. m.len
    BY <1>0, <2>3, <2>6
  <2>9. R(t) \in Int /\ R(n) \in Int
    BY <1>3, <2>8
  <2>10. P(n) - N(n) = (P(t) - N(t)) + (R(n) - R(t))
    BY <1>4, <2>6
  <2> QED BY <2>3, <2>4, <2>7, <2>9, <2>10
<1>6. P(b) - N(b) = R(b) - R(a)
  BY <1>5
<1>7. b \in 0 .. m.len
  BY <1>0
<1> QED BY <1>2, <1>3, <1>6, <1>7 DEF P, N, R

\* A stretch of a row's sums grows by the largest digit at most.
LEMMA RowGrows ==
    ASSUME NEW m \in Inputs, NEW s \in SliceIds, NEW r \in RowIds, NEW most \in Nat,
           \A e \in 0 .. (m.len - 1) : Abs(m.digit[s][e]) <= most,
           NEW a \in 0 .. m.len, NEW b \in a .. m.len
    PROVE  Abs(RowSums(m, s, r)[b] - RowSums(m, s, r)[a]) <= (b - a) * most
<1> DEFINE R(t) == RowSums(m, s, r)[t]
           Wrong == {t \in a .. m.len : ~(Abs(R(t) - R(a)) <= (t - a) * most)}
<1>0. m.len \in Nat /\ a \in Nat
  BY InputsAre
<1>1. \A t \in 0 .. m.len : R(t) \in Int
  BY RowSumsAdd DEF RowAdds
<1>2. ASSUME NEW t \in 0 .. (m.len - 1) PROVE Abs(R(t + 1) - R(t)) <= most
  <2>1. R(t + 1) = R(t) + (EntryAt(m, r, t) * m.digit[s][t])
    BY RowSumsAdd DEF RowAdds
  <2>2. t \in 0 .. m.len /\ R(t) \in Int
    BY <1>0, <1>1
  <2>3. PICK x \in Int : x = m.digit[s][t]
    BY DigitsAre
  <2>4. Abs(x) <= most
    BY <2>3
  <2>5. EntryAt(m, r, t) = 0 \/ EntryAt(m, r, t) = 1 \/ EntryAt(m, r, t) = -1
    BY DEF EntryAt
  <2> HIDE DEF R
  <2>6. PICK y \in Int : y = EntryAt(m, r, t) * x /\ Abs(y) <= most
    <3>1. CASE EntryAt(m, r, t) = 0
      BY <3>1 DEF Abs
    <3>2. CASE EntryAt(m, r, t) = 1
      BY <2>4, <3>2 DEF Abs
    <3>3. CASE EntryAt(m, r, t) = -1
      <4>1. -x \in Int /\ -1 * x = -x /\ Abs(-x) = Abs(x)
        BY DEF Abs
      <4> QED BY <2>4, <3>3, <4>1
    <3> QED BY <2>5, <3>1, <3>2, <3>3
  <2>7. R(t + 1) - R(t) = y
    BY <2>1, <2>2, <2>3, <2>6
  <2> QED BY <2>6, <2>7
<1> HIDE DEF R
<1>3. Wrong = {}
  <2> SUFFICES ASSUME Wrong # {} PROVE FALSE
    OBVIOUS
  <2>1. Wrong \subseteq Nat
    BY <1>0
  <2> HIDE DEF Wrong
  <2>2. PICK n \in Wrong : \A j \in Wrong : n <= j
    BY <2>1, LeastNatural
  <2>3. n \in a .. m.len /\ ~(Abs(R(n) - R(a)) <= (n - a) * most)
    BY <2>2 DEF Wrong
  <2>4. R(a) \in Int
    BY <1>1
  <2>5. n # a
    <3>1. Abs(R(a) - R(a)) = 0 /\ (a - a) * most = 0
      BY <1>0, <2>4 DEF Abs
    <3> QED BY <2>3, <3>1
  <2>6. PICK t \in Nat : n = t + 1 /\ t \in a .. (m.len - 1) /\ t \in a .. m.len /\ ~(n <= t)
    <3>1. n - 1 \in Nat /\ n = (n - 1) + 1 /\ n - 1 \in a .. (m.len - 1) /\ n - 1 \in a .. m.len
          /\ ~(n <= n - 1)
      BY <1>0, <2>3, <2>5
    <3> QED BY <3>1
  <2>7. Abs(R(t) - R(a)) <= (t - a) * most
    BY <2>2, <2>6 DEF Wrong
  <2>8. t \in 0 .. m.len /\ n \in 0 .. m.len /\ t \in 0 .. (m.len - 1)
    BY <1>0, <2>3, <2>6
  <2>9. R(t) \in Int /\ R(n) \in Int
    BY <1>1, <2>8
  <2>10. Abs(R(n) - R(t)) <= most
    BY <1>2, <2>6, <2>8
  <2>11. (n - a) * most = ((t - a) * most) + most /\ (t - a) * most \in Int
    <3>1. PICK c \in Nat : c = t - a
      BY <1>0, <2>6
    <3>2. n - a = c + 1
      BY <1>0, <2>6, <3>1
    <3>3. (c + 1) * most = (c * most) + most /\ c * most \in Int
      OBVIOUS
    <3> QED BY <3>1, <3>2, <3>3
  <2>12. Abs(R(n) - R(a)) <= ((t - a) * most) + most
    BY <2>4, <2>7, <2>9, <2>10, <2>11 DEF Abs
  <2> QED BY <2>3, <2>11, <2>12
<1>4. Abs(R(b) - R(a)) <= (b - a) * most
  BY <1>3
<1> QED BY <1>4 DEF R

(***************************************************************************)
(* Extremes                                                                *)
(***************************************************************************)
LEMMA MinIs ==
    ASSUME NEW S, S \subseteq Int, NEW x \in S, \A y \in S : x <= y
    PROVE  Min(S) = x
<1>1. \A y \in S : (\A z \in S : y <= z) => y = x
  OBVIOUS
<1> QED BY <1>1 DEF Min

\* The largest of a bounded set of naturals.
LEMMA MaxIs ==
    ASSUME NEW n \in Nat, NEW S, S \subseteq 0 .. n, S # {}
    PROVE  Max(S) \in S /\ \A y \in S : y <= Max(S)
<1> DEFINE Above == {x \in Nat : \A y \in S : y <= x}
<1>0. \A y \in S : y \in Nat /\ y <= n
  OBVIOUS
<1>1. n \in Above
  BY <1>0
<1>2. PICK x \in Above : \A z \in Above : x <= z
  BY <1>1, LeastNatural
<1>3. x \in Nat /\ \A y \in S : y <= x
  OBVIOUS
<1>4. x \in S
  <2> SUFFICES ASSUME x \notin S PROVE FALSE
    OBVIOUS
  <2>1. \A y \in S : y < x
    BY <1>0, <1>3
  <2>2. x # 0
    <3>1. PICK y \in S : TRUE
      OBVIOUS
    <3> QED BY <1>0, <2>1, <3>1
  <2>3. x - 1 \in Nat /\ \A y \in S : y <= x - 1
    BY <1>0, <1>3, <2>1, <2>2
  <2>4. ~(x <= x - 1)
    BY <1>3
  <2> QED BY <1>2, <2>3, <2>4
<1> HIDE DEF Above
<1>5. \E y \in S : \A z \in S : y >= z
  BY <1>0, <1>3, <1>4
<1>6. Max(S) \in S /\ \A z \in S : Max(S) >= z
  BY <1>5 DEF Max
<1> QED BY <1>0, <1>6

\* The largest magnitude of a vector that is not empty.
LEMMA LargestIs ==
    ASSUME NEW m \in Inputs, m.len # 0
    PROVE  /\ MaxAbs(m) \in Nat
           /\ \A s \in SliceIds : \A e \in 0 .. (m.len - 1) : Abs(m.digit[s][e]) <= MaxAbs(m)
<1> DEFINE S == {Abs(m.digit[s][e]) : s \in SliceIds, e \in 0 .. (m.len - 1)}
<1>1. \A s \in SliceIds : \A e \in 0 .. (m.len - 1) : Abs(m.digit[s][e]) \in 0 .. (I16Max + 1)
  <2> TAKE s \in SliceIds
  <2> TAKE e \in 0 .. (m.len - 1)
  <2>1. PICK x \in I16 : x = m.digit[s][e]
    BY InputsAre
  <2>2. Abs(x) \in 0 .. (I16Max + 1)
    BY WidthsAssumption DEF I16, Abs
  <2> QED BY <2>1, <2>2
<1>2. S \subseteq 0 .. (I16Max + 1)
  BY <1>1
<1>3. S # {}
  <2>1. 0 \in SliceIds /\ 0 \in 0 .. (m.len - 1)
    BY InputsAre DEF SliceIds
  <2> QED BY <2>1
<1>4. I16Max + 1 \in Nat
  BY WidthsAssumption
<1>5. MaxAbs(m) = Max(S)
  BY DEF MaxAbs
<1>6. \A s \in SliceIds : \A e \in 0 .. (m.len - 1) : Abs(m.digit[s][e]) \in S
  OBVIOUS
<1> HIDE DEF S
<1>7. Max(S) \in S /\ \A y \in S : y <= Max(S)
  BY <1>2, <1>3, <1>4, MaxIs
<1>8. Max(S) \in Nat
  <2>1. Max(S) \in 0 .. (I16Max + 1)
    BY <1>2, <1>7
  <2> QED BY <2>1
<1> QED BY <1>5, <1>6, <1>7, <1>8

\* The elements of the first j windows of t.
Covered(m, t, j) == IF j * t <= m.len THEN j * t ELSE m.len

\* The end of the current window.
LEMMA TileEndIs ==
    ASSUME in.len \in Nat, tile \in Nat, tileIndex \in Nat
    PROVE  TileEnd = Covered(in, tile, tileIndex + 1)
<1> DEFINE a == (tileIndex + 1) * tile
           b == in.len
           S == {a, b}
<1>1. a \in Int /\ b \in Int
  OBVIOUS
<1>2. TileEnd = Min(S)
  BY DEF TileEnd
<1>3. Covered(in, tile, tileIndex + 1) = IF a <= b THEN a ELSE b
  BY DEF Covered
<1> HIDE DEF a, b
<1>4. CASE a <= b
  BY <1>1, <1>2, <1>3, <1>4, MinIs
<1>5. CASE ~(a <= b)
  <2>1. b <= a /\ b <= b
    BY <1>1, <1>5
  <2>2. b \in S /\ S \subseteq Int /\ \A y \in S : b <= y
    BY <1>1, <2>1
  <2> QED BY <1>2, <1>3, <1>5, <2>2, MinIs
<1> QED BY <1>4, <1>5

\* A row's cursor stops behind the entries of the window.
LEMMA StopIs ==
    ASSUME in \in Inputs, lists = SignedOffsetLists(in), row \in RowIds, NEW sign \in Signs,
           NEW a \in 0 .. in.len, cursor[sign][row] = Reached(in, sign, row, a),
           TileEnd \in a .. in.len
    PROVE  Stop(sign) = Reached(in, sign, row, TileEnd)
<1> DEFINE B == Bounds(in, sign)
           O == OffsetList(in, sign)
           R(t) == Reached(in, sign, row, t)
           end == B[row + 1]
           S == {end} \union {i \in R(a) .. (end - 1) : O[i + 1] >= TileEnd}
           x == R(TileEnd)
<1>0. in.len \in Nat /\ TileEnd \in 0 .. in.len /\ a <= TileEnd /\ TileEnd \in Nat
  BY InputsAre
<1>1. lists[sign].offsets = O /\ lists[sign].bounds = B
  BY DEF SignedOffsetLists
<1>2. /\ B[row] \in Nat /\ end \in Nat /\ O \in Seq(Nat) /\ end <= Len(O)
      /\ \A t \in 0 .. in.len : R(t) \in B[row] .. end
      /\ \A t \in 0 .. in.len, u \in 0 .. in.len : t <= u => R(t) <= R(u)
      /\ \A i \in B[row] .. (end - 1) : \A t \in 0 .. in.len : O[i + 1] < t <=> i < R(t)
  BY RowReached DEF ReachesRow
<1>3. Stop(sign) = Min(S)
  BY <1>1 DEF Stop
<1> HIDE DEF B, O, R
<1>4. R(a) \in B[row] .. end /\ x \in B[row] .. end /\ R(a) <= x
  BY <1>0, <1>2
<1>5. \A i \in R(a) .. (end - 1) : O[i + 1] >= TileEnd <=> x <= i
  <2> TAKE i \in R(a) .. (end - 1)
  <2>1. i \in B[row] .. (end - 1) /\ i \in Nat
    BY <1>2, <1>4
  <2>2. O[i + 1] < TileEnd <=> i < x
    BY <1>0, <1>2, <2>1
  <2>3. O[i + 1] \in Nat
    <3>1. i + 1 \in 1 .. Len(O)
      BY <1>2, <2>1
    <3> QED BY <1>2, <3>1
  <2>4. x \in Nat
    BY <1>2, <1>4
  <2> QED BY <1>0, <2>1, <2>2, <2>3, <2>4
<1>6. x \in S
  <2>1. CASE x = end
    BY <2>1
  <2>2. CASE x # end
    <3>1. x \in R(a) .. (end - 1) /\ x <= x
      BY <1>2, <1>4, <2>2
    <3> QED BY <1>5, <3>1
  <2> QED BY <2>1, <2>2
<1>7. S \subseteq Int /\ \A y \in S : x <= y
  <2>1. R(a) \in Int /\ end \in Int /\ x <= end
    BY <1>2, <1>4
  <2>2. \A i \in R(a) .. (end - 1) : i \in Int
    BY <2>1
  <2> QED BY <1>5, <2>1, <2>2
<1> HIDE DEF S, x
<1>8. Min(S) = x
  BY <1>6, <1>7, MinIs
<1> QED BY <1>3, <1>8 DEF x, R

(***************************************************************************)
(* One row and one window                                                  *)
(***************************************************************************)

\* What a row keeps after d windows, w of them between two widenings: a total
\* up to the last widening, and the rest in sixteen bits.
Carries(m, t, w, s, r, d, sum, short) ==
    IF d * t >= m.len \/ d % w = 0
    THEN sum = RowSums(m, s, r)[Covered(m, t, d)]
    ELSE /\ sum = RowSums(m, s, r)[Covered(m, t, d - (d % w))]
         /\ short = RowSums(m, s, r)[Covered(m, t, d)] - sum

\* What a window's elements leave in a row's sixteen bits.
Narrow(m, t, w, s, r, d, short) ==
    Wrap16(Wrap16((IF d % w = 0 THEN 0 ELSE short)
                  + Taken(m, s, r, "plus", Covered(m, t, d), Covered(m, t, d + 1)))
           - Wrap16(Taken(m, s, r, "minus", Covered(m, t, d), Covered(m, t, d + 1))))

\* The windows suit the vector: the entries between two widenings fit sixteen
\* bits, and all of them 32.
Suits(m, t, w) ==
    /\ t \in Nat \ {0} /\ w \in Nat \ {0}
    /\ \E most \in Nat :
          /\ \A s \in SliceIds : \A e \in 0 .. (m.len - 1) : Abs(m.digit[s][e]) <= most
          /\ (w * t) * most <= I16Max
          /\ m.len * most <= I32Max

\* Windows cover the elements from left to right, at most t each.
LEMMA CoveredIs ==
    ASSUME NEW n \in Nat, NEW m, m.len = n, NEW t \in Nat, NEW i \in Nat, NEW j \in Nat, i <= j
    PROVE  /\ Covered(m, t, i) \in 0 .. n /\ Covered(m, t, j) \in 0 .. n
           /\ Covered(m, t, i) <= Covered(m, t, j)
           /\ Covered(m, t, j) - Covered(m, t, i) <= (j - i) * t
           /\ Covered(m, t, 0) = 0
<1>1. PICK c \in Nat : j = i + c
  <2>1. j - i \in Nat /\ j = i + (j - i)
    OBVIOUS
  <2> QED BY <2>1
<1>2. PICK x \in Nat, y \in Nat : x = i * t /\ y = c * t
  <2>1. i * t \in Nat /\ c * t \in Nat
    OBVIOUS
  <2> QED BY <2>1
<1>3. j * t = x + y /\ (j - i) * t = y
  <2>1. (i + c) * t = (i * t) + (c * t) /\ (i + c) - i = c
    OBVIOUS
  <2> QED BY <1>1, <1>2, <2>1
<1>4. Covered(m, t, i) = (IF x <= n THEN x ELSE n) /\ Covered(m, t, j) = IF x + y <= n THEN x + y ELSE n
  BY <1>2, <1>3 DEF Covered
<1>5. Covered(m, t, 0) = 0
  <2>1. 0 * t = 0
    OBVIOUS
  <2> QED BY <2>1 DEF Covered
<1> QED BY <1>3, <1>4, <1>5

\* Remainders of consecutive numbers.
LEMMA NextRemainder ==
    ASSUME NEW d \in Nat, NEW w \in Nat \ {0}
    PROVE  /\ d % w \in 0 .. (w - 1) /\ d - (d % w) \in Nat
           /\ (d + 1) % w = IF d % w = w - 1 THEN 0 ELSE (d % w) + 1
<1>1. d % w \in 0 .. (w - 1)
  BY Remainders
<1>0. ASSUME NEW x \in Int PROVE \E q \in Int : x = (w * q) + (x % w)
  BY Remainders
<1>2. PICK p \in Int : d = (w * p) + (d % w)
  <2>1. d \in Int
    OBVIOUS
  <2> QED BY ONLY <1>0, <2>1
<1>3. PICK q \in Int : d + 1 = (w * q) + ((d + 1) % w)
  <2>1. d + 1 \in Int
    OBVIOUS
  <2> QED BY ONLY <1>0, <2>1
<1>4. (d + 1) % w \in 0 .. (w - 1)
  BY Remainders
<1> DEFINE a == d % w
           b == (d + 1) % w
<1>5. a \in 0 .. (w - 1) /\ b \in 0 .. (w - 1) /\ d = (w * p) + a /\ d + 1 = (w * q) + b
  BY <1>1, <1>2, <1>3, <1>4
<1> HIDE DEF a, b
<1>6. w * (q - p) = (a + 1) - b
  <2>1. w * (q - p) = (w * q) - (w * p) /\ w * q \in Int /\ w * p \in Int
    OBVIOUS
  <2> QED BY <1>5, <2>1
<1>7. PICK z \in Int : z = q - p
  OBVIOUS
<1>8. w * z = (a + 1) - b
  BY <1>6, <1>7
<1>9. z = 0 \/ z = 1
  <2>1. CASE z >= 2
    <3>1. w * z >= w * 2
      BY <2>1
    <3> QED BY <1>5, <1>8, <3>1
  <2>2. CASE z <= -1
    <3>1. w * z <= w * (-1)
      BY <2>2
    <3>2. w * (-1) = -w
      OBVIOUS
    <3> QED BY <1>5, <1>8, <3>1, <3>2
  <2> QED BY <2>1, <2>2
<1>10. b = IF a = w - 1 THEN 0 ELSE a + 1
  <2>1. CASE z = 0
    <3>1. w * 0 = 0
      OBVIOUS
    <3> QED BY <1>5, <1>8, <2>1, <3>1
  <2>2. CASE z = 1
    <3>1. w * 1 = w
      OBVIOUS
    <3> QED BY <1>5, <1>8, <2>2, <3>1
  <2> QED BY <1>9, <2>1, <2>2
<1>11. d - a \in Nat
  <2>1. p >= 0
    <3> SUFFICES ASSUME p <= -1 PROVE FALSE
      OBVIOUS
    <3>1. w * p <= w * (-1) /\ w * (-1) = -w
      OBVIOUS
    <3> QED BY <1>5, <3>1
  <2>2. w * p \in Nat
    BY <2>1
  <2> QED BY <1>5, <2>2
<1> QED BY <1>5, <1>10, <1>11 DEF a, b

\* One window: whatever it widens, the row still carries its exact sum.
LEMMA WindowAdded ==
    ASSUME NEW m \in Inputs, NEW t, NEW w, Suits(m, t, w),
           NEW s \in SliceIds, NEW r \in RowIds, NEW d \in Nat, d * t < m.len,
           NEW sum, NEW short, Carries(m, t, w, s, r, d, sum, short)
    PROVE  LET part == Narrow(m, t, w, s, r, d, short)
               closes == d % w = w - 1 \/ (d + 1) * t >= m.len
           IN  /\ part \in Int /\ sum \in Int
               /\ Wrap32(sum + part) \in Int
               /\ Carries(m, t, w, s, r, d + 1,
                          IF closes THEN Wrap32(sum + part) ELSE sum,
                          IF closes THEN short ELSE part)
<1> DEFINE o == d - (d % w)
           S(j) == RowSums(m, s, r)[Covered(m, t, j)]
           x == (IF d % w = 0 THEN 0 ELSE short)
                + Taken(m, s, r, "plus", Covered(m, t, d), Covered(m, t, d + 1))
           y == Taken(m, s, r, "minus", Covered(m, t, d), Covered(m, t, d + 1))
           part == Narrow(m, t, w, s, r, d, short)
<1>1. t \in Nat \ {0} /\ w \in Nat \ {0} /\ m.len \in Nat /\ d + 1 \in Nat /\ I16Max \in Nat /\ I32Max \in Nat
  BY InputsAre, Constants DEF Suits
<1>2. PICK most \in Nat :
          /\ \A z \in SliceIds : \A e \in 0 .. (m.len - 1) : Abs(m.digit[z][e]) <= most
          /\ (w * t) * most <= I16Max
          /\ m.len * most <= I32Max
  BY DEF Suits
<1>3. /\ d % w \in 0 .. (w - 1) /\ o \in Nat
      /\ (d + 1) % w = IF d % w = w - 1 THEN 0 ELSE (d % w) + 1
  BY <1>1, NextRemainder
<1>4. o <= d /\ o <= d + 1 /\ d <= d + 1 /\ (d + 1) - o <= w /\ (d + 1) - o \in Nat
  BY <1>1, <1>3
<1> HIDE DEF o
<1>5. /\ Covered(m, t, o) \in 0 .. m.len /\ Covered(m, t, d) \in 0 .. m.len
      /\ Covered(m, t, d + 1) \in 0 .. m.len
      /\ Covered(m, t, o) <= Covered(m, t, d + 1) /\ Covered(m, t, d) <= Covered(m, t, d + 1)
      /\ Covered(m, t, d + 1) - Covered(m, t, o) <= ((d + 1) - o) * t
  BY <1>1, <1>3, <1>4, CoveredIs
<1>6. S(o) \in Int /\ S(d) \in Int /\ S(d + 1) \in Int
  BY <1>5, RowSumsAdd DEF RowAdds
<1>7. x \in Int /\ y \in Int /\ sum = S(o) /\ x - y = S(d + 1) - S(o)
  <2>1. /\ Taken(m, s, r, "plus", Covered(m, t, d), Covered(m, t, d + 1)) \in Int
        /\ y \in Int
        /\ Taken(m, s, r, "plus", Covered(m, t, d), Covered(m, t, d + 1)) - y = S(d + 1) - S(d)
    <3>1. Covered(m, t, d + 1) \in Covered(m, t, d) .. m.len
      BY <1>1, <1>5
    <3> QED BY <1>5, <3>1, RowTaken
  <2>2. CASE d % w = 0
    <3>1. o = d /\ sum = S(d)
      BY <1>1, <2>2 DEF Carries, o
    <3>2. x = Taken(m, s, r, "plus", Covered(m, t, d), Covered(m, t, d + 1))
      BY <2>1, <2>2
    <3> QED BY <1>6, <2>1, <3>1, <3>2
  <2>3. CASE d % w # 0
    <3>1. sum = S(o) /\ short = S(d) - sum
      <4>1. ~(d * t >= m.len)
        <5>1. d * t \in Nat
          BY <1>1
        <5> QED BY <1>1, <5>1
      <4> QED BY <2>3, <4>1 DEF Carries, o
    <3>2. x = short + Taken(m, s, r, "plus", Covered(m, t, d), Covered(m, t, d + 1))
      BY <2>3
    <3> HIDE DEF S, x, y
    <3> QED BY <1>6, <2>1, <3>1, <3>2
  <2> QED BY <2>2, <2>3
<1>8. Abs(S(d + 1) - S(o)) <= I16Max
  <2>1. Covered(m, t, d + 1) \in Covered(m, t, o) .. m.len
    BY <1>1, <1>5
  <2>2. Abs(S(d + 1) - S(o)) <= (Covered(m, t, d + 1) - Covered(m, t, o)) * most
    BY <1>2, <1>5, <2>1, RowGrows
  <2>3. PICK c \in Nat : c = Covered(m, t, d + 1) - Covered(m, t, o)
    <3>1. Covered(m, t, d + 1) - Covered(m, t, o) \in Nat
      <4> DEFINE u == Covered(m, t, d + 1)
                 v == Covered(m, t, o)
      <4>1. u \in 0 .. m.len /\ v \in 0 .. m.len /\ v <= u
        BY <1>5
      <4> HIDE DEF u, v
      <4>2. u - v \in Nat
        BY <1>1, <4>1
      <4> QED BY <4>2 DEF u, v
    <3> QED BY <3>1
  <2>4. ((d + 1) - o) * t \in Nat /\ w * t \in Nat /\ ((d + 1) - o) * t <= w * t
    BY <1>1, <1>4, Grows
  <2>5. c <= w * t
    BY <1>5, <2>3, <2>4
  <2>6. c * most <= (w * t) * most /\ c * most \in Nat /\ (w * t) * most \in Nat
    BY <2>4, <2>5, Grows
  <2>7. Abs(S(d + 1) - S(o)) \in Int
    BY <1>6 DEF Abs
  <2> HIDE DEF S
  <2> QED BY <1>1, <1>2, <2>2, <2>3, <2>6, <2>7
<1>9. part = S(d + 1) - S(o)
  <2>1. part = Wrap16(Wrap16(x) - Wrap16(y))
    BY DEF Narrow
  <2> HIDE DEF x, y, S, part
  <2> QED BY <1>7, <1>8, <2>1, WrapDifference
<1>10. part \in Int /\ sum \in Int /\ sum + part = S(d + 1)
  <2> HIDE DEF S, part
  <2> QED BY <1>6, <1>7, <1>9
<1>11. Abs(S(d + 1)) <= I32Max
  <2>1. 0 \in 0 .. m.len /\ Covered(m, t, d + 1) \in 0 .. m.len
    BY <1>1, <1>5
  <2>2. Abs(S(d + 1) - RowSums(m, s, r)[0]) <= (Covered(m, t, d + 1) - 0) * most
    BY <1>2, <2>1, RowGrows
  <2>3. RowSums(m, s, r)[0] = 0
    BY RowSumsAdd DEF RowAdds
  <2>4. PICK c \in Nat : c = Covered(m, t, d + 1)
    BY <1>1, <2>1
  <2>5. c * most <= m.len * most /\ c * most \in Nat /\ m.len * most \in Nat
    BY <1>1, <2>1, <2>4, Grows
  <2>6. Abs(S(d + 1)) \in Int /\ S(d + 1) - 0 = S(d + 1) /\ c - 0 = c
    BY <1>6 DEF Abs
  <2> HIDE DEF S
  <2> QED BY <1>1, <1>2, <2>2, <2>3, <2>4, <2>5, <2>6 DEF S
<1>12. Wrap32(sum + part) = S(d + 1) /\ Wrap32(sum + part) \in Int
  <2> HIDE DEF S, part
  <2> QED BY <1>6, <1>10, <1>11, Fits32
<1> DEFINE closes == d % w = w - 1 \/ (d + 1) * t >= m.len
<1>13. CASE closes
  <2>1. (d + 1) * t >= m.len \/ (d + 1) % w = 0
    BY <1>3, <1>13
  <2>2. Carries(m, t, w, s, r, d + 1, Wrap32(sum + part), short)
    <3>1. Wrap32(sum + part) = RowSums(m, s, r)[Covered(m, t, d + 1)]
      BY <1>12
    <3> HIDE DEF part
    <3> QED BY <2>1, <3>1 DEF Carries
  <2> HIDE DEF part
  <2> QED BY <1>10, <1>12, <1>13, <2>2 DEF part
<1>14. CASE ~closes
  <2>1. ~((d + 1) * t >= m.len \/ (d + 1) % w = 0)
    BY <1>3, <1>14
  <2>2. (d + 1) - ((d + 1) % w) = o
    BY <1>1, <1>3, <1>14 DEF o
  <2>3. Carries(m, t, w, s, r, d + 1, sum, part)
    <3>1. sum = S(o) /\ part = S(d + 1) - sum
      BY <1>7, <1>9
    <3> HIDE DEF part
    <3> QED BY <2>1, <2>2, <3>1 DEF Carries
  <2> HIDE DEF part
  <2> QED BY <1>10, <1>12, <1>14, <2>3 DEF part
<1> QED BY <1>13, <1>14

\* The scalar kernel's row.
LEMMA WholeRow ==
    ASSUME NEW m \in Inputs, NEW s \in SliceIds, NEW r \in RowIds
    PROVE  LET Whole(sign) == ListSum(OffsetList(m, sign), m.digit[s],
                                      Bounds(m, sign)[r], Bounds(m, sign)[r + 1])
           IN  Whole("plus") - Whole("minus") = RowSums(m, s, r)[m.len]
<1> DEFINE Whole(sign) == ListSum(OffsetList(m, sign), m.digit[s],
                                  Bounds(m, sign)[r], Bounds(m, sign)[r + 1])
<1>1. m.len \in Nat /\ 0 \in 0 .. m.len /\ m.len \in 0 .. m.len
  BY InputsAre
<1>2. \A sign \in Signs : Whole(sign) = Taken(m, s, r, sign, 0, m.len)
  <2> TAKE sign \in Signs
  <2>1. Reached(m, sign, r, 0) = Bounds(m, sign)[r] /\ Reached(m, sign, r, m.len) = Bounds(m, sign)[r + 1]
    BY RowReached DEF ReachesRow
  <2> QED BY <2>1 DEF Taken
<1>3. "plus" \in Signs /\ "minus" \in Signs
  BY DEF Signs
<1>4. /\ Taken(m, s, r, "plus", 0, m.len) - Taken(m, s, r, "minus", 0, m.len)
           = RowSums(m, s, r)[m.len] - RowSums(m, s, r)[0]
      /\ RowSums(m, s, r)[m.len] \in Int /\ RowSums(m, s, r)[0] = 0
  BY <1>1, RowTaken, RowSumsAdd DEF RowAdds
<1>5. RowSums(m, s, r)[m.len] - 0 = RowSums(m, s, r)[m.len]
  BY <1>4
<1> QED BY <1>2, <1>3, <1>4, <1>5

(***************************************************************************)
(* The tiled kernel's invariant                                            *)
(***************************************************************************)

\* Types, and the lists that the two passes built.
TiledTypeOK ==
    /\ tiled \in {"idle", "rows", "written", "panicked"}
    /\ k \in SliceIds /\ row \in RowIds
    /\ tile \in Nat /\ run \in Nat /\ tileIndex \in Nat
    /\ lists = SignedOffsetLists(in)
    /\ cursor \in [Signs -> [RowIds -> Int]]
    /\ held \in PerRow(Int) /\ total \in PerRow(Int)
    /\ image \in [SliceIds -> PerRow(Int)]

\* The tiled kernel runs after the grouped one declined, which it does for no
\* empty vector.
RunsAfterDecline ==
    /\ tiled # "idle" => at = "declined"
    /\ at = "declined" => in.len # 0

\* The first n slices are written, exactly.
WrittenExactly(n) ==
    \A s \in SliceIds : s < n => \A r \in RowIds : image[s][r] = RowSums(in, s, r)[in.len]

\* Nothing is consumed before the windows are sized; only the scalar kernel
\* has written a slice by then.
WaitsAtStart ==
    tiled = "idle" =>
       /\ tileIndex = 0 /\ row = 0
       /\ cursor = AtRowStarts(lists) /\ total = Zeros
       /\ k = 0 \/ MaxAbs(in) > I16Max
       /\ WrittenExactly(k)

\* The windows that a row has been through.
DoneBy(r) == IF r < row THEN tileIndex + 1 ELSE tileIndex

\* A row's cursors stand behind the windows done, and it carries their sum.
RowInStep(r) ==
    /\ \A sign \in Signs : cursor[sign][r] = Reached(in, sign, r, Covered(in, tile, DoneBy(r)))
    /\ Carries(in, tile, run, k, r, DoneBy(r), total[r], held[r])

\* While windows are consumed every row carries its exact sum.
RowsInStep ==
    tiled = "rows" =>
       /\ Suits(in, tile, run)
       /\ row # 0 => tileIndex * tile < in.len
       /\ WrittenExactly(k)
       /\ \A r \in RowIds : RowInStep(r)

\* In the end every slice is exact.
AllWritten == tiled = "written" => WrittenExactly(Slices)

\* The inductive invariant of the tiled and the scalar kernel.
TiledInv == TiledTypeOK /\ RunsAfterDecline /\ WaitsAtStart /\ RowsInStep /\ AllWritten

\* The cursors at the beginnings of the rows.
LEMMA StartsOfRows ==
    ASSUME in \in Inputs
    PROVE  /\ AtRowStarts(SignedOffsetLists(in)) \in [Signs -> [RowIds -> Int]]
           /\ \A sign \in Signs, r \in RowIds :
                 AtRowStarts(SignedOffsetLists(in))[sign][r] = Reached(in, sign, r, 0)
<1>1. \A sign \in Signs, r \in RowIds :
         /\ SignedOffsetLists(in)[sign].bounds[r] = Bounds(in, sign)[r]
         /\ Bounds(in, sign)[r] \in Nat /\ Reached(in, sign, r, 0) = Bounds(in, sign)[r]
  BY RowReached DEF ReachesRow, SignedOffsetLists
<1> QED BY <1>1 DEF AtRowStarts

\* The tiled kernel has not begun.
LEMMA TiledInitial ==
    ASSUME GroupedInit, TiledInit
    PROVE  TiledInv
<1>1. in \in Inputs /\ at = "entered"
  BY DEF GroupedInit
<1>2. 0 \in SliceIds /\ 0 \in RowIds /\ \A s \in SliceIds : ~(s < 0)
  BY KernelAssumption DEF SliceIds, RowIds
<1>3. Zeros \in PerRow(Int)
  BY DEF Zeros, PerRow
<1>4. cursor \in [Signs -> [RowIds -> Int]]
  BY <1>1, StartsOfRows DEF TiledInit
<1>5. TiledTypeOK
  BY <1>2, <1>3, <1>4 DEF TiledInit, TiledTypeOK
<1>6. WrittenExactly(0)
  BY <1>2 DEF WrittenExactly
<1>7. RunsAfterDecline /\ WaitsAtStart /\ RowsInStep /\ AllWritten
  BY <1>1, <1>6 DEF TiledInit, RunsAfterDecline, WaitsAtStart, RowsInStep, AllWritten
<1> QED BY <1>5, <1>7 DEF TiledInv

\* Steps of the grouped kernel.
LEMMA GroupedKeepsTiled ==
    ASSUME TiledInv, GroupedInv, GroupedNext, UNCHANGED tvars
    PROVE  TiledInv'
<1>1. in' = in
  BY DEF GroupedNext, Enter, OpenBlock, DeclineBlock, AddGroup, CloseBlock, NextSlice, LastSlice, EndSlice
<1>2. at # "declined"
  BY DEF GroupedNext, Enter, OpenBlock, DeclineBlock, AddGroup, CloseBlock, NextSlice, LastSlice, EndSlice
<1>3. tiled = "idle" /\ tiled' = "idle"
  BY <1>2 DEF TiledInv, RunsAfterDecline, tvars
<1>4. at' = "declined" => in.len # 0
  <2> SUFFICES ASSUME at' = "declined", in.len = 0 PROVE FALSE
    OBVIOUS
  <2>1. Block \in Nat \ {0} /\ block \in Nat /\ I16Max \in Nat /\ I32Max \in Nat
    BY Constants DEF GroupedInv, GroupedTypeOK
  <2>2. Blocks = 0
    <3>1. 0 \div Block = 0
      BY <2>1
    <3> QED BY <3>1 DEF Blocks
  <2>3. CASE Enter
    <3>1. TooLong
      BY <2>3 DEF Enter
    <3>2. I16Max \div Block \in Nat
      BY <2>1, Division
    <3>3. 0 * Block = 0 /\ 0 * (I16Max \div Block) = 0
      BY <2>1, <3>2
    <3>4. ~(0 > I32Max)
      BY <2>1
    <3> QED BY <2>2, <3>1, <3>3, <3>4 DEF TooLong
  <2>4. CASE DeclineBlock
    BY <2>1, <2>2, <2>4 DEF DeclineBlock
  <2> QED BY <2>3, <2>4 DEF GroupedNext, OpenBlock, AddGroup, CloseBlock, NextSlice, LastSlice, EndSlice
<1>5. TiledTypeOK'
  BY <1>1 DEF TiledInv, TiledTypeOK, tvars
<1>6. RunsAfterDecline'
  BY <1>1, <1>3, <1>4 DEF RunsAfterDecline
<1>7. WaitsAtStart'
  BY <1>1, <1>3 DEF TiledInv, WaitsAtStart, WrittenExactly, tvars
<1>8. RowsInStep' /\ AllWritten'
  BY <1>3 DEF RowsInStep, AllWritten
<1> QED BY <1>5, <1>6, <1>7, <1>8 DEF TiledInv

\* The assertion on the 32 bit sums ends the run.
LEMMA OverflowKeeps ==
    ASSUME TiledInv, RowSumsOverflow, UNCHANGED gvars
    PROVE  TiledInv'
<1>1. in' = in /\ at' = at /\ at = "declined" /\ tiled' = "panicked"
  BY DEF RowSumsOverflow, gvars
<1>2. TiledTypeOK'
  BY <1>1 DEF TiledInv, TiledTypeOK, RowSumsOverflow
<1> QED BY <1>1, <1>2 DEF TiledInv, RunsAfterDecline, WaitsAtStart, RowsInStep, AllWritten

\* Nothing changes.
LEMMA TiledStutters ==
    ASSUME TiledInv, UNCHANGED vars
    PROVE  TiledInv'
<1>1. in' = in /\ at' = at
  BY DEF vars, gvars
<1>2. TiledTypeOK'
  BY <1>1 DEF TiledInv, TiledTypeOK, vars, tvars
<1>3. RunsAfterDecline' /\ WaitsAtStart' /\ AllWritten'
  BY <1>1 DEF TiledInv, RunsAfterDecline, WaitsAtStart, AllWritten, WrittenExactly, vars, tvars
<1>4. RowsInStep'
  BY <1>1 DEF TiledInv, RowsInStep, RowInStep, DoneBy, WrittenExactly, vars, tvars
<1> QED BY <1>2, <1>3, <1>4 DEF TiledInv

\* A multiple of the divisor fits in what is divided.
LEMMA Quotient ==
    ASSUME NEW a \in Nat, NEW b \in Nat \ {0}
    PROVE  /\ a \div b \in Nat /\ (a \div b) * b <= a
           /\ b <= a => a \div b \in Nat \ {0}
<1>1. a \div b \in Nat /\ (b * 1 <= a => 1 <= a \div b)
  BY Division
<1>2. a = (b * (a \div b)) + (a % b) /\ a % b \in 0 .. (b - 1)
  OBVIOUS
<1>3. PICK q \in Nat : q = a \div b
  BY <1>1
<1>4. q * b = b * q /\ b * q \in Nat /\ b * 1 = b
  OBVIOUS
<1> QED BY <1>1, <1>2, <1>3, <1>4

\* The kernel's own limits suit the vector.
LEMMA LimitsSuit ==
    ASSUME NEW m \in Inputs, m.len # 0, MaxAbs(m) <= I16Max, m.len * MaxAbs(m) <= I32Max,
           NEW limit, limit = I16Max \div Max({MaxAbs(m), 1})
    PROVE  Suits(m, Min({limit, TileMax}), limit \div Min({limit, TileMax}))
<1>1. /\ MaxAbs(m) \in Nat
      /\ \A s \in SliceIds : \A e \in 0 .. (m.len - 1) : Abs(m.digit[s][e]) <= MaxAbs(m)
  BY LargestIs
<1>2. PICK most \in Nat : most = MaxAbs(m)
  BY <1>1
<1>3. I16Max \in Nat \ {0} /\ TileMax \in Nat \ {0} /\ m.len \in Nat
  BY Constants, TileAssumption, InputsAre
<1>4. PICK top \in Nat \ {0} : top = Max({MaxAbs(m), 1}) /\ most <= top /\ top <= I16Max
  <2>1. {most, 1} \subseteq 0 .. I16Max /\ {most, 1} # {}
    BY <1>2, <1>3
  <2>2. Max({most, 1}) \in {most, 1} /\ \A y \in {most, 1} : y <= Max({most, 1})
    BY <1>3, <2>1, MaxIs
  <2>3. PICK top : top = Max({most, 1})
    OBVIOUS
  <2>4. top \in {most, 1} /\ most <= top /\ 1 <= top
    BY <2>2, <2>3
  <2>5. top \in Nat \ {0} /\ top <= I16Max
    BY <1>2, <1>3, <2>4
  <2> QED BY <1>2, <2>3, <2>4, <2>5
<1>5. limit \in Nat \ {0} /\ limit * top <= I16Max
  BY <1>2, <1>3, <1>4, Quotient
<1>6. PICK t \in Nat \ {0} : t = Min({limit, TileMax}) /\ t <= limit
  <2>1. CASE limit <= TileMax
    <3>0. limit \in {limit, TileMax} /\ {limit, TileMax} \subseteq Int
          /\ \A y \in {limit, TileMax} : limit <= y
      BY <1>3, <1>5, <2>1
    <3>1. Min({limit, TileMax}) = limit
      BY <3>0, MinIs
    <3> QED BY <1>5, <3>1
  <2>2. CASE ~(limit <= TileMax)
    <3>0. TileMax <= limit /\ TileMax \in {limit, TileMax} /\ {limit, TileMax} \subseteq Int
      BY <1>3, <1>5, <2>2
    <3>1. Min({limit, TileMax}) = TileMax
      BY <1>3, <3>0, MinIs
    <3> QED BY <1>3, <3>0, <3>1
  <2> QED BY <2>1, <2>2
<1>7. PICK w \in Nat \ {0} : w = limit \div t /\ w * t <= limit
  BY <1>5, <1>6, Quotient
<1>8. (w * t) * most <= I16Max
  <2>1. w * t \in Nat
    OBVIOUS
  <2>2. PICK c \in Nat : c = w * t
    BY <2>1
  <2>3. c * most <= limit * most /\ c * most \in Nat /\ limit * most \in Nat
    BY <1>5, <1>7, <2>2, Grows
  <2>4. most * limit <= top * limit /\ top * limit \in Nat /\ most * limit = limit * most
        /\ top * limit = limit * top
    BY <1>4, <1>5, Grows
  <2> QED BY <1>3, <1>5, <2>2, <2>3, <2>4
<1> QED BY <1>1, <1>2, <1>6, <1>7, <1>8 DEF Suits

\* The windows are sized; every row stands at its beginning.
LEMMA PrepareKeeps ==
    ASSUME TiledInv, GroupedInv, Prepare, UNCHANGED gvars
    PROVE  TiledInv'
<1>1. /\ in' = in /\ at' = at /\ at = "declined" /\ tiled = "idle" /\ tiled' = "rows"
      /\ k' = k /\ tileIndex' = tileIndex /\ row' = row /\ lists' = lists /\ cursor' = cursor
      /\ held' = held /\ total' = total /\ image' = image
  BY DEF Prepare, gvars
<1>2. /\ in \in Inputs /\ in.len # 0 /\ in.len \in Nat
      /\ tileIndex = 0 /\ row = 0 /\ cursor = AtRowStarts(lists) /\ total = Zeros
      /\ k \in SliceIds
      /\ lists = SignedOffsetLists(in) /\ WrittenExactly(k)
  BY <1>1, InputsAre DEF TiledInv, RunsAfterDecline, WaitsAtStart, TiledTypeOK, GroupedInv, GroupedTypeOK
<1>3. Suits(in, tile', run')
  BY <1>2, LimitsSuit DEF Prepare
<1>4. tile' \in Nat \ {0} /\ run' \in Nat \ {0}
  BY <1>3 DEF Suits
<1>5. TiledTypeOK'
  BY <1>1, <1>4 DEF TiledInv, TiledTypeOK
<1>6. RunsAfterDecline' /\ WaitsAtStart' /\ AllWritten'
  BY <1>1, <1>2 DEF RunsAfterDecline, WaitsAtStart, AllWritten
<1>7. RowsInStep'
  <2>1. WrittenExactly(k)'
    BY <1>1, <1>2 DEF WrittenExactly
  <2>2. ASSUME NEW r \in RowIds PROVE RowInStep(r)'
    <3>1. DoneBy(r)' = 0
      BY <1>1, <1>2 DEF DoneBy, RowIds
    <3>2. Covered(in, tile', 0) = 0
      BY <1>2, <1>4, CoveredIs
    <3>3. \A sign \in Signs : cursor[sign][r] = Reached(in, sign, r, 0)
      BY <1>2, StartsOfRows
    <3>4. total[r] = 0 /\ RowSums(in, k, r)[0] = 0
      BY <1>2, RowSumsAdd DEF Zeros, RowAdds
    <3>5. 0 % run' = 0
      <4>1. PICK w \in Nat \ {0} : w = run'
        BY <1>4
      <4>2. 0 % w = 0
        OBVIOUS
      <4> QED BY <4>1, <4>2
    <3>6. Carries(in, tile', run', k, r, 0, total[r], held[r])
      BY <3>2, <3>4, <3>5 DEF Carries
    <3> QED BY <1>1, <3>1, <3>2, <3>3, <3>6 DEF RowInStep
  <2> QED BY <1>1, <1>2, <1>3, <2>1, <2>2 DEF RowsInStep
<1> QED BY <1>5, <1>6, <1>7 DEF TiledInv

\* One more slice is exact.
LEMMA OneMoreWritten ==
    ASSUME k \in SliceIds, WrittenExactly(k), image \in [SliceIds -> PerRow(Int)], in' = in,
           NEW n, n = k + 1, NEW sums, image' = [image EXCEPT ![k] = sums],
           \A r \in RowIds : sums[r] = RowSums(in, k, r)[in.len]
    PROVE  WrittenExactly(n)'
<1>1. k \in Nat /\ \A s \in SliceIds : s \in Nat
  BY DEF SliceIds
<1>2. ASSUME NEW s \in SliceIds, s < k + 1, NEW r \in RowIds
      PROVE  image'[s][r] = RowSums(in, s, r)[in.len]
  <2>1. CASE s = k
    BY <2>1
  <2>2. CASE s # k
    <3>0. s \in Nat /\ k \in Nat /\ s < k + 1
      BY <1>1, <1>2
    <3>1. s < k
      BY ONLY <2>2, <3>0
    <3>2. image'[s] = image[s]
      BY <2>2
    <3> QED BY <3>1, <3>2 DEF WrittenExactly
  <2> QED BY <2>1, <2>2
<1> QED BY <1>2 DEF WrittenExactly

\* Types and boundaries that the tiled kernel's steps share.
LEMMA TiledFacts ==
    ASSUME TiledInv, GroupedInv
    PROVE  /\ in \in Inputs /\ in.len \in Nat /\ TiledTypeOK
           /\ k \in SliceIds /\ k \in Nat /\ Slices \in Nat
           /\ (k + 1 < Slices => k + 1 \in SliceIds)
           /\ (~(k + 1 < Slices) => k + 1 = Slices)
           /\ row \in RowIds /\ row \in Nat
           /\ (row + 1 < Rows => row + 1 \in RowIds)
           /\ (~(row + 1 < Rows) => row + 1 = Rows)
           /\ 0 \in RowIds
           /\ image \in [SliceIds -> PerRow(Int)]
<1>1. in \in Inputs /\ TiledTypeOK
  BY DEF TiledInv, GroupedInv, GroupedTypeOK
<1> QED BY <1>1, InputsAre, KernelAssumption DEF TiledTypeOK, SliceIds, RowIds

\* The scalar kernel writes one slice.
LEMMA ScalarKeeps ==
    ASSUME TiledInv, GroupedInv, ScalarRows, UNCHANGED gvars
    PROVE  TiledInv'
<1> DEFINE Whole(l, r) == ListSum(l.offsets, in.digit[k], l.bounds[r], l.bounds[r + 1])
           sums == [r \in RowIds |-> Whole(lists["plus"], r) - Whole(lists["minus"], r)]
<1>1. /\ in' = in /\ at' = at /\ at = "declined" /\ tiled = "idle"
      /\ tile' = tile /\ run' = run /\ tileIndex' = tileIndex /\ row' = row /\ lists' = lists
      /\ cursor' = cursor /\ held' = held /\ total' = total
      /\ MaxAbs(in) > I16Max
      /\ image' = [image EXCEPT ![k] = sums]
      /\ IF k + 1 < Slices THEN k' = k + 1 /\ tiled' = tiled ELSE tiled' = "written" /\ k' = k
  BY DEF ScalarRows, gvars
<1>2. /\ TiledTypeOK /\ RunsAfterDecline /\ WaitsAtStart /\ WrittenExactly(k)
      /\ lists = SignedOffsetLists(in)
  BY <1>1 DEF TiledInv, WaitsAtStart, TiledTypeOK
<1>3. \A r \in RowIds : sums[r] = RowSums(in, k, r)[in.len] /\ sums[r] \in Int
  <2> TAKE r \in RowIds
  <2>1. sums[r] = RowSums(in, k, r)[in.len]
    <3>1. "plus" \in Signs /\ "minus" \in Signs
      BY DEF Signs
    <3>2. /\ lists["plus"].offsets = OffsetList(in, "plus") /\ lists["plus"].bounds = Bounds(in, "plus")
          /\ lists["minus"].offsets = OffsetList(in, "minus") /\ lists["minus"].bounds = Bounds(in, "minus")
      BY <1>2, <3>1 DEF SignedOffsetLists
    <3>3. k \in SliceIds /\ in \in Inputs
      BY TiledFacts
    <3> QED BY <3>2, <3>3, WholeRow
  <2>2. RowSums(in, k, r)[in.len] \in Int
    <3>1. in \in Inputs /\ k \in SliceIds /\ in.len \in 0 .. in.len
      BY TiledFacts
    <3> QED BY <3>1, RowSumsAdd DEF RowAdds
  <2> HIDE DEF sums
  <2> QED BY <2>1, <2>2
<1>4. sums \in PerRow(Int)
  <2>1. sums = [r \in RowIds |-> sums[r]]
    OBVIOUS
  <2> HIDE DEF sums
  <2> QED BY <1>3, <2>1 DEF PerRow
<1> HIDE DEF sums
<1>5. ASSUME NEW n, n = k + 1 PROVE WrittenExactly(n)'
  BY <1>1, <1>2, <1>3, <1>5, OneMoreWritten, TiledFacts
<1>6. image' \in [SliceIds -> PerRow(Int)]
  BY <1>1, <1>4, TiledFacts
<1>7. k' \in SliceIds
  BY <1>1, TiledFacts
<1>8. TiledTypeOK'
  BY <1>1, <1>2, <1>6, <1>7 DEF TiledTypeOK
<1>9. RunsAfterDecline' /\ RowsInStep'
  BY <1>1, <1>2 DEF RunsAfterDecline, RowsInStep
<1>10. WaitsAtStart'
  <2> SUFFICES ASSUME tiled' = "idle" PROVE WaitsAtStart'
    BY DEF WaitsAtStart
  <2>1. k' = k + 1
    BY <1>1
  <2>2. WrittenExactly(k)'
    BY <1>5, <2>1 DEF WrittenExactly
  <2> QED BY <1>1, <1>2, <2>2 DEF WaitsAtStart
<1>11. AllWritten'
  <2> SUFFICES ASSUME tiled' = "written" PROVE WrittenExactly(Slices)'
    BY DEF AllWritten
  <2>1. k + 1 = Slices
    BY <1>1, TiledFacts
  <2> QED BY <1>5, <2>1 DEF WrittenExactly
<1> QED BY <1>8, <1>9, <1>10, <1>11 DEF TiledInv

\* A slice is written and the next one starts at the beginnings of the rows.
LEMMA WriteKeeps ==
    ASSUME TiledInv, GroupedInv, WriteSlice, UNCHANGED gvars
    PROVE  TiledInv'
<1>1. /\ in' = in /\ at' = at /\ tiled = "rows" /\ tileIndex * tile >= in.len
      /\ tile' = tile /\ run' = run /\ row' = row /\ lists' = lists /\ held' = held
      /\ image' = [image EXCEPT ![k] = total]
      /\ IF k + 1 < Slices
         THEN /\ k' = k + 1 /\ tileIndex' = 0 /\ total' = Zeros /\ cursor' = AtRowStarts(lists)
              /\ tiled' = tiled
         ELSE /\ tiled' = "written" /\ k' = k /\ tileIndex' = tileIndex /\ total' = total
              /\ cursor' = cursor
  BY DEF WriteSlice, gvars
<1>2. /\ TiledTypeOK /\ RunsAfterDecline /\ WrittenExactly(k) /\ Suits(in, tile, run)
      /\ lists = SignedOffsetLists(in)
      /\ \A r \in RowIds : RowInStep(r)
      /\ row # 0 => tileIndex * tile < in.len
  BY <1>1 DEF TiledInv, RowsInStep, TiledTypeOK
<1>3. row = 0
  <2>1. PICK x \in Nat : x = tileIndex * tile
    <3>1. tileIndex \in Nat /\ tile \in Nat
      BY <1>2 DEF TiledTypeOK
    <3>2. tileIndex * tile \in Nat
      BY <3>1
    <3> QED BY <3>2
  <2> QED BY <1>1, <1>2, <2>1, TiledFacts
<1>4. \A r \in RowIds : total[r] = RowSums(in, k, r)[in.len]
  <2> TAKE r \in RowIds
  <2>1. DoneBy(r) = tileIndex
    BY <1>3 DEF DoneBy, RowIds
  <2>2. total[r] = RowSums(in, k, r)[Covered(in, tile, tileIndex)]
    BY <1>1, <1>2, <2>1 DEF RowInStep, Carries
  <2>3. Covered(in, tile, tileIndex) = in.len
    <3>1. PICK x \in Nat : x = tileIndex * tile
      <4>1. tileIndex \in Nat /\ tile \in Nat
        BY <1>2 DEF TiledTypeOK
      <4>2. tileIndex * tile \in Nat
        BY <4>1
      <4> QED BY <4>2
    <3> QED BY <1>1, <3>1, TiledFacts DEF Covered
  <2> QED BY <2>2, <2>3
<1>5. ASSUME NEW n, n = k + 1 PROVE WrittenExactly(n)'
  BY <1>1, <1>2, <1>4, <1>5, OneMoreWritten, TiledFacts
<1>6. image' \in [SliceIds -> PerRow(Int)]
  <2>1. total \in PerRow(Int)
    BY <1>2 DEF TiledTypeOK
  <2> QED BY <1>1, <2>1, TiledFacts
<1>7. k' \in SliceIds
  BY <1>1, TiledFacts
<1>8. TiledTypeOK'
  <2>1. Zeros \in PerRow(Int)
    BY DEF Zeros, PerRow
  <2>2. AtRowStarts(lists) \in [Signs -> [RowIds -> Int]]
    BY <1>2, StartsOfRows, TiledFacts
  <2>3. cursor' \in [Signs -> [RowIds -> Int]] /\ total' \in PerRow(Int) /\ tileIndex' \in Nat
    BY <1>1, <1>2, <2>1, <2>2 DEF TiledTypeOK
  <2>4. tiled' \in {"idle", "rows", "written", "panicked"}
    BY <1>1
  <2> QED BY <1>1, <1>2, <1>6, <1>7, <2>3, <2>4 DEF TiledTypeOK
<1>9. RunsAfterDecline' /\ WaitsAtStart'
  BY <1>1, <1>2 DEF RunsAfterDecline, WaitsAtStart
<1>10. AllWritten'
  <2> SUFFICES ASSUME tiled' = "written" PROVE WrittenExactly(Slices)'
    BY DEF AllWritten
  <2>1. k + 1 = Slices
    BY <1>1, TiledFacts
  <2> QED BY <1>5, <2>1 DEF WrittenExactly
<1>11. RowsInStep'
  <2> SUFFICES ASSUME tiled' = "rows" PROVE RowsInStep'
    BY DEF RowsInStep
  <2>1. k' = k + 1 /\ tileIndex' = 0 /\ total' = Zeros /\ cursor' = AtRowStarts(lists)
    BY <1>1
  <2>2. WrittenExactly(k)'
    BY <1>5, <2>1 DEF WrittenExactly
  <2>3. ASSUME NEW r \in RowIds PROVE RowInStep(r)'
    <3>0. tile \in Nat \ {0} /\ run \in Nat \ {0} /\ in \in Inputs /\ in.len \in Nat
      BY <1>2, TiledFacts DEF Suits
    <3>1. DoneBy(r)' = 0
      BY <1>1, <1>3, <2>1 DEF DoneBy, RowIds
    <3>2. Covered(in, tile, 0) = 0
      BY <3>0, CoveredIs
    <3>3. \A sign \in Signs : cursor'[sign][r] = Reached(in, sign, r, 0)
      BY <1>2, <2>1, <3>0, StartsOfRows
    <3>4. total'[r] = 0 /\ RowSums(in, k', r)[0] = 0
      BY <1>7, <2>1, <3>0, RowSumsAdd DEF Zeros, RowAdds
    <3>5. 0 % run = 0
      <4>1. PICK w \in Nat \ {0} : w = run
        BY <3>0
      <4>2. 0 % w = 0
        OBVIOUS
      <4> QED BY <4>1, <4>2
    <3>6. Carries(in, tile, run, k', r, 0, total'[r], held'[r])
      BY <3>2, <3>4, <3>5 DEF Carries
    <3> QED BY <1>1, <3>1, <3>2, <3>3, <3>6 DEF RowInStep
  <2> QED BY <1>1, <1>2, <1>3, <2>2, <2>3 DEF RowsInStep
<1> QED BY <1>8, <1>9, <1>10, <1>11 DEF TiledInv

\* What a window does to the row whose entries it consumes.
LEMMA RowConsumes ==
    ASSUME TiledInv, GroupedInv, ConsumeWindow
    PROVE  LET d == tileIndex
               part == Narrow(in, tile, run, k, row, d, held[row])
               closes == d % run = run - 1 \/ (d + 1) * tile >= in.len
           IN  /\ part \in Int /\ Wrap32(total[row] + part) \in Int
               /\ total' = IF closes THEN [total EXCEPT ![row] = Wrap32(total[row] + part)] ELSE total
               /\ held' = IF closes THEN held ELSE [held EXCEPT ![row] = part]
               /\ \A sign \in Signs : Stop(sign) = Reached(in, sign, row, Covered(in, tile, d + 1))
               /\ Carries(in, tile, run, k, row, d + 1,
                          IF closes THEN Wrap32(total[row] + part) ELSE total[row],
                          IF closes THEN held[row] ELSE part)
<1> DEFINE d == tileIndex
           part == Narrow(in, tile, run, k, row, d, held[row])
           closes == d % run = run - 1 \/ (d + 1) * tile >= in.len
           T(sign) == ListSum(lists[sign].offsets, in.digit[k], cursor[sign][row], Stop(sign))
<1>1. /\ tiled = "rows" /\ d * tile < in.len
      /\ in \in Inputs /\ in.len \in Nat /\ k \in SliceIds /\ row \in RowIds /\ row \in Nat
      /\ lists = SignedOffsetLists(in) /\ Suits(in, tile, run) /\ RowInStep(row) /\ d \in Nat
      /\ tile \in Nat \ {0} /\ run \in Nat \ {0}
  BY TiledFacts DEF ConsumeWindow, TiledInv, TiledTypeOK, RowsInStep, Suits
<1>2. DoneBy(row) = d
  BY <1>1 DEF DoneBy
<1>3. /\ \A sign \in Signs : cursor[sign][row] = Reached(in, sign, row, Covered(in, tile, d))
      /\ Carries(in, tile, run, k, row, d, total[row], held[row])
  BY <1>1, <1>2 DEF RowInStep
<1>4. /\ Covered(in, tile, d) \in 0 .. in.len /\ Covered(in, tile, d + 1) \in 0 .. in.len
      /\ Covered(in, tile, d) <= Covered(in, tile, d + 1)
  <2>1. d + 1 \in Nat /\ d <= d + 1 /\ tile \in Nat
    BY <1>1
  <2> QED BY <1>1, <2>1, CoveredIs
<1>5. TileEnd = Covered(in, tile, d + 1)
  BY <1>1, TileEndIs
<1>6. TileEnd \in Covered(in, tile, d) .. in.len
  BY <1>1, <1>4, <1>5
<1>7. \A sign \in Signs : Stop(sign) = Reached(in, sign, row, TileEnd)
  BY <1>1, <1>3, <1>4, <1>6, StopIs
<1>8. \A sign \in Signs : T(sign) = Taken(in, k, row, sign, Covered(in, tile, d), Covered(in, tile, d + 1))
  <2> TAKE sign \in Signs
  <2>1. lists[sign].offsets = OffsetList(in, sign)
    BY <1>1 DEF SignedOffsetLists
  <2> QED BY <1>3, <1>5, <1>7, <2>1 DEF Taken
<1>9. "plus" \in Signs /\ "minus" \in Signs
  BY DEF Signs
<1>10. part = Wrap16(Wrap16((IF Opens THEN 0 ELSE held[row]) + T("plus")) - Wrap16(T("minus")))
  BY <1>8, <1>9 DEF Narrow, Opens
<1>11. IF Closes
       THEN /\ total' = [total EXCEPT ![row] = Wrap32(@ + part)]
            /\ held' = held
       ELSE /\ held' = [held EXCEPT ![row] = part]
            /\ total' = total
  BY <1>10 DEF ConsumeWindow
<1>12. Closes <=> closes
  BY DEF Closes
<1>13. /\ part \in Int /\ Wrap32(total[row] + part) \in Int
       /\ Carries(in, tile, run, k, row, d + 1,
                  IF closes THEN Wrap32(total[row] + part) ELSE total[row],
                  IF closes THEN held[row] ELSE part)
  BY <1>1, <1>3, WindowAdded
<1> HIDE DEF part, closes
<1>14. /\ total' = IF closes THEN [total EXCEPT ![row] = Wrap32(total[row] + part)] ELSE total
       /\ held' = IF closes THEN held ELSE [held EXCEPT ![row] = part]
  BY <1>11, <1>12
<1> QED BY <1>5, <1>7, <1>13, <1>14 DEF part, closes

\* One row consumes one window; the others stay where they were.
LEMMA ConsumeKeeps ==
    ASSUME TiledInv, GroupedInv, ConsumeWindow, UNCHANGED gvars
    PROVE  TiledInv'
<1>1. /\ in' = in /\ at' = at /\ tiled = "rows" /\ tiled' = "rows" /\ tileIndex * tile < in.len
      /\ k' = k /\ tile' = tile /\ run' = run /\ lists' = lists /\ image' = image
      /\ cursor' = [sign \in Signs |-> [cursor[sign] EXCEPT ![row] = Stop(sign)]]
      /\ IF row + 1 < Rows THEN row' = row + 1 /\ tileIndex' = tileIndex
                           ELSE row' = 0 /\ tileIndex' = tileIndex + 1
  BY DEF ConsumeWindow, gvars
<1>2. /\ TiledTypeOK /\ RunsAfterDecline /\ WrittenExactly(k) /\ Suits(in, tile, run)
      /\ \A r \in RowIds : RowInStep(r)
  BY <1>1 DEF TiledInv, RowsInStep
<1>3. /\ row \in RowIds /\ row \in Nat /\ in \in Inputs /\ in.len \in Nat
      /\ tileIndex \in Nat /\ tile \in Nat \ {0}
      /\ held \in [RowIds -> Int] /\ total \in [RowIds -> Int]
      /\ cursor \in [Signs -> [RowIds -> Int]]
      /\ (row + 1 < Rows => row + 1 \in RowIds) /\ 0 \in RowIds
      /\ (~(row + 1 < Rows) => row + 1 = Rows)
  BY <1>2, TiledFacts DEF TiledTypeOK, PerRow, Suits
<1> DEFINE d == tileIndex
           part == Narrow(in, tile, run, k, row, d, held[row])
           closes == d % run = run - 1 \/ (d + 1) * tile >= in.len
           whole == Wrap32(total[row] + part)
<1>4. /\ part \in Int /\ whole \in Int
      /\ total' = IF closes THEN [total EXCEPT ![row] = whole] ELSE total
      /\ held' = IF closes THEN held ELSE [held EXCEPT ![row] = part]
      /\ \A sign \in Signs : Stop(sign) = Reached(in, sign, row, Covered(in, tile, d + 1))
      /\ Carries(in, tile, run, k, row, d + 1,
                 IF closes THEN whole ELSE total[row], IF closes THEN held[row] ELSE part)
  BY RowConsumes
<1> HIDE DEF part, closes, whole
<1>5. /\ total' \in [RowIds -> Int] /\ held' \in [RowIds -> Int]
      /\ total'[row] = (IF closes THEN whole ELSE total[row])
      /\ held'[row] = (IF closes THEN held[row] ELSE part)
      /\ \A r \in RowIds : r # row => total'[r] = total[r] /\ held'[r] = held[r]
  <2>1. CASE closes
    BY <1>3, <1>4, <2>1
  <2>2. CASE ~closes
    BY <1>3, <1>4, <2>2
  <2> QED BY <2>1, <2>2
<1>6. \A sign \in Signs : /\ cursor'[sign][row] = Reached(in, sign, row, Covered(in, tile, d + 1))
                          /\ \A r \in RowIds : r # row => cursor'[sign][r] = cursor[sign][r]
  BY <1>1, <1>3, <1>4
<1>7. cursor' \in [Signs -> [RowIds -> Int]]
  <2>1. \A sign \in Signs : Reached(in, sign, row, Covered(in, tile, d + 1)) \in Int
    <3> TAKE sign \in Signs
    <3>1. Covered(in, tile, d + 1) \in 0 .. in.len
      <4>1. d + 1 \in Nat /\ d + 1 <= d + 1 /\ tile \in Nat
        BY <1>3
      <4> QED BY <1>3, <4>1, CoveredIs
    <3>2. /\ Bounds(in, sign)[row] \in Nat /\ Bounds(in, sign)[row + 1] \in Nat
          /\ Reached(in, sign, row, Covered(in, tile, d + 1))
                \in Bounds(in, sign)[row] .. Bounds(in, sign)[row + 1]
      BY <1>3, <3>1, RowReached DEF ReachesRow
    <3> QED BY <3>2
  <2>2. \A sign \in Signs : Stop(sign) \in Int
    BY <1>4, <2>1
  <2> QED BY <1>1, <1>3, <2>2
<1>8. TiledTypeOK'
  <2>1. row' \in RowIds /\ tileIndex' \in Nat
    BY <1>1, <1>3
  <2> QED BY <1>1, <1>2, <1>5, <1>7, <2>1 DEF TiledTypeOK, PerRow
<1>9. RunsAfterDecline' /\ WaitsAtStart' /\ AllWritten'
  BY <1>1, <1>2 DEF RunsAfterDecline, WaitsAtStart, AllWritten
<1>10. \A r \in RowIds : /\ (r = row => DoneBy(r)' = d + 1)
                         /\ (r # row => DoneBy(r)' = DoneBy(r))
  <2> TAKE r \in RowIds
  <2>1. r \in Nat /\ r <= Rows - 1 /\ Rows \in Nat
    BY KernelAssumption DEF RowIds
  <2>2. CASE row + 1 < Rows
    BY <1>1, <1>3, <2>1, <2>2 DEF DoneBy
  <2>3. CASE ~(row + 1 < Rows)
    BY <1>1, <1>3, <2>1, <2>3 DEF DoneBy
  <2> QED BY <2>2, <2>3
<1>11. \A r \in RowIds : RowInStep(r)'
  <2> TAKE r \in RowIds
  <2>1. CASE r = row
    BY <1>1, <1>4, <1>5, <1>6, <1>10, <2>1 DEF RowInStep
  <2>2. CASE r # row
    BY <1>1, <1>2, <1>5, <1>6, <1>10, <2>2 DEF RowInStep
  <2> QED BY <2>1, <2>2
<1>12. row' # 0 => tileIndex' * tile' < in'.len
  BY <1>1
<1>13. WrittenExactly(k)'
  BY <1>1, <1>2 DEF WrittenExactly
<1>14. RowsInStep'
  BY <1>1, <1>2, <1>11, <1>12, <1>13 DEF RowsInStep
<1> QED BY <1>8, <1>9, <1>14 DEF TiledInv

(***************************************************************************)
(* What the grouped kernel keeps is the matrix applied to the digits       *)
(***************************************************************************)

\* The sums kept for a slice are those of the elements before n.
SummedTo(s, n) == \A r \in RowIds : exact[s][r] = RowSums(in, s, r)[n]

\* The history of the grouped kernel is the sum of the elements done.
SumsAreRows ==
    /\ \A s \in SliceIds : s < slice => SummedTo(s, in.len)
    /\ at \in {"entered", "block"} => SummedTo(slice, block * Block)
    /\ at \in {"groups", "rows"} => SummedTo(slice, First)
    /\ at = "emitted" => SummedTo(slice, in.len) /\ slice + 1 = Slices

\* The sum of no elements.
LEMMA RowBegins ==
    ASSUME NEW m \in Inputs, NEW s \in SliceIds, NEW r \in RowIds
    PROVE  RowSums(m, s, r)[0] = 0
BY RowSumsAdd DEF RowAdds

\* Nothing is summed.
LEMMA SumsInitial ==
    ASSUME GroupedInit
    PROVE  SumsAreRows
<1>1. /\ in \in Inputs /\ at = "entered" /\ slice = 0 /\ block = 0
      /\ exact = [s \in SliceIds |-> Zeros]
      /\ 0 \in SliceIds /\ (\A s \in SliceIds : ~(s < 0)) /\ 0 * Block = 0
  <2>1. 0 * Block = 0
    BY Constants
  <2> QED BY <2>1, KernelAssumption DEF GroupedInit, SliceIds
<1>2. SummedTo(0, 0)
  BY <1>1, RowBegins DEF SummedTo, Zeros
<1> QED BY <1>1, <1>2 DEF SumsAreRows

\* A group adds the four elements that follow.
LEMMA AddGroupSums ==
    ASSUME SumsAreRows, GroupedInv, AddGroup
    PROVE  SumsAreRows'
<1>1. /\ in \in Inputs /\ in.len \in Nat /\ slice \in SliceIds /\ slice \in Nat
      /\ block \in Nat /\ group \in Nat /\ group < Pass /\ block < Blocks /\ Blocks \in Nat
      /\ Block \in Nat \ {0} /\ Block = 4 * Pass /\ Pass \in Nat \ {0}
      /\ at = "groups" /\ exact \in [SliceIds -> [RowIds -> Int]]
  <2>1. GroupedTypeOK /\ InsideBlock /\ EntryPassed /\ at = "groups"
    BY DEF GroupedInv, AddGroup
  <2>2. block < Blocks /\ group < Pass
    BY <2>1 DEF InsideBlock
  <2>3. /\ in \in Inputs /\ slice \in SliceIds /\ block \in Nat /\ group \in 0 .. Pass
        /\ exact \in [SliceIds -> [RowIds -> Int]]
    BY <2>1 DEF GroupedTypeOK, PerRow
  <2>4. slice \in Nat
    BY <2>3 DEF SliceIds
  <2>5. in.len \in Nat /\ Blocks \in Nat
    BY <2>1, BlocksFacts
  <2>6. Block \in Nat \ {0} /\ Block = 4 * Pass /\ Pass \in Nat \ {0}
    BY Constants
  <2>7. group \in Nat
    BY <2>3
  <2> QED BY <2>1, <2>2, <2>3, <2>4, <2>5, <2>6, <2>7
<1>2. /\ in' = in /\ slice' = slice /\ block' = block /\ group' = group + 1
      /\ at' \in {"groups", "rows"}
      /\ exact' = [exact EXCEPT ![slice] = [r \in RowIds |-> exact[slice][r] + GroupTerm(r)]]
  BY DEF AddGroup
<1>3. First \in Nat /\ First' = First + 4 /\ First + 4 <= in.len
  <2>1. (block + 1) * Block <= Blocks * Block /\ Blocks * Block <= in.len
        /\ block * Block \in Nat /\ (block + 1) * Block = (block * Block) + Block
        /\ (block + 1) * Block \in Nat /\ Blocks * Block \in Nat
    <3>1. block + 1 <= Blocks /\ block + 1 \in Nat
      BY <1>1
    <3>2. Blocks * Block <= in.len /\ Blocks * Block \in Nat
      <4>1. (in.len \div Block) * Block <= in.len /\ in.len \div Block \in Nat
        BY <1>1, Quotient
      <4>2. Blocks * Block <= in.len
        BY <4>1 DEF Blocks
      <4> QED BY <1>1, <4>2, Products
    <3> QED BY <1>1, <3>1, <3>2, Grows, Products
  <2>2. First = (block * Block) + (group * 4) /\ First' = (block * Block) + ((group + 1) * 4)
    BY <1>2 DEF First, Group, Block
  <2> DEFINE b == block * Block
  <2> HIDE DEF b
  <2>3. b \in Nat /\ First = b + (group * 4) /\ First' = b + ((group + 1) * 4)
    BY <2>1, <2>2 DEF b
  <2>4. b + Block <= in.len
    <3>1. (block + 1) * Block = b + Block
      BY <2>1 DEF b
    <3> DEFINE c == (block + 1) * Block
               v == Blocks * Block
    <3>2. c \in Nat /\ v \in Nat /\ c <= v /\ v <= in.len
      BY <2>1
    <3>3. c = b + Block
      BY <3>1
    <3> HIDE DEF c, v
    <3> QED BY <1>1, <3>2, <3>3
  <2> QED BY <1>1, <2>3, <2>4
<1>4. ASSUME NEW r \in RowIds
      PROVE  RowSums(in, slice, r)[First + 4] = RowSums(in, slice, r)[First] + GroupTerm(r)
  <2> DEFINE R(e) == RowSums(in, slice, r)[e]
             f == First
  <2>1. \A e \in 0 .. (in.len - 1) : R(e + 1) = R(e) + Term(r, e) /\ R(e) \in Int /\ Term(r, e) \in Int
    <3> TAKE e \in 0 .. (in.len - 1)
    <3>1. R(e + 1) = R(e) + (EntryAt(in, r, e) * in.digit[slice][e]) /\ R(e) \in Int
      <4>1. e \in 0 .. in.len
        BY <1>1
      <4> QED BY <1>1, <4>1, RowSumsAdd DEF RowAdds
    <3>2. Term(r, e) = EntryAt(in, r, e) * in.digit[slice][e]
      BY DEF Term, Sign, EntryAt
    <3>3. EntryAt(in, r, e) \in Int /\ in.digit[slice][e] \in Int
      BY <1>1, DigitsAre DEF EntryAt
    <3> HIDE DEF R
    <3> QED BY <3>1, <3>2, <3>3
  <2>2. GroupTerm(r) = Term(r, f) + Term(r, f + 1) + Term(r, f + 2) + Term(r, f + 3)
    BY DEF GroupTerm
  <2>3. f \in 0 .. (in.len - 1) /\ f + 1 \in 0 .. (in.len - 1) /\ f + 2 \in 0 .. (in.len - 1)
        /\ f + 3 \in 0 .. (in.len - 1)
        /\ (f + 1) + 1 = f + 2 /\ (f + 2) + 1 = f + 3 /\ (f + 3) + 1 = f + 4
    BY <1>1, <1>3
  <2> HIDE DEF R, f
  <2>4. R(f + 1) = R(f) + Term(r, f) /\ R(f) \in Int /\ Term(r, f) \in Int
    BY <2>1, <2>3
  <2>5. R(f + 2) = R(f + 1) + Term(r, f + 1) /\ Term(r, f + 1) \in Int
    BY <2>1, <2>3
  <2>6. R(f + 3) = R(f + 2) + Term(r, f + 2) /\ Term(r, f + 2) \in Int
    BY <2>1, <2>3
  <2>7. R(f + 4) = R(f + 3) + Term(r, f + 3) /\ Term(r, f + 3) \in Int
    BY <2>1, <2>3
  <2>8. R(f + 4) = R(f) + GroupTerm(r)
    BY <2>2, <2>4, <2>5, <2>6, <2>7
  <2> QED BY <2>8 DEF R, f
<1>5. SummedTo(slice, First)
  BY <1>1 DEF SumsAreRows
<1>6. SummedTo(slice, First)'
  <2>1. \A r \in RowIds : exact'[slice][r] = RowSums(in, slice, r)[First + 4]
    BY <1>1, <1>2, <1>4, <1>5 DEF SummedTo
  <2> QED BY <1>2, <1>3, <2>1 DEF SummedTo
<1>7. \A s \in SliceIds : s < slice => exact'[s] = exact[s]
  BY <1>1, <1>2 DEF SliceIds
<1> QED BY <1>2, <1>6, <1>7 DEF SumsAreRows, SummedTo

\* At the end of a slice every element was summed.
LEMMA EndSliceSums ==
    ASSUME SumsAreRows, GroupedInv, EndSlice
    PROVE  SummedTo(slice, in.len) /\ exact' = exact /\ in' = in
<1>1. GroupedTypeOK /\ EntryPassed /\ at = "block" /\ block = Blocks
  BY DEF GroupedInv, EndSlice
<1>2. Blocks * Block = in.len
  BY <1>1 DEF EntryPassed
<1> QED BY <1>1, <1>2 DEF SumsAreRows, EndSlice

\* Every step of the grouped kernel.
LEMMA GroupedSums ==
    ASSUME SumsAreRows, GroupedInv, GroupedNext
    PROVE  SumsAreRows'
<1>0. /\ slice \in SliceIds /\ slice \in Nat /\ in \in Inputs
      /\ block \in Nat /\ Block \in Nat \ {0} /\ Block = 4 * Pass /\ Pass \in Nat \ {0}
      /\ \A s \in SliceIds : s \in Nat
  BY Constants DEF GroupedInv, GroupedTypeOK, SliceIds
<1>1. CASE Enter
  BY <1>1 DEF Enter, SumsAreRows, SummedTo
<1>2. CASE OpenBlock
  <2>1. /\ in' = in /\ slice' = slice /\ block' = block /\ exact' = exact /\ at' = "groups"
        /\ group' = 0 /\ at = "block"
    BY <1>2 DEF OpenBlock
  <2>2. First' = block * Block
    <3>1. block * Block \in Nat
      BY <1>0
    <3>2. First' = (block * Block) + (0 * 4)
      BY <2>1 DEF First, Group, Block
    <3> QED BY <3>1, <3>2
  <2> QED BY <2>1, <2>2 DEF SumsAreRows, SummedTo
<1>3. CASE DeclineBlock
  BY <1>3 DEF DeclineBlock, SumsAreRows, SummedTo
<1>4. CASE AddGroup
  BY <1>4, AddGroupSums
<1>5. CASE CloseBlock
  <2>1. /\ in' = in /\ slice' = slice /\ block' = block + 1 /\ exact' = exact /\ at' = "block"
        /\ at = "rows" /\ group = Pass
    BY <1>5 DEF CloseBlock, GroupedInv, InsideBlock
  <2>2. First = (block + 1) * Block
    <3>1. First = (block * Block) + (Pass * 4)
      BY <2>1 DEF First, Group
    <3>2. (block + 1) * Block = (block * Block) + Block /\ block * Block \in Nat
      BY <1>0, Products
    <3> QED BY <1>0, <3>1, <3>2
  <2> QED BY <2>1, <2>2 DEF SumsAreRows, SummedTo
<1>6. CASE NextSlice
  <2>1. /\ in' = in /\ slice' = slice + 1 /\ block' = 0 /\ exact' = exact /\ at' = "block"
        /\ slice + 1 < Slices /\ SummedTo(slice, in.len)
    BY <1>6, EndSliceSums DEF NextSlice, EndSlice
  <2>2. slice + 1 \in SliceIds /\ slice + 1 > slice /\ 0 * Block = 0
    BY <1>0, <2>1, Constants DEF SliceIds
  <2>3. exact[slice + 1] = Zeros
    BY <2>2 DEF GroupedInv, SlicesEmitted
  <2>4. \A r \in RowIds : exact[slice + 1][r] = RowSums(in, slice + 1, r)[0]
    BY <1>0, <2>2, <2>3, RowBegins DEF Zeros
  <2>5. \A s \in SliceIds : s < slice + 1 => SummedTo(s, in.len)
    BY <1>0, <2>1 DEF SumsAreRows
  <2> QED BY <2>1, <2>2, <2>4, <2>5 DEF SumsAreRows, SummedTo
<1>7. CASE LastSlice
  <2>1. /\ in' = in /\ slice' = slice /\ exact' = exact /\ at' = "emitted"
        /\ slice + 1 = Slices /\ SummedTo(slice, in.len)
    BY <1>7, EndSliceSums DEF LastSlice, EndSlice
  <2> QED BY <2>1 DEF SumsAreRows, SummedTo
<1> QED BY <1>1, <1>2, <1>3, <1>4, <1>5, <1>6, <1>7 DEF GroupedNext

\* The tiled kernel touches no sum of the grouped one.
LEMMA SumsStutter ==
    ASSUME SumsAreRows, UNCHANGED gvars
    PROVE  SumsAreRows'
BY DEF SumsAreRows, SummedTo, First, gvars

(***************************************************************************)
(* The whole projection                                                    *)
(***************************************************************************)

\* The inductive invariant of the whole projection.
ProjectInv == GroupedInv /\ SumsAreRows /\ TiledInv

\* The strengthened invariant holds whichever kernels run.
THEOREM ProjectInvariant == Spec => []ProjectInv
<1>1. Init => ProjectInv
  BY InitialInv, SumsInitial, TiledInitial DEF Init, ProjectInv
<1>2. ASSUME ProjectInv, [Next]_vars PROVE ProjectInv'
  <2>0. GroupedInv /\ SumsAreRows /\ TiledInv
    BY <1>2 DEF ProjectInv
  <2>1. CASE GroupedNext /\ UNCHANGED tvars
    <3>1. GroupedInv'
      BY <2>0, <2>1, EnterKeeps, OpenBlockKeeps, DeclineBlockKeeps, AddGroupKeeps, CloseBlockKeeps,
         NextSliceKeeps, LastSliceKeeps DEF GroupedNext
    <3>2. SumsAreRows' /\ TiledInv'
      BY <2>0, <2>1, GroupedSums, GroupedKeepsTiled
    <3> QED BY <3>1, <3>2 DEF ProjectInv
  <2>2. CASE TiledNext /\ UNCHANGED gvars
    <3>1. GroupedInv' /\ SumsAreRows'
      BY <2>0, <2>2, StutterKeeps, SumsStutter
    <3>2. TiledInv'
      BY <2>0, <2>2, PrepareKeeps, OverflowKeeps, ScalarKeeps, ConsumeKeeps, WriteKeeps DEF TiledNext
    <3> QED BY <3>1, <3>2 DEF ProjectInv
  <2>3. CASE UNCHANGED vars
    <3>1. UNCHANGED gvars
      BY <2>0, <2>3 DEF vars
    <3> QED BY <2>0, <2>3, <3>1, StutterKeeps, SumsStutter, TiledStutters DEF ProjectInv
  <2> QED BY <1>2, <2>1, <2>2, <2>3 DEF Next, Finished
<1> QED BY <1>1, <1>2, PTL DEF Spec

\* For every width, number of rows and slices, window, matrix and vector of
\* digits, what is returned is the matrix applied to the digits, whichever of
\* the three kernels ran and wherever the grouped one declined
\* (project_rows_grouped, project_rows_sparse_tiled).
THEOREM ProjectionIsTheMatrix == Spec => []ProjectionIsExact
<1>1. ProjectInv => ProjectionIsExact
  <2> SUFFICES ASSUME ProjectInv, Done, tiled # "panicked",
                      NEW s \in SliceIds, NEW r \in RowIds
               PROVE  (IF at = "emitted" THEN out ELSE image)[s][r] = RowSums(in, s, r)[in.len]
    BY DEF ProjectionIsExact
  <2>1. CASE at = "emitted"
    <3>1. out = exact
      BY <2>1 DEF ProjectInv, GroupedInv, SlicesEmitted, EmittedIsExact
    <3>2. s < slice \/ s = slice
      <4>1. slice + 1 = Slices /\ slice \in SliceIds
        BY <2>1 DEF ProjectInv, GroupedInv, GroupedTypeOK, SumsAreRows
      <4>2. slice \in Nat /\ s \in Nat /\ s <= Slices - 1 /\ Slices \in Nat
        BY <4>1, KernelAssumption DEF SliceIds
      <4> QED BY <4>1, <4>2
    <3>3. SummedTo(s, in.len)
      BY <2>1, <3>2 DEF ProjectInv, SumsAreRows
    <3> QED BY <2>1, <3>1, <3>3 DEF SummedTo
  <2>2. CASE at # "emitted"
    <3>1. WrittenExactly(Slices)
      BY <2>2 DEF ProjectInv, TiledInv, AllWritten, Done
    <3>2. s < Slices
      BY KernelAssumption DEF SliceIds
    <3> QED BY <2>2, <3>1, <3>2 DEF WrittenExactly
  <2> QED BY <2>1, <2>2
<1>2. QED BY <1>1, ProjectInvariant, PTL
=============================================================================

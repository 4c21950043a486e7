---------------------------- MODULE ProjectRows ----------------------------
(***************************************************************************)
(* One block of the coarse projection (project_rows_grouped): the grouped   *)
(* kernel, and when it declines the tiled one (project_rows_sparse_tiled)   *)
(* from the beginning.  The tiled kernel walks each row's sorted lists of   *)
(* +1 and -1 positions with a cursor, a window of elements at a time, adds  *)
(* in sixteen bits with wrap-around, and widens a row's partial every `run` *)
(* windows.  A digit whose magnitude does not fit sends it to the scalar    *)
(* kernel, which adds in 64 bits.                                          *)
(*                                                                         *)
(* Positions stand for the byte offsets of the lists.                      *)
(***************************************************************************)
EXTENDS GroupedRows, Sequences, FiniteSets, FiniteSetsExt

CONSTANT TileMax      \* TILE, the largest window

ASSUME TileAssumption == TileMax \in Nat \ {0}

VARIABLES tiled,      \* where the tiled kernel stands
          k,          \* its slice
          tile, run,  \* elements of a window; windows between two widenings
          tileIndex,  \* windows done
          row,        \* the row whose entries of the window come next
          lists,      \* of each sign: the flat list, and where rows begin in it
          cursor,     \* of each sign: per row, how far its list is consumed
          held,       \* sixteen bit: each row's partial
          total,      \* 32 bit: each row's widened sum
          image       \* what was written for each slice

tvars == <<tiled, k, tile, run, tileIndex, row, lists, cursor, held, total, image>>
vars == <<gvars, tvars>>

(***************************************************************************)
(* The lists of a matrix                                                   *)
(***************************************************************************)

\* Where a row of the matrix has +1, and where -1.
EntriesOf(m, sign, r) ==
    IF sign = "plus" THEN m.nonZero[r] \intersect m.pos[r]
    ELSE m.nonZero[r] \ m.pos[r]

\* A set of positions below len, stored from left to right.
Ascending(len, S) ==
    LET stored[e \in 0 .. len] ==
          IF e = 0 THEN << >>
          ELSE IF e - 1 \in S THEN Append(stored[e - 1], e - 1) ELSE stored[e - 1]
    IN  stored[len]

\* The second pass: the rows' lists of one sign behind each other.
OffsetList(m, sign) ==
    LET glued[i \in 0 .. Rows] ==
          IF i = 0 THEN << >>
          ELSE glued[i - 1] \o Ascending(m.len, EntriesOf(m, sign, i - 1))
    IN  glued[Rows]

\* The first pass counts the entries: where each row's list will begin.
Bounds(m, sign) ==
    LET counted[i \in 0 .. Rows] ==
          IF i = 0 THEN 0 ELSE counted[i - 1] + Cardinality(EntriesOf(m, sign, i - 1))
    IN  counted

Signs == {"plus", "minus"}

SignedOffsetLists(m) ==
    [sign \in Signs |-> [offsets |-> OffsetList(m, sign), bounds |-> Bounds(m, sign)]]

AtRowStarts(l) == [sign \in Signs |-> [r \in RowIds |-> l[sign].bounds[r]]]

(***************************************************************************)
(* The tiled kernel                                                        *)
(***************************************************************************)

\* Mutant of MaxAbs: the last slice speaks for all.
MaxAbsOfLastSlice(v) ==
    Max({Abs(v.digit[Slices - 1][e]) : e \in 0 .. (v.len - 1)})

\* The largest magnitude of a whole vector.
MaxAbs(v) ==
    Max({Abs(v.digit[s][e]) : s \in SliceIds, e \in 0 .. (v.len - 1)})

TiledInit ==
    /\ tiled = "idle"
    /\ k = 0 /\ tile = 0 /\ run = 0 /\ tileIndex = 0 /\ row = 0
    /\ lists = SignedOffsetLists(in)
    /\ cursor = AtRowStarts(lists)
    /\ held = Zeros /\ total = Zeros
    /\ image = [s \in SliceIds |-> Zeros]

\* The windows are sized so that `run` of them hold no more entries than
\* sixteen bits can take of the largest digit.
Prepare ==
    /\ at = "declined" /\ tiled = "idle"
    /\ MaxAbs(in) <= I16Max
    /\ in.len * MaxAbs(in) <= I32Max
    /\ LET limit == I16Max \div Max({MaxAbs(in), 1})
       IN  /\ tile' = Min({limit, TileMax})
           /\ run' = limit \div Min({limit, TileMax})
    /\ tiled' = "rows"
    /\ UNCHANGED <<k, tileIndex, row, lists, cursor, held, total, image>>

\* The assertion on the 32 bit sums.
RowSumsOverflow ==
    /\ at = "declined" /\ tiled = "idle"
    /\ MaxAbs(in) <= I16Max
    /\ in.len * MaxAbs(in) > I32Max
    /\ tiled' = "panicked"
    /\ UNCHANGED <<k, tile, run, tileIndex, row, lists, cursor, held, total, image>>

\* The digits that a stretch of a list selects, added one after the other.
ListSum(offsets, digits, first, end) ==
    LET added[i \in first .. Len(offsets)] ==
          IF i = first THEN 0 ELSE added[i - 1] + digits[offsets[i]]
    IN  added[end]

\* project_rows_scalar: a digit has no sixteen bit negation.
ScalarRows ==
    /\ at = "declined" /\ tiled = "idle"
    /\ MaxAbs(in) > I16Max
    /\ image' = [image EXCEPT ![k] = [r \in RowIds |->
                    LET Whole(l) == ListSum(l.offsets, in.digit[k], l.bounds[r], l.bounds[r + 1])
                    IN  Whole(lists["plus"]) - Whole(lists["minus"])]]
    /\ IF k + 1 < Slices THEN k' = k + 1 /\ UNCHANGED tiled
                         ELSE tiled' = "written" /\ UNCHANGED k
    /\ UNCHANGED <<tile, run, tileIndex, row, lists, cursor, held, total>>

TileEnd == Min({(tileIndex + 1) * tile, in.len})

Opens == tileIndex % run = 0
Closes == tileIndex % run = run - 1 \/ (tileIndex + 1) * tile >= in.len

\* Where a row's cursor stops: at the end of its list or of the window.
Stop(sign) ==
    LET end == lists[sign].bounds[row + 1]
    IN  Min({end} \union {i \in cursor[sign][row] .. (end - 1) :
                            lists[sign].offsets[i + 1] >= TileEnd})

\* One row consumes its entries that fall inside the window.
ConsumeWindow ==
    /\ tiled = "rows" /\ tileIndex * tile < in.len
    /\ LET Taken(sign) ==
             ListSum(lists[sign].offsets, in.digit[k], cursor[sign][row], Stop(sign))
           a0 == Wrap16((IF Opens THEN 0 ELSE held[row]) + Taken("plus"))
           a1 == Wrap16(Taken("minus"))
           part == Wrap16(a0 - a1)
       IN  IF Closes
           THEN /\ total' = [total EXCEPT ![row] = Wrap32(@ + part)]
                /\ UNCHANGED held
           ELSE /\ held' = [held EXCEPT ![row] = part]
                /\ UNCHANGED total
    /\ cursor' = [sign \in Signs |-> [cursor[sign] EXCEPT ![row] = Stop(sign)]]
    /\ IF row + 1 < Rows
       THEN row' = row + 1 /\ UNCHANGED tileIndex
       ELSE row' = 0 /\ tileIndex' = tileIndex + 1
    /\ UNCHANGED <<tiled, k, tile, run, lists, image>>

\* All windows done: the sums are written, and the next slice rewinds the
\* cursors and clears the sums.
WriteSlice ==
    /\ tiled = "rows" /\ tileIndex * tile >= in.len
    /\ image' = [image EXCEPT ![k] = total]
    /\ IF k + 1 < Slices
       THEN /\ k' = k + 1 /\ tileIndex' = 0
            /\ total' = Zeros /\ cursor' = AtRowStarts(lists)
            /\ UNCHANGED tiled
       ELSE /\ tiled' = "written"
            /\ UNCHANGED <<k, tileIndex, total, cursor>>
    /\ UNCHANGED <<tile, run, row, lists, held>>

TiledNext == Prepare \/ RowSumsOverflow \/ ScalarRows \/ ConsumeWindow \/ WriteSlice

(***************************************************************************)
(* project_rows_grouped                                                    *)
(***************************************************************************)

Init == GroupedInit /\ TiledInit

Done == at = "emitted" \/ tiled \in {"written", "panicked"}

Finished == Done /\ UNCHANGED vars

Next ==
    \/ GroupedNext /\ UNCHANGED tvars
    \/ TiledNext /\ UNCHANGED gvars
    \/ Finished

Spec == Init /\ [][Next]_vars

(***************************************************************************)
(* Properties                                                              *)
(***************************************************************************)

\* The sums of a row over the elements before each one, in the integers.
RowSums(m, s, r) ==
    LET Entry(e) == IF e \notin m.nonZero[r] THEN 0 ELSE IF e \in m.pos[r] THEN 1 ELSE -1
        sum[e \in 0 .. m.len] ==
          IF e = 0 THEN 0 ELSE sum[e - 1] + (Entry(e - 1) * m.digit[s][e - 1])
    IN  sum

(***************************************************************************)
(* Whichever kernels ran, what is returned is the matrix applied to the     *)
(* digits, exactly: also after the grouped kernel declined halfway, and     *)
(* with a digit whose magnitude does not fit.                              *)
(***************************************************************************)
ProjectionIsExact ==
    Done /\ tiled # "panicked" =>
       LET result == IF at = "emitted" THEN out ELSE image
       IN  \A s \in SliceIds, r \in RowIds : result[s][r] = RowSums(in, s, r)[in.len]
=============================================================================

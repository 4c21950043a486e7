------------------------- MODULE TableViews_proofs -------------------------
(***************************************************************************)
(* Tables that borrow: for every modulus, threshold, witness, number of    *)
(* uses and choice of challenges, a table is marked as viewed exactly      *)
(* while it has a view, and every table owns its entry in the end          *)
(* (TablesNeverPanic); and whatever is borrowed, shared or split on the    *)
(* way, every entry that is read is the witness's multilinear extension,   *)
(* or its conjugate's, at the challenges so far (TablesHoldFolds), so the  *)
(* statements handed to the chain of rounds hold (ChainInputsHold).  These *)
(* need what a sum or a product over an interval is, element by element,   *)
(* arithmetic modulo the prime, and the bits of a corner of the cube: they *)
(* come before the tables do.                                              *)
(***************************************************************************)
EXTENDS TableViews, SequenceTheorems, FiniteSetTheorems, WellFoundedInduction, TLAPS

\* The type of a table.
Tables ==
    [memory : SUBSET Nat, data : Seq(Ring), mapped : BOOLEAN, end : Int, vars : Int,
     viewed : BOOLEAN]

MostUses == Max({MaxUses, 1})

\* How many variables are left, and what every table has left of the witness.
Sizes(k) ==
    /\ Len(witness) = 2^k
    /\ Len(points) <= k
    /\ \A kind \in Kinds : \A i \in DOMAIN tables[kind] :
         Len(tables[kind][i].data) = 2^(k - Len(points))

\* Folding halves the tables as often as a variable is challenged.
SizesInStep ==
    /\ \E k \in 0..Len(witness) : Sizes(k)
    /\ 2^Len(points) \in Nat \ {0}
    /\ \A kind \in Kinds : \A i \in DOMAIN tables[kind] :
         Len(tables[kind][i].data) * 2^Len(points) = Len(witness)

TablesTyped ==
    /\ witness \in Witnesses
    /\ points \in Seq(Challenges)
    /\ tables \in [Kinds -> Seq(Tables)]
    /\ Len(tables["witness"]) \in 1..MostUses
    /\ Len(tables["conjugate"]) \in 0..MostUses

\* A table borrows only what is long enough.
BorrowedAreLong ==
    \A kind \in Kinds : \A i \in DOMAIN tables[kind] :
      tables[kind][i].memory # Own => Len(tables[kind][i].data) >= BorrowMin

\* A table no other looks into, and which looks into none but the caller's.
Solitary(t) == ~t.viewed /\ t.memory \in {Own, Caller}

\* The first tables of both kinds, one a view of the other.
FirstsShare ==
    LET own == tables["witness"][1]
        view == tables["conjugate"][1]
    IN /\ tables["conjugate"] # <<>>
       /\ own.viewed /\ ~view.viewed
       /\ \E round \in 1..Len(points) : own.memory = {round} /\ view.memory = {round}
       /\ ~own.mapped /\ view.mapped
       /\ own.end = view.end

SharingInv ==
    \/ \A kind \in Kinds : \A i \in DOMAIN tables[kind] : Solitary(tables[kind][i])
    \/ /\ FirstsShare
       /\ \A kind \in Kinds : \A i \in DOMAIN tables[kind] \ {1} : Solitary(tables[kind][i])

ViewInv ==
    TablesTyped /\ SizesInStep /\ BorrowedAreLong /\ SharingInv /\ panicked = FALSE

-----------------------------------------------------------------------------
(***************************************************************************)
(* The operators tables are made with.                                     *)
(***************************************************************************)
LEMMA LargerOfTwo ==
    ASSUME NEW a \in Int, NEW b \in Int
    PROVE  Max({a, b}) = IF a >= b THEN a ELSE b
BY DEF Max

LEMMA SmallerOfTwo ==
    ASSUME NEW a \in Int, NEW b \in Int
    PROVE  Min({a, b}) = IF a <= b THEN a ELSE b
BY DEF Min

\* A bounded set of naturals that has zero has a largest element.
LEMMA LargestNatural ==
    ASSUME NEW n \in Nat, NEW T, T \subseteq 0..n, 0 \in T
    PROVE  Max(T) \in T
<1> DEFINE gaps == {n - x : x \in T}
<1>1. IsWellFoundedOn(OpToRel(<, Nat), Nat)
  BY NatLessThanWellFounded
<1>2. gaps \subseteq Nat /\ gaps # {}
  OBVIOUS
<1>3. PICK g \in gaps : \A h \in gaps : ~(<<h, g>> \in OpToRel(<, Nat))
  <2> HIDE DEF gaps
  <2> QED BY <1>1, <1>2, WFMin
<1>4. \A h \in gaps : ~(h < g)
  BY <1>2, <1>3 DEF OpToRel
<1>5. PICK x \in T : g = n - x
  OBVIOUS
<1>6. \A y \in T : x >= y
  <2> SUFFICES ASSUME NEW y \in T PROVE x >= y
    OBVIOUS
  <2>1. n - y \in gaps /\ x \in 0..n /\ y \in 0..n
    OBVIOUS
  <2> HIDE DEF gaps
  <2> QED BY <1>4, <1>5, <2>1
<1> QED BY <1>6 DEF Max

LEMMA RingParts == Ring = Field \X Field /\ Field \subseteq Int /\ Modulus \in Nat /\ Modulus > 1
BY FieldAssumption DEF Ring, Field

LEMMA ZeroInRing == Zero \in Ring
BY FieldAssumption DEF Zero, Ring, Field

LEMMA ConjugateInRing ==
    ASSUME NEW x \in Ring
    PROVE  Conjugate(x) \in Ring
BY DEF Conjugate, Ring

LEMMA AtInRing ==
    ASSUME NEW low \in Ring, NEW high \in Ring, NEW r \in Ring
    PROVE  At(low, high, r) \in Ring
<1>1. \A s \in 1..2 : low[s] \in Int /\ high[s] \in Int /\ r[s] \in Int
  <2>1. \A x \in Ring : x[1] \in Int /\ x[2] \in Int
    BY RingParts
  <2>2. \A s \in 1..2 : s = 1 \/ s = 2
    OBVIOUS
  <2> QED BY <2>1, <2>2
<1>2. \A s \in 1..2 : (low[s] + r[s] * (high[s] - low[s])) % Modulus \in Field
  <2> SUFFICES ASSUME NEW s \in 1..2
               PROVE (low[s] + r[s] * (high[s] - low[s])) % Modulus \in Field
    OBVIOUS
  <2>1. PICK v \in Int : v = low[s] + r[s] * (high[s] - low[s])
    BY <1>1
  <2> QED BY <2>1, RingParts DEF Field
<1> DEFINE at(s) == (low[s] + r[s] * (high[s] - low[s])) % Modulus
<1>3. At(low, high, r) = [s \in 1..2 |-> at(s)]
  BY DEF At
<1>4. at(1) \in Field /\ at(2) \in Field
  BY <1>2
<1>5. At(low, high, r) = <<at(1), at(2)>>
  <2> HIDE DEF at
  <2> QED BY <1>3
<1> QED BY <1>4, <1>5 DEF Ring

LEMMA EntriesInRing ==
    ASSUME NEW t \in Tables
    PROVE  Entries(t) \in Seq(Ring) /\ Len(Entries(t)) = Len(t.data)
<1>1. t.data \in Seq(Ring)
  BY DEF Tables
<1>2. \A i \in 1..Len(t.data) : Load(t, i) \in Ring
  BY <1>1, ConjugateInRing DEF Load
<1>3. Entries(t) = [i \in 1..Len(t.data) |-> Load(t, i)]
  BY <1>1 DEF Entries
<1> QED BY <1>1, <1>2, <1>3

LEMMA FoldInRing ==
    ASSUME NEW entries \in Seq(Ring), NEW end, NEW r \in Ring
    PROVE  /\ FoldOf(entries, end, r) \in Seq(Ring)
           /\ Len(FoldOf(entries, end, r)) = Len(entries) \div 2
<1> DEFINE at(i) == IF i <= end THEN At(entries[2 * i - 1], entries[2 * i], r) ELSE Zero
           n == Len(entries) \div 2
<1>1. n \in Nat /\ \A i \in 1..n : 2 * i - 1 \in 1..Len(entries) /\ 2 * i \in 1..Len(entries)
  OBVIOUS
<1>2. \A i \in 1..n : at(i) \in Ring
  BY <1>1, AtInRing, ZeroInRing
<1>3. FoldOf(entries, end, r) = [i \in 1..n |-> at(i)]
  BY DEF FoldOf
<1> QED
  <2> HIDE DEF n, at
  <2>1. [i \in 1..n |-> at(i)] \in Seq(Ring) /\ Len([i \in 1..n |-> at(i)]) = n
    BY <1>1, <1>2
  <2> QED BY <1>3, <2>1 DEF n

LEMMA FoldEndInt ==
    ASSUME NEW t \in Tables
    PROVE  FoldEnd(t) \in Int
<1>1. (t.end + 1) \div 2 \in Int /\ Half(t) \in Int
  BY DEF Tables, Half
<1> QED BY <1>1, SmallerOfTwo DEF FoldEnd

InstalledIs(t, entries, end) ==
    /\ Installed(t, entries, end) \in Tables
    /\ Installed(t, entries, end).memory = Own
    /\ Installed(t, entries, end).data = entries
    /\ Installed(t, entries, end).mapped = FALSE
    /\ Installed(t, entries, end).end = end
    /\ Installed(t, entries, end).viewed = t.viewed

LEMMA InstalledTable ==
    \A t \in Tables, entries \in Seq(Ring), end \in Int : InstalledIs(t, entries, end)
<1> TAKE t \in Tables, entries \in Seq(Ring), end \in Int
<1> DEFINE v == t.vars - 1
           new == [t EXCEPT !.memory = {}, !.data = entries, !.mapped = FALSE, !.end = end,
                            !.vars = v]
<1>1. Installed(t, entries, end) = new
  BY DEF Installed, Own
<1>2. v \in Int /\ {} \in SUBSET Nat
  BY DEF Tables
<1> HIDE DEF v
<1>3. new \in Tables
  BY <1>2 DEF Tables
<1>4. new.memory = {} /\ new.data = entries /\ new.mapped = FALSE /\ new.end = end
      /\ new.viewed = t.viewed
  BY DEF Tables
<1> QED BY <1>1, <1>3, <1>4 DEF Own, InstalledIs

\* A table with more than one entry is halved, and owns its fold.
LEMMA FoldedAloneTable ==
    ASSUME NEW t \in Tables, NEW r \in Ring, Len(t.data) > 1,
           NEW new, new = FoldedAlone(t, r)
    PROVE  /\ new \in Tables
           /\ Len(new.data) = Half(t)
           /\ new.memory = Own
           /\ new.mapped = FALSE
           /\ new.viewed = t.viewed
<1>1. Entries(t) \in Seq(Ring) /\ Len(Entries(t)) = Len(t.data)
  BY EntriesInRing
<1> DEFINE stop == FoldEnd(t)
           half == FoldOf(Entries(t), stop, r)
<1>2. stop \in Int
  BY FoldEndInt
<1>3. half \in Seq(Ring) /\ Len(half) = Half(t)
  BY <1>1, FoldInRing DEF Half
<1>4. half \in Seq(Ring)
  BY <1>3
<1>5. new = Installed(t, half, stop)
  <2>1. t.data \in Seq(Ring)
    BY DEF Tables
  <2>2. Len(t.data) \in Nat /\ Len(t.data) > 1
    BY <2>1
  <2>3. \A n \in Nat : n > 1 => n # 1
    OBVIOUS
  <2> QED BY <2>2, <2>3, Zenon DEF FoldedAlone
<1> HIDE DEF stop, half
<1>6. /\ Installed(t, half, stop) \in Tables
      /\ Installed(t, half, stop).memory = Own
      /\ Installed(t, half, stop).data = half
      /\ Installed(t, half, stop).mapped = FALSE
      /\ Installed(t, half, stop).viewed = t.viewed
  <2>1. t \in Tables /\ half \in Seq(Ring)
    BY <1>2, <1>4
  <2>2. InstalledIs(t, half, stop)
    BY <1>2, <2>1, InstalledTable
  <2> QED BY <2>2 DEF InstalledIs
<1> QED BY <1>3, <1>5, <1>6

LEMMA SharedFoldTables ==
    ASSUME NEW own \in Tables, NEW view \in Tables, NEW r \in Ring, NEW round \in Nat,
           Len(own.data) > 1, view.mapped, ~view.viewed,
           NEW new, new = SharedFold(own, view, r, round)
    PROVE  /\ new.own \in Tables /\ new.view \in Tables
           /\ Len(new.own.data) = Half(own) /\ Len(new.view.data) = Half(own)
           /\ new.own.memory = {round} /\ new.view.memory = {round}
           /\ new.own.viewed /\ ~new.view.viewed
           /\ ~new.own.mapped /\ new.view.mapped
           /\ new.own.end = new.view.end
<1> DEFINE plain == [own EXCEPT !.viewed = FALSE]
           folded == FoldedAlone(plain, r)
           first == [folded EXCEPT !.memory = {round}, !.viewed = TRUE]
           left == view.vars - 1
           second == [view EXCEPT !.memory = {round}, !.data = folded.data,
                                  !.end = folded.end, !.vars = left]
<1>1. plain \in Tables /\ plain.data = own.data
  BY DEF Tables
<1>2. folded \in Tables /\ Len(folded.data) = Half(own) /\ folded.mapped = FALSE
  <2>1. Len(plain.data) > 1 /\ Half(plain) = Half(own)
    BY <1>1 DEF Half
  <2> HIDE DEF plain
  <2> QED BY <1>1, <2>1, FoldedAloneTable, ZenonT(60)
<1>3. new = [own |-> first, view |-> second]
  BY DEF SharedFold
<1>4. left \in Int /\ {round} \in SUBSET Nat /\ folded.data \in Seq(Ring) /\ folded.end \in Int
  <2>1. view.vars \in Int /\ folded.data \in Seq(Ring) /\ folded.end \in Int
    <3> HIDE DEF folded
    <3> QED BY <1>2 DEF Tables
  <2> QED BY <2>1
<1> HIDE DEF folded, left
<1>5. /\ first \in Tables
      /\ first.memory = {round} /\ first.viewed = TRUE /\ first.data = folded.data
      /\ first.mapped = folded.mapped /\ first.end = folded.end
  <2>1. first \in Tables
    BY <1>2, <1>4 DEF Tables
  <2>2. first.memory = {round} /\ first.viewed = TRUE /\ first.data = folded.data
        /\ first.mapped = folded.mapped /\ first.end = folded.end
    BY <1>2 DEF Tables
  <2> QED BY <2>1, <2>2
<1>6. /\ second \in Tables
      /\ second.memory = {round} /\ second.data = folded.data /\ second.end = folded.end
      /\ second.mapped = view.mapped /\ second.viewed = view.viewed
  <2>1. second \in Tables
    BY <1>4 DEF Tables
  <2>2. /\ second.memory = {round} /\ second.data = folded.data /\ second.end = folded.end
        /\ second.mapped = view.mapped /\ second.viewed = view.viewed
    BY DEF Tables
  <2> QED BY <2>1, <2>2
<1>7. new.own = first /\ new.view = second
  BY <1>3
<1> HIDE DEF first, second
<1>8. new.own \in Tables /\ new.view \in Tables
  BY <1>5, <1>6, <1>7
<1>9. Len(new.own.data) = Half(own) /\ Len(new.view.data) = Half(own)
  BY <1>2, <1>5, <1>6, <1>7
<1>10. new.own.memory = {round} /\ new.view.memory = {round} /\ new.own.end = new.view.end
  BY <1>5, <1>6, <1>7
<1>11. new.own.viewed /\ ~new.view.viewed /\ ~new.own.mapped /\ new.view.mapped
  BY <1>2, <1>5, <1>6, <1>7
<1> QED BY <1>8, <1>9, <1>10, <1>11

LEMMA SplitFoldTables ==
    ASSUME NEW own \in Tables, NEW view \in Tables, NEW r \in Ring,
           Len(view.data) = Len(own.data), ~view.viewed,
           NEW new, new = SplitFold(own, view, r)
    PROVE  /\ new.own \in Tables /\ new.view \in Tables
           /\ Len(new.own.data) = Half(own) /\ Len(new.view.data) = Half(own)
           /\ new.own.memory = Own /\ new.view.memory = Own
           /\ ~new.own.viewed /\ ~new.view.viewed
           /\ ~new.own.mapped /\ ~new.view.mapped
<1> DEFINE plain == [own EXCEPT !.viewed = FALSE]
           stop == FoldEnd(own)
           one == FoldOf(Entries(own), stop, r)
           two == FoldOf(Entries(view), stop, r)
<1>1. plain \in Tables
  BY DEF Tables
<1>2. plain.viewed = FALSE
  BY DEF Tables
<1>3. stop \in Int
  BY FoldEndInt
<1>4. one \in Seq(Ring) /\ Len(one) = Half(own) /\ two \in Seq(Ring) /\ Len(two) = Half(own)
  BY EntriesInRing, FoldInRing, ZenonT(60) DEF Half
<1>5. one \in Seq(Ring) /\ two \in Seq(Ring)
  BY <1>4
<1>6. new =
        [own |-> Installed(plain, one, stop), view |-> Installed(view, two, stop)]
  BY DEF SplitFold
<1> HIDE DEF plain, stop, one, two
<1>7. /\ Installed(plain, one, stop) \in Tables
      /\ Installed(plain, one, stop).memory = Own
      /\ Installed(plain, one, stop).data = one
      /\ Installed(plain, one, stop).mapped = FALSE
      /\ Installed(plain, one, stop).viewed = plain.viewed
  <2>1. one \in Seq(Ring)
    BY <1>5
  <2>2. InstalledIs(plain, one, stop)
    BY <1>1, <1>3, <2>1, InstalledTable
  <2> QED BY <2>2 DEF InstalledIs
<1>8. /\ Installed(view, two, stop) \in Tables
      /\ Installed(view, two, stop).memory = Own
      /\ Installed(view, two, stop).data = two
      /\ Installed(view, two, stop).mapped = FALSE
      /\ Installed(view, two, stop).viewed = view.viewed
  <2>1. view \in Tables /\ two \in Seq(Ring)
    BY <1>5
  <2>2. InstalledIs(view, two, stop)
    BY <1>3, <2>1, InstalledTable
  <2> QED BY <2>2 DEF InstalledIs
<1> QED BY <1>2, <1>4, <1>6, <1>7, <1>8

-----------------------------------------------------------------------------
(***************************************************************************)
(* The tables a statement starts with.                                     *)
(***************************************************************************)
LEMMA WitnessLength ==
    ASSUME NEW w \in Witnesses
    PROVE  /\ w \in Seq(Ring) /\ Len(w) \in Nat \ {0}
           /\ \E k \in 0..Len(w) : Len(w) = 2^k
<1>1. w \in Seq(Ring) /\ \E k \in 0..Len(w) : Len(w) = 2^k
  BY WitnessAssumption
<1>2. PICK k \in 0..Len(w) : Len(w) = 2^k
  BY <1>1
<1>3. Len(w) \in Nat
  BY <1>1
<1>4. Len(w) # 0
  <2>1. 2^0 = 1
    OBVIOUS
  <2>2. k = 0 => Len(w) = 1
    BY <1>2, <2>1
  <2> QED BY <1>2, <1>3, <2>2
<1> QED BY <1>1, <1>3, <1>4

\* witness_oracle and conjugated_oracle, of a witness of any length.
LEMMA OracleTable ==
    ASSUME witness \in Witnesses, NEW kind \in Kinds
    PROVE  /\ Oracle(kind) \in Tables
           /\ Len(Oracle(kind).data) = Len(witness)
           /\ Solitary(Oracle(kind))
           /\ Oracle(kind).memory # Own => Len(witness) >= BorrowMin
<1> DEFINE n == FloorLog(Len(witness))
           conjugated == [i \in DOMAIN witness |-> Conjugate(witness[i])]
           copy == IF kind = "conjugate" THEN conjugated ELSE witness
           end == Used(witness)
<1>1. witness \in Seq(Ring) /\ Len(witness) \in Nat \ {0}
  BY WitnessLength
<1>2. n \in Int
  <2>1. PICK k \in 0..Len(witness) : Len(witness) = 2^k
    BY WitnessLength
  <2>2. 2^k \in Nat /\ 2^(k + 1) = 2 * 2^k
    BY <2>1, PowersAssumption
  <2>3. 2^k <= Len(witness) /\ Len(witness) < 2^(k + 1)
    BY <1>1, <2>1, <2>2
  <2>4. n \in 0..Len(witness)
    BY <2>1, <2>3 DEF FloorLog
  <2> QED BY <1>1, <2>4
<1>3. copy \in Seq(Ring) /\ Len(copy) = Len(witness)
  <2>1. \A i \in 1..Len(witness) : Conjugate(witness[i]) \in Ring
    BY <1>1, ConjugateInRing
  <2>2. conjugated = [i \in 1..Len(witness) |-> Conjugate(witness[i])]
    BY <1>1
  <2>3. conjugated \in Seq(Ring) /\ Len(conjugated) = Len(witness)
    BY <1>1, <2>1, <2>2
  <2> HIDE DEF conjugated
  <2> QED BY <1>1, <2>3
<1>4. end \in Int
  <2> DEFINE T == {0} \cup {i \in DOMAIN witness : witness[i] # Zero}
  <2>1. T \subseteq 0..Len(witness) /\ 0 \in T
    BY <1>1
  <2>2. Max(T) \in T
    <3> HIDE DEF T
    <3> QED BY <1>1, <2>1, LargestNatural
  <2>3. end = Max(T)
    BY DEF Used
  <2>4. \A i \in T : i \in Int
    BY <1>1, <2>1
  <2> HIDE DEF T, end
  <2> QED BY <2>2, <2>3, <2>4
<1>5. CASE Len(witness) < BorrowMin
  <2>1. Oracle(kind) = Table(Own, copy, FALSE, end, n)
    BY <1>5 DEF Oracle
  <2> HIDE DEF copy, end, n
  <2> QED BY <1>2, <1>3, <1>4, <2>1 DEF Table, Tables, Solitary, Own, Caller
<1>6. CASE ~(Len(witness) < BorrowMin)
  <2>1. Oracle(kind) = Table(Caller, witness, kind = "conjugate", end, n)
    BY <1>6 DEF Oracle
  <2>2. BorrowMin \in Nat
    BY BorrowAssumption
  <2> HIDE DEF copy, end, n
  <2>3. Oracle(kind) \in Tables
    BY <1>1, <1>2, <1>4, <2>1 DEF Table, Tables, Caller
  <2>4. Len(Oracle(kind).data) = Len(witness) /\ Solitary(Oracle(kind))
    BY <2>1 DEF Table, Solitary, Own, Caller
  <2> QED BY <1>1, <1>6, <2>2, <2>3, <2>4
<1> QED BY <1>5, <1>6

LEMMA ViewInit == Init => ViewInv
<1> SUFFICES ASSUME Init PROVE ViewInv
  OBVIOUS
<1>1. witness \in Witnesses /\ points = <<>> /\ panicked = FALSE
  BY DEF Init
<1>2. PICK uses \in 0..MaxUses, conjugates \in 0..MaxUses :
        tables = [kind \in Kinds |->
                    [i \in 1..(IF kind = "witness" THEN Max({uses, 1}) ELSE conjugates) |->
                       Oracle(kind)]]
  BY DEF Init
<1> DEFINE count(kind) == IF kind = "witness" THEN Max({uses, 1}) ELSE conjugates
<1>3. /\ MostUses \in Nat /\ MaxUses \in Nat
      /\ Max({uses, 1}) \in 1..MostUses /\ conjugates \in 0..MostUses
  BY UsesAssumption, LargerOfTwo DEF MostUses
<1>4. \A kind \in Kinds : count(kind) \in 0..MostUses
  BY <1>3
<1>5. \A kind \in Kinds :
        tables[kind] \in Seq(Tables) /\ Len(tables[kind]) = count(kind)
  <2> SUFFICES ASSUME NEW kind \in Kinds
               PROVE  tables[kind] \in Seq(Tables) /\ Len(tables[kind]) = count(kind)
    OBVIOUS
  <2>1. Oracle(kind) \in Tables /\ count(kind) \in Nat
    BY <1>1, <1>3, <1>4, OracleTable
  <2>2. tables[kind] = [i \in 1..count(kind) |-> Oracle(kind)]
    BY <1>2
  <2> HIDE DEF count
  <2> QED BY <2>1, <2>2
<1>6. \A kind \in Kinds : \A i \in DOMAIN tables[kind] : tables[kind][i] = Oracle(kind)
  BY <1>2
<1>7. TablesTyped
  <2>1. tables \in [Kinds -> Seq(Tables)]
    BY <1>2, <1>5
  <2>2. Len(tables["witness"]) = Max({uses, 1}) /\ Len(tables["conjugate"]) = conjugates
    BY <1>5 DEF Kinds
  <2> QED BY <1>1, <1>3, <2>1, <2>2 DEF TablesTyped
<1>8. SizesInStep
  <2>1. Len(witness) \in Nat \ {0}
    BY <1>1, WitnessLength
  <2>2. PICK k \in 0..Len(witness) : Len(witness) = 2^k
    BY <1>1, WitnessLength
  <2>3. Len(points) = 0 /\ 2^Len(points) = 1
    BY <1>1
  <2>4. \A kind \in Kinds : \A i \in DOMAIN tables[kind] :
          Len(tables[kind][i].data) = Len(witness)
    BY <1>1, <1>6, OracleTable
  <2>5. Sizes(k)
    <3>1. k - Len(points) = k /\ Len(points) <= k
      BY <2>1, <2>3
    <3> QED BY <2>2, <2>4, <3>1 DEF Sizes
  <2> QED BY <2>1, <2>3, <2>4, <2>5 DEF SizesInStep
<1>9. BorrowedAreLong
  BY <1>1, <1>6, OracleTable DEF BorrowedAreLong
<1>10. SharingInv
  BY <1>1, <1>6, OracleTable DEF SharingInv
<1> QED BY <1>1, <1>7, <1>8, <1>9, <1>10 DEF ViewInv

-----------------------------------------------------------------------------
(***************************************************************************)
(* A challenge.                                                            *)
(***************************************************************************)
\* A variable is left, so every table has a half and more than one entry.
LEMMA VariableLeft ==
    ASSUME ViewInv, Len(witness) # 2^Len(points)
    PROVE  \E k \in 0..Len(witness), half \in Nat \ {0} :
             /\ Sizes(k)
             /\ Len(points) + 1 <= k
             /\ half = 2^(k - (Len(points) + 1))
             /\ 2^(Len(points) + 1) = 2 * 2^Len(points)
             /\ \A kind \in Kinds : \A i \in DOMAIN tables[kind] :
                  /\ tables[kind][i] \in Tables
                  /\ Len(tables[kind][i].data) = 2 * half
                  /\ Half(tables[kind][i]) = half
<1>1. witness \in Witnesses /\ Len(witness) \in Nat \ {0} /\ Len(points) \in Nat
  BY WitnessLength DEF ViewInv, TablesTyped
<1>2. PICK k \in 0..Len(witness) : Sizes(k)
  BY DEF ViewInv, SizesInStep
<1>3. k # Len(points)
  BY <1>2 DEF Sizes
<1>4. Len(points) + 1 <= k
  BY <1>1, <1>2, <1>3 DEF Sizes
<1> DEFINE m == k - (Len(points) + 1)
           half == 2^m
<1>5. m \in 0..Len(witness) /\ m + 1 = k - Len(points) /\ Len(points) \in 0..Len(witness)
  BY <1>1, <1>4
<1>6. half \in Nat /\ 2^(m + 1) = 2 * half
  BY <1>1, <1>5, PowersAssumption
<1>7. 2^(Len(points) + 1) = 2 * 2^Len(points)
  BY <1>1, <1>5, PowersAssumption
<1>8. \A kind \in Kinds : \A i \in DOMAIN tables[kind] :
        /\ tables[kind][i] \in Tables
        /\ Len(tables[kind][i].data) = 2 * half
  <2> SUFFICES ASSUME NEW kind \in Kinds, NEW i \in DOMAIN tables[kind]
               PROVE  /\ tables[kind][i] \in Tables
                      /\ Len(tables[kind][i].data) = 2 * half
    OBVIOUS
  <2>1. tables[kind][i] \in Tables
    BY ElementOfSeq DEF ViewInv, TablesTyped
  <2>2. Len(tables[kind][i].data) = 2^(m + 1)
    BY <1>2, <1>5 DEF Sizes
  <2> QED BY <1>6, <2>1, <2>2
<1>9. half # 0
  <2> DEFINE p == 2^Len(points)
             n == Len(tables["witness"][1].data)
  <2>1. "witness" \in Kinds /\ 1 \in DOMAIN tables["witness"]
    BY DEF ViewInv, TablesTyped, Kinds
  <2>2. p \in Nat /\ n * p = Len(witness)
    BY <2>1 DEF ViewInv, SizesInStep
  <2>3. n = 2 * half
    BY <1>8, <2>1
  <2> HIDE DEF p, n, half
  <2>4. half = 0 => n = 0
    BY <2>3
  <2>5. n = 0 => n * p = 0
    BY <2>2
  <2> QED BY <1>1, <2>2, <2>4, <2>5
<1>10. \A kind \in Kinds : \A i \in DOMAIN tables[kind] : Half(tables[kind][i]) = half
  <2> HIDE DEF half
  <2>1. (2 * half) \div 2 = half
    BY <1>6
  <2> QED BY <1>8, <2>1 DEF Half
<1> QED BY <1>2, <1>4, <1>6, <1>7, <1>8, <1>9, <1>10

\* Only the first table of either kind is ever shared, and a shared pair is
\* folded together: nobody folds a viewed table alone.
LEMMA SharedAreJoint ==
    ASSUME ViewInv, Len(witness) # 2^Len(points)
    PROVE  /\ \A kind \in Kinds : \A i \in DOMAIN tables[kind] :
                ~(Joint /\ i = 1) => Solitary(tables[kind][i])
           /\ Joint => 1 \in DOMAIN tables["conjugate"] /\ ~tables["conjugate"][1].viewed
<1> DEFINE own == tables["witness"][1]
           view == tables["conjugate"][1]
<1>1. /\ tables["witness"] \in Seq(Tables) /\ tables["conjugate"] \in Seq(Tables)
      /\ 1 \in DOMAIN tables["witness"] /\ "witness" \in Kinds /\ "conjugate" \in Kinds
  BY DEF ViewInv, TablesTyped, Kinds
<1>2. tables["conjugate"] # <<>> => 1 \in DOMAIN tables["conjugate"]
  BY <1>1
<1>3. FirstsShare => Joint
  <2> SUFFICES ASSUME FirstsShare PROVE Joint
    OBVIOUS
  <2>1. PICK half \in Nat \ {0} : \A kind \in Kinds : \A i \in DOMAIN tables[kind] :
          Len(tables[kind][i].data) = 2 * half
    BY VariableLeft
  <2>2. Len(own.data) >= 2
    BY <1>1, <2>1
  <2>3. own.memory # Own /\ view.memory = own.memory
    BY DEF FirstsShare, Own
  <2>4. /\ view.mapped /\ ~own.mapped /\ own.end = view.end
        /\ tables["conjugate"] # <<>>
    BY DEF FirstsShare
  <2> HIDE DEF own, view
  <2>5. CanFoldTogether(own, view)
    BY <2>2, <2>3, <2>4 DEF CanFoldTogether
  <2> QED BY <2>4, <2>5 DEF Joint, own, view
<1>4. ASSUME NEW kind \in Kinds, NEW i \in DOMAIN tables[kind], ~(Joint /\ i = 1)
      PROVE  Solitary(tables[kind][i])
  BY <1>3, <1>4 DEF ViewInv, SharingInv
<1>5. ASSUME Joint
      PROVE  1 \in DOMAIN tables["conjugate"] /\ ~tables["conjugate"][1].viewed
  <2>1. 1 \in DOMAIN tables["conjugate"]
    BY <1>2, <1>5 DEF Joint
  <2>2. CASE FirstsShare
    BY <2>1, <2>2 DEF FirstsShare
  <2>3. CASE ~FirstsShare
    BY <1>1, <2>1, <2>3 DEF ViewInv, SharingInv, Solitary
  <2> QED BY <2>1, <2>2, <2>3
<1> QED BY <1>4, <1>5

\* One table's way through a challenge.
ChallengedAs(kind, i, r) ==
    LET pair == FoldTogether(tables["witness"][1], tables["conjugate"][1], r, Len(points) + 1)
    IN CASE <<kind, i>> \in Alone -> FoldedAlone(tables[kind][i], r)
         [] OTHER -> IF kind = "witness" THEN pair.own ELSE pair.view

LEMMA ChallengeStep ==
    ASSUME TakeChallenge
    PROVE  \E r \in Challenges :
             /\ tables' = [kind \in Kinds |-> [i \in DOMAIN tables[kind] |-> ChallengedAs(kind, i, r)]]
             /\ points' = Append(points, r)
BY DEF TakeChallenge, ChallengedAs

LEMMA WhoIsAlone ==
    ASSUME NEW kind \in Kinds, NEW i \in DOMAIN tables[kind]
    PROVE  <<kind, i>> \in Alone <=> ~(Joint /\ i = 1)
<1>1. <<kind, i>> \in Cells
  BY DEF Cells
<1>2. <<kind, i>>[2] = i
  OBVIOUS
<1> QED BY <1>1, <1>2 DEF Alone

\* A table folded alone.
LEMMA AloneTable ==
    ASSUME ViewInv, Len(witness) # 2^Len(points)
    PROVE  \A r \in Challenges : \A kind \in Kinds : \A i \in DOMAIN tables[kind] :
             ~(Joint /\ i = 1) =>
               /\ ChallengedAs(kind, i, r) \in Tables
               /\ Len(ChallengedAs(kind, i, r).data) = Half(tables[kind][i])
               /\ ChallengedAs(kind, i, r).memory = Own
               /\ ChallengedAs(kind, i, r).mapped = FALSE
               /\ Solitary(ChallengedAs(kind, i, r))
<1> TAKE r \in Challenges
<1> TAKE kind \in Kinds
<1> TAKE i \in DOMAIN tables[kind]
<1> HAVE ~(Joint /\ i = 1)
<1> DEFINE t == tables[kind][i]
           new == ChallengedAs(kind, i, r)
<1>1. new = FoldedAlone(t, r)
  BY WhoIsAlone DEF ChallengedAs
<1>2. t \in Tables /\ r \in Ring
  BY ElementOfSeq, ChallengesAssumption DEF ViewInv, TablesTyped
<1>3. Solitary(t)
  BY SharedAreJoint
<1>4. Len(t.data) > 1
  <2>1. PICK half \in Nat \ {0} : \A a \in Kinds : \A b \in DOMAIN tables[a] :
          Len(tables[a][b].data) = 2 * half
    BY VariableLeft
  <2>2. Len(t.data) = 2 * half /\ 2 * half > 1
    BY <2>1
  <2> QED BY <2>2
<1> HIDE DEF t, new
<1>5. /\ new \in Tables /\ Len(new.data) = Half(t) /\ new.memory = Own
      /\ new.mapped = FALSE /\ new.viewed = t.viewed
  BY <1>1, <1>2, <1>4, FoldedAloneTable
<1>6. Solitary(new)
  BY <1>3, <1>5 DEF Solitary
<1> QED BY <1>5, <1>6 DEF t, new

\* The two first tables, folded together: they share the fold, if it is long
\* enough and the challenge its own conjugate, or nothing.
LEMMA JointTables ==
    ASSUME ViewInv, Len(witness) # 2^Len(points), NEW r \in Challenges, Joint,
           NEW half \in Nat \ {0},
           Len(tables["witness"][1].data) = 2 * half, Len(tables["conjugate"][1].data) = 2 * half,
           NEW one, one = ChallengedAs("witness", 1, r),
           NEW two, two = ChallengedAs("conjugate", 1, r)
    PROVE  /\ one \in Tables /\ two \in Tables
           /\ Len(one.data) = half /\ Len(two.data) = half
           /\ \/ Solitary(one) /\ Solitary(two) /\ one.memory = Own /\ two.memory = Own
              \/ /\ half >= BorrowMin
                 /\ one.memory = {Len(points) + 1} /\ two.memory = {Len(points) + 1}
                 /\ one.viewed /\ ~two.viewed /\ ~one.mapped /\ two.mapped
                 /\ one.end = two.end
           /\ one.memory = Own => ~one.mapped /\ ~two.mapped
<1> DEFINE own == tables["witness"][1]
           view == tables["conjugate"][1]
           pair == FoldTogether(own, view, r, Len(points) + 1)
<1>1. /\ tables["witness"] \in Seq(Tables) /\ tables["conjugate"] \in Seq(Tables)
      /\ 1 \in DOMAIN tables["witness"] /\ "witness" \in Kinds /\ "conjugate" \in Kinds
      /\ Len(points) \in Nat
  BY DEF ViewInv, TablesTyped, Kinds
<1>2. 1 \in DOMAIN tables["conjugate"] /\ ~view.viewed
  BY SharedAreJoint
<1>3. one = pair.own /\ two = pair.view
  BY <1>1, <1>2, WhoIsAlone DEF ChallengedAs
<1>4. own \in Tables /\ view \in Tables
  BY <1>1, <1>2, ElementOfSeq
<1>5. r \in Ring /\ Len(points) + 1 \in Nat
  BY <1>1, ChallengesAssumption
<1>6. view.mapped
  BY DEF Joint, CanFoldTogether
<1>7. Half(own) = half /\ Len(own.data) > 1
  <2>1. (2 * half) \div 2 = half /\ 2 * half > 1
    OBVIOUS
  <2> QED BY <2>1 DEF Half
<1>8. Len(view.data) = Len(own.data)
  OBVIOUS
<1> HIDE DEF own, view
<1>9. CASE StaysShared(own, r)
  <2>1. pair = SharedFold(own, view, r, Len(points) + 1)
    BY <1>9 DEF FoldTogether
  <2>2. half >= BorrowMin
    BY <1>7, <1>9 DEF StaysShared
  <2> HIDE DEF pair
  <2>3. /\ pair.own \in Tables /\ pair.view \in Tables
        /\ Len(pair.own.data) = half /\ Len(pair.view.data) = half
        /\ pair.own.memory = {Len(points) + 1} /\ pair.view.memory = {Len(points) + 1}
        /\ pair.own.viewed /\ ~pair.view.viewed
        /\ ~pair.own.mapped /\ pair.view.mapped
        /\ pair.own.end = pair.view.end
    BY <1>2, <1>4, <1>5, <1>6, <1>7, <2>1, SharedFoldTables DEF view
  <2>4. {Len(points) + 1} # Own
    BY DEF Own
  <2> QED BY <1>3, <2>2, <2>3, <2>4
<1>10. CASE ~StaysShared(own, r)
  <2>1. pair = SplitFold(own, view, r)
    BY <1>10 DEF FoldTogether
  <2> HIDE DEF pair
  <2>2. /\ pair.own \in Tables /\ pair.view \in Tables
        /\ Len(pair.own.data) = half /\ Len(pair.view.data) = half
        /\ pair.own.memory = Own /\ pair.view.memory = Own
        /\ ~pair.own.viewed /\ ~pair.view.viewed
        /\ ~pair.own.mapped /\ ~pair.view.mapped
    BY <1>2, <1>4, <1>5, <1>7, <1>8, <2>1, SplitFoldTables DEF view
  <2> QED BY <1>3, <2>2 DEF Solitary
<1> QED BY <1>9, <1>10

LEMMA ChallengeKeeps ==
    ASSUME ViewInv, TakeChallenge
    PROVE  ViewInv'
<1>1. Len(witness) # 2^Len(points) /\ witness' = witness
  BY DEF TakeChallenge
<1>2. PICK r \in Challenges :
        /\ tables' = [kind \in Kinds |-> [i \in DOMAIN tables[kind] |-> ChallengedAs(kind, i, r)]]
        /\ points' = Append(points, r)
  BY ChallengeStep
<1>3. PICK k \in 0..Len(witness), half \in Nat \ {0} :
        /\ Sizes(k)
        /\ Len(points) + 1 <= k
        /\ half = 2^(k - (Len(points) + 1))
        /\ 2^(Len(points) + 1) = 2 * 2^Len(points)
        /\ \A kind \in Kinds : \A i \in DOMAIN tables[kind] :
             /\ tables[kind][i] \in Tables
             /\ Len(tables[kind][i].data) = 2 * half
             /\ Half(tables[kind][i]) = half
  BY <1>1, VariableLeft
<1>4. /\ tables["witness"] \in Seq(Tables) /\ tables["conjugate"] \in Seq(Tables)
      /\ Len(tables["witness"]) \in 1..MostUses /\ Len(tables["conjugate"]) \in 0..MostUses
      /\ 1 \in DOMAIN tables["witness"] /\ "witness" \in Kinds /\ "conjugate" \in Kinds
      /\ points \in Seq(Challenges) /\ Len(points) \in Nat
  BY DEF ViewInv, TablesTyped, Kinds
<1>5. points' \in Seq(Challenges) /\ Len(points') = Len(points) + 1
  BY <1>2, <1>4
<1>6. \A kind \in Kinds : /\ DOMAIN tables'[kind] = DOMAIN tables[kind]
                         /\ \A i \in DOMAIN tables[kind] : tables'[kind][i] = ChallengedAs(kind, i, r)
  BY <1>2
<1>7. \A kind \in Kinds : \A i \in DOMAIN tables[kind] :
        ~(Joint /\ i = 1) =>
          /\ tables'[kind][i] \in Tables /\ Len(tables'[kind][i].data) = half
          /\ tables'[kind][i].memory = Own /\ Solitary(tables'[kind][i])
  <2> SUFFICES ASSUME NEW kind \in Kinds, NEW i \in DOMAIN tables[kind], ~(Joint /\ i = 1)
               PROVE  /\ tables'[kind][i] \in Tables /\ Len(tables'[kind][i].data) = half
                      /\ tables'[kind][i].memory = Own /\ Solitary(tables'[kind][i])
    OBVIOUS
  <2>1. /\ ChallengedAs(kind, i, r) \in Tables
        /\ Len(ChallengedAs(kind, i, r).data) = Half(tables[kind][i])
        /\ ChallengedAs(kind, i, r).memory = Own
        /\ Solitary(ChallengedAs(kind, i, r))
    BY <1>1, AloneTable
  <2> QED BY <1>3, <1>6, <2>1
<1> DEFINE one == tables'["witness"][1]
           two == tables'["conjugate"][1]
<1>8. Joint => 1 \in DOMAIN tables["conjugate"]
  BY <1>1, SharedAreJoint
<1>9. Joint =>
        /\ one \in Tables /\ two \in Tables
        /\ Len(one.data) = half /\ Len(two.data) = half
        /\ \/ Solitary(one) /\ Solitary(two) /\ one.memory = Own /\ two.memory = Own
           \/ /\ half >= BorrowMin
              /\ one.memory = {Len(points) + 1} /\ two.memory = {Len(points) + 1}
              /\ one.viewed /\ ~two.viewed /\ ~one.mapped /\ two.mapped
              /\ one.end = two.end
  <2> SUFFICES ASSUME Joint
               PROVE  /\ one \in Tables /\ two \in Tables
                      /\ Len(one.data) = half /\ Len(two.data) = half
                      /\ \/ Solitary(one) /\ Solitary(two) /\ one.memory = Own /\ two.memory = Own
                         \/ /\ half >= BorrowMin
                            /\ one.memory = {Len(points) + 1} /\ two.memory = {Len(points) + 1}
                            /\ one.viewed /\ ~two.viewed /\ ~one.mapped /\ two.mapped
                            /\ one.end = two.end
    OBVIOUS
  <2>1. one = ChallengedAs("witness", 1, r) /\ two = ChallengedAs("conjugate", 1, r)
    BY <1>4, <1>6, <1>8
  <2>2. Len(tables["witness"][1].data) = 2 * half /\ Len(tables["conjugate"][1].data) = 2 * half
    BY <1>3, <1>4, <1>8
  <2>3. PICK a : a = ChallengedAs("witness", 1, r)
    OBVIOUS
  <2>4. PICK b : b = ChallengedAs("conjugate", 1, r)
    OBVIOUS
  <2>5. /\ a \in Tables /\ b \in Tables
        /\ Len(a.data) = half /\ Len(b.data) = half
        /\ \/ Solitary(a) /\ Solitary(b) /\ a.memory = Own /\ b.memory = Own
           \/ /\ half >= BorrowMin
              /\ a.memory = {Len(points) + 1} /\ b.memory = {Len(points) + 1}
              /\ a.viewed /\ ~b.viewed /\ ~a.mapped /\ b.mapped
              /\ a.end = b.end
    BY <1>1, <2>2, <2>3, <2>4, JointTables
  <2>6. one = a /\ two = b
    BY <2>1, <2>3, <2>4
  <2> HIDE DEF one, two
  <2> QED BY <2>5, <2>6
<1>10. Kinds = {"witness", "conjugate"}
  BY DEF Kinds
<1>11. \A kind \in Kinds : \A i \in DOMAIN tables[kind] :
         tables'[kind][i] \in Tables /\ Len(tables'[kind][i].data) = half
  <2> SUFFICES ASSUME NEW kind \in Kinds, NEW i \in DOMAIN tables[kind]
               PROVE  tables'[kind][i] \in Tables /\ Len(tables'[kind][i].data) = half
    OBVIOUS
  <2>1. CASE ~(Joint /\ i = 1)
    BY <1>7, <2>1
  <2>2. CASE Joint /\ i = 1
    <3>1. tables'[kind][i] = one \/ tables'[kind][i] = two
      BY <1>10, <2>2
    <3> HIDE DEF one, two
    <3> QED BY <1>9, <2>2, <3>1
  <2> QED BY <2>1, <2>2
<1>12. TablesTyped'
  <2>1. \A kind \in Kinds : tables'[kind] \in Seq(Tables) /\ Len(tables'[kind]) = Len(tables[kind])
    <3> SUFFICES ASSUME NEW kind \in Kinds
                 PROVE  tables'[kind] \in Seq(Tables) /\ Len(tables'[kind]) = Len(tables[kind])
      OBVIOUS
    <3>1. PICK n \in Nat : n = Len(tables[kind]) /\ DOMAIN tables[kind] = 1..n
      BY <1>4, <1>10
    <3>2. tables'[kind] = [i \in 1..n |-> tables'[kind][i]]
      BY <1>2, <3>1
    <3>3. \A i \in 1..n : tables'[kind][i] \in Tables
      BY <1>11, <3>1
    <3>4. [i \in 1..n |-> tables'[kind][i]] \in Seq(Tables) /\ Len([i \in 1..n |-> tables'[kind][i]]) = n
      BY <3>3
    <3> QED BY <3>1, <3>2, <3>4
  <2>2. tables' \in [Kinds -> Seq(Tables)]
    BY <1>2, <2>1
  <2> QED BY <1>1, <1>4, <1>5, <2>1, <2>2 DEF TablesTyped, ViewInv
<1>13. SizesInStep'
  <2> DEFINE p == 2^Len(points)
  <2>1. p \in Nat \ {0} /\ \A kind \in Kinds : \A i \in DOMAIN tables[kind] :
          (2 * half) * p = Len(witness)
    BY <1>3 DEF ViewInv, SizesInStep
  <2>2. 2^Len(points') = 2 * p
    BY <1>3, <1>5
  <2>3. half * (2 * p) = (2 * half) * p /\ 2 * p \in Nat \ {0}
    <3> HIDE DEF p
    <3> QED BY <2>1
  <2>4. Sizes(k)'
    BY <1>1, <1>3, <1>5, <1>6, <1>11 DEF Sizes
  <2>5. \A kind \in Kinds : \A i \in DOMAIN tables'[kind] :
          Len(tables'[kind][i].data) * 2^Len(points') = Len(witness')
    BY <1>1, <1>6, <1>11, <2>1, <2>2, <2>3
  <2> QED BY <1>1, <2>2, <2>3, <2>4, <2>5 DEF SizesInStep
<1>14. BorrowedAreLong'
  <2> SUFFICES ASSUME NEW kind \in Kinds, NEW i \in DOMAIN tables[kind],
                      tables'[kind][i].memory # Own
               PROVE  Len(tables'[kind][i].data) >= BorrowMin
    BY <1>6 DEF BorrowedAreLong
  <2>1. Joint /\ i = 1
    BY <1>7
  <2>2. tables'[kind][i] = one \/ tables'[kind][i] = two
    BY <1>10, <2>1
  <2> HIDE DEF one, two
  <2> QED BY <1>9, <2>1, <2>2
<1>15. SharingInv'
  <2>1. CASE ~Joint
    BY <1>6, <1>7, <2>1 DEF SharingInv
  <2>2. CASE Joint /\ Solitary(one) /\ Solitary(two)
    <3>1. \A kind \in Kinds : \A i \in DOMAIN tables[kind] : Solitary(tables'[kind][i])
      <4> SUFFICES ASSUME NEW kind \in Kinds, NEW i \in DOMAIN tables[kind]
                   PROVE  Solitary(tables'[kind][i])
        OBVIOUS
      <4>1. i = 1 => tables'[kind][i] = one \/ tables'[kind][i] = two
        BY <1>10
      <4> HIDE DEF one, two
      <4> QED BY <1>7, <2>2, <4>1
    <3> QED BY <1>6, <3>1 DEF SharingInv
  <2>3. CASE Joint /\ ~(Solitary(one) /\ Solitary(two))
    <3>1. /\ one.memory = {Len(points) + 1} /\ two.memory = {Len(points) + 1}
          /\ one.viewed /\ ~two.viewed /\ ~one.mapped /\ two.mapped
          /\ one.end = two.end
      <4> HIDE DEF one, two
      <4> QED BY <1>9, <2>3
    <3>2. tables'["conjugate"] # <<>>
      BY <1>4, <1>6, <1>8, <2>3
    <3>3. Len(points) + 1 \in 1..Len(points')
      BY <1>4, <1>5
    <3>4. FirstsShare'
      BY <3>1, <3>2, <3>3 DEF FirstsShare
    <3> QED BY <1>6, <1>7, <3>4 DEF SharingInv
  <2> QED BY <2>1, <2>2, <2>3
<1>16. panicked' = FALSE
  <2>1. panicked' = \E cell \in Alone : PanicsAlone(tables[cell[1]][cell[2]])
    BY DEF TakeChallenge
  <2>2. ASSUME NEW cell \in Alone
        PROVE  ~PanicsAlone(tables[cell[1]][cell[2]])
    <3>1. PICK kind \in Kinds : \E i \in DOMAIN tables[kind] : cell = <<kind, i>>
      BY DEF Alone, Cells
    <3>2. PICK i \in DOMAIN tables[kind] : cell = <<kind, i>>
      BY <3>1
    <3>3. ~(Joint /\ i = 1)
      BY <3>2 DEF Alone
    <3> QED BY <1>1, <3>2, <3>3, SharedAreJoint DEF PanicsAlone, Solitary
  <2> QED BY <2>1, <2>2
<1> QED BY <1>12, <1>13, <1>14, <1>15, <1>16 DEF ViewInv

LEMMA ViewNext == ViewInv /\ [Next]_vars => ViewInv'
<1> SUFFICES ASSUME ViewInv, [Next]_vars PROVE ViewInv'
  OBVIOUS
<1>1. CASE TakeChallenge
  BY <1>1, ChallengeKeeps
<1>2. CASE UNCHANGED vars
  BY <1>2 DEF vars, ViewInv, TablesTyped, SizesInStep, Sizes, BorrowedAreLong, SharingInv,
              FirstsShare
<1> QED BY <1>1, <1>2 DEF Next, Finished

-----------------------------------------------------------------------------
\* Who shares, as the property says it.
LEMMA OwnersOfViews ==
    ASSUME ViewInv
    PROVE  ViewsHaveAnOwner
<1> DEFINE cell(c) == tables[c[1]][c[2]]
           sharing == {c \in Cells : cell(c).memory \notin {Own, Caller}}
           viewed == {c \in Cells : cell(c).viewed}
           first == <<"witness", 1>>
           second == <<"conjugate", 1>>
<1>1. \A c : c \in Cells <=> \E kind \in Kinds : \E i \in DOMAIN tables[kind] : c = <<kind, i>>
  BY DEF Cells
<1>2. CASE \A kind \in Kinds : \A i \in DOMAIN tables[kind] : Solitary(tables[kind][i])
  <2>1. \A c \in Cells : ~cell(c).viewed /\ cell(c).memory \in {Own, Caller}
    BY <1>1, <1>2 DEF Solitary
  <2>2. sharing = {} /\ viewed = {}
    BY <2>1
  <2> QED BY <2>2 DEF ViewsHaveAnOwner
<1>3. CASE /\ FirstsShare
           /\ \A kind \in Kinds : \A i \in DOMAIN tables[kind] \ {1} : Solitary(tables[kind][i])
  <2>1. /\ tables["conjugate"] \in Seq(Tables)
        /\ 1 \in DOMAIN tables["witness"] /\ Kinds = {"witness", "conjugate"}
    BY DEF ViewInv, TablesTyped, Kinds
  <2>2. 1 \in DOMAIN tables["conjugate"]
    BY <1>3, <2>1 DEF FirstsShare
  <2>3. first \in Cells /\ second \in Cells
    BY <1>1, <2>1, <2>2
  <2>4. /\ cell(first) = tables["witness"][1] /\ cell(second) = tables["conjugate"][1]
        /\ first # second /\ first[1] = "witness" /\ second[1] # "witness"
    OBVIOUS
  <2>5. PICK round \in 1..Len(points) :
          tables["witness"][1].memory = {round} /\ tables["conjugate"][1].memory = {round}
    BY <1>3 DEF FirstsShare
  <2>6. {round} \notin {Own, Caller}
    <3>1. round # 0
      BY <2>5
    <3> QED BY <3>1 DEF Own, Caller
  <2>7. \A c \in Cells : c # first /\ c # second =>
          ~cell(c).viewed /\ cell(c).memory \in {Own, Caller}
    <3> SUFFICES ASSUME NEW c \in Cells, c # first, c # second
                 PROVE  ~cell(c).viewed /\ cell(c).memory \in {Own, Caller}
      OBVIOUS
    <3>1. PICK kind \in Kinds : \E i \in DOMAIN tables[kind] : c = <<kind, i>>
      BY <1>1
    <3>2. PICK i \in DOMAIN tables[kind] : c = <<kind, i>>
      BY <3>1
    <3>3. i # 1
      BY <2>1, <3>2
    <3>4. Solitary(tables[kind][i])
      BY <1>3, <3>3
    <3> QED BY <3>2, <3>4 DEF Solitary
  <2>8. cell(first).viewed /\ ~cell(second).viewed
    BY <1>3, <2>4 DEF FirstsShare
  <2>9. cell(first).memory = {round} /\ cell(second).memory = {round}
    BY <2>4, <2>5
  <2> HIDE DEF cell, first, second
  <2>10. sharing = {first, second}
    BY <2>3, <2>6, <2>7, <2>9
  <2>11. viewed = {first}
    BY <2>3, <2>7, <2>8
  <2>12. {c \in sharing : c[1] = "witness"} = {first}
    BY <2>4, <2>10
  <2>13. /\ viewed = {c \in sharing : c[1] = "witness"}
         /\ sharing = {first, second}
         /\ tables["witness"][1].memory = tables["conjugate"][1].memory
         /\ tables["conjugate"][1].mapped /\ ~tables["witness"][1].mapped
    BY <1>3, <2>5, <2>10, <2>11, <2>12 DEF FirstsShare
  <2> QED BY <2>13 DEF ViewsHaveAnOwner, cell, first, second
<1> QED BY <1>2, <1>3 DEF ViewInv, SharingInv

\* linear.rs, partial_evaluate and final_evaluations: no table that is viewed is
\* folded without its view, whatever is shared has one owner and one view of it,
\* and when every variable is challenged each table owns its one entry.
THEOREM TablesNeverPanic == Spec => []NeverPanics
<1>1. ViewInv => NeverPanics
  <2> SUFFICES ASSUME ViewInv PROVE NeverPanics
    OBVIOUS
  <2>1. ASSUME Folded, NEW kind \in Kinds, NEW i \in DOMAIN tables[kind]
        PROVE  tables[kind][i].memory = Own
    <3> DEFINE n == Len(tables[kind][i].data)
               p == 2^Len(points)
    <3>1. p \in Nat \ {0} /\ n * p = p
      BY <2>1 DEF ViewInv, SizesInStep, Folded
    <3>2. tables[kind][i].data \in Seq(Ring)
      <4>1. tables[kind][i] \in Tables
        BY ElementOfSeq DEF ViewInv, TablesTyped
      <4> QED BY <4>1 DEF Tables
    <3>3. n \in Nat
      BY <3>2
    <3>4. tables[kind][i].memory # Own => n >= BorrowMin
      BY DEF ViewInv, BorrowedAreLong
    <3> HIDE DEF n, p
    <3>5. ~(n >= 2)
      <4>1. n >= 2 => n * p >= 2 * p
        BY <3>1, <3>3
      <4> QED BY <3>1, <3>3, <4>1
    <3> QED BY <3>3, <3>4, <3>5, BorrowAssumption
  <2> QED BY <2>1, OwnersOfViews DEF NeverPanics, ViewInv
<1> QED BY ViewInit, ViewNext, <1>1, PTL DEF Spec

-----------------------------------------------------------------------------
(***************************************************************************)
(* Folds over a finite set, element by element: f gives for an element     *)
(* what taking it makes of the value so far.                               *)
(***************************************************************************)
Chosen(s) == CHOOSE x \in s : TRUE

\* The equation by which MapThenFoldSet is defined, of integers.
Accumulates(f, base, S, g) ==
    g = [s \in SUBSET S |-> IF s = {} THEN base ELSE f[Chosen(s)][g[s \ {Chosen(s)}]]]

Accumulated(f, base, S) == (CHOOSE g : Accumulates(f, base, S, g))[S]

Steps(f, S) == \A x \in S : f[x] \in [Int -> Int]

\* In whatever order two elements are taken.
Exchanges(f, S) == \A x \in S : \A y \in S : \A v \in Int : f[x][f[y][v]] = f[y][f[x][v]]

\* A set of naturals has a least one.
LEMMA LeastNatural ==
    ASSUME NEW T, T \subseteq Nat, T # {}
    PROVE  \E x \in T : \A y \in T : x <= y
<1>1. IsWellFoundedOn(OpToRel(<, Nat), Nat)
  BY NatLessThanWellFounded
<1>2. PICK x \in T : \A y \in T : ~ (<<y, x>> \in OpToRel(<, Nat))
  BY <1>1, WFMin
<1>3. \A y \in T : y \in Nat
  OBVIOUS
<1>4. \A y \in T : ~(y < x)
  BY <1>2, <1>3 DEF OpToRel
<1> QED BY <1>3, <1>4

\* A set without its chosen element is smaller.
LEMMA Smaller ==
    ASSUME NEW S, IsFiniteSet(S), NEW s \in SUBSET S
    PROVE  /\ Cardinality(s) \in Nat /\ Cardinality(s) \in 0..Cardinality(S)
           /\ s # {} => Chosen(s) \in s
           /\ \A x \in s : /\ s \ {x} \in SUBSET S /\ Cardinality(s) # 0
                           /\ Cardinality(s \ {x}) = Cardinality(s) - 1
<1>1. IsFiniteSet(s) /\ Cardinality(s) <= Cardinality(S)
  BY FS_Subset
<1>2. Cardinality(s) \in Nat /\ Cardinality(S) \in Nat
  BY <1>1, FS_CardinalityType
<1>3. s # {} => Chosen(s) \in s
  BY DEF Chosen
<1>4. ASSUME NEW x \in s
      PROVE  /\ s \ {x} \in SUBSET S /\ Cardinality(s) # 0
             /\ Cardinality(s \ {x}) = Cardinality(s) - 1
  <2>1. Cardinality(s) # 0
    BY <1>1, FS_EmptySet
  <2>2. Cardinality(s \ {x}) = Cardinality(s) - 1
    BY <1>1, FS_RemoveElement
  <2> QED BY <2>1, <2>2
<1> QED BY <1>1, <1>2, <1>3, <1>4

\* The equation has a solution, by induction over the sizes of the subsets.
LEMMA AccumulatesExists ==
    ASSUME NEW S, IsFiniteSet(S), NEW f, Steps(f, S), NEW base \in Int
    PROVE  \E g \in [SUBSET S -> Int] : Accumulates(f, base, S, g)
<1> DEFINE Upto(k) == {s \in SUBSET S : Cardinality(s) <= k}
           Rest(s) == s \ {Chosen(s)}
           Solves(g, k) == /\ g \in [Upto(k) -> Int]
                           /\ \A s \in Upto(k) :
                                g[s] = IF s = {} THEN base ELSE f[Chosen(s)][g[Rest(s)]]
           Wrong == {k \in 0..Cardinality(S) : ~ \E g : Solves(g, k)}
<1>1. Cardinality(S) \in Nat /\ \A s \in SUBSET S : Cardinality(s) \in 0..Cardinality(S)
  <2>1. \A s \in SUBSET S : Cardinality(s) \in 0..Cardinality(S)
    BY Smaller
  <2> QED BY <2>1, FS_CardinalityType
<1> HIDE DEF Solves
<1>2. ASSUME Wrong # {} PROVE FALSE
  <2>1. Wrong \subseteq Nat
    BY <1>1
  <2> HIDE DEF Wrong
  <2>2. PICK k \in Wrong : \A j \in Wrong : k <= j
    BY <1>2, <2>1, LeastNatural
  <2>3. k \in 0..Cardinality(S) /\ k \in Nat /\ ~ \E g : Solves(g, k)
    BY <1>1, <2>2 DEF Wrong
  <2>4. CASE k = 0
    <3>1. \A s \in Upto(0) : s = {}
      <4> TAKE s \in Upto(0)
      <4>1. s \in SUBSET S /\ Cardinality(s) <= 0
        OBVIOUS
      <4>2. Cardinality(s) = 0
        BY <1>1, <4>1
      <4>3. IsFiniteSet(s)
        BY <4>1, FS_Subset
      <4> QED BY <4>2, <4>3, FS_EmptySet
    <3> DEFINE g == [s \in Upto(0) |-> base]
    <3>2. g \in [Upto(0) -> Int] /\ \A s \in Upto(0) : g[s] = base
      OBVIOUS
    <3>3. Solves(g, 0)
      BY <3>1, <3>2 DEF Solves
    <3> QED BY <2>3, <2>4, <3>3
  <2>5. CASE k # 0
    <3>1. k - 1 \in Nat /\ k = (k - 1) + 1
      BY <2>3, <2>5
    <3> DEFINE j == k - 1
    <3>2. j \in 0..Cardinality(S) /\ j \notin Wrong /\ j \in Nat /\ k = j + 1
      BY <1>1, <2>2, <2>3, <3>1
    <3> HIDE DEF j
    <3>3. PICK g : Solves(g, j)
      BY <3>2 DEF Wrong
    <3> DEFINE next == [s \in Upto(k) |-> IF s = {} THEN base ELSE f[Chosen(s)][g[Rest(s)]]]
    <3>4. \A s \in Upto(k) : s # {} => Chosen(s) \in S /\ Rest(s) \in Upto(j) /\ Rest(s) \in Upto(k)
      <4> TAKE s \in Upto(k)
      <4> HAVE s # {}
      <4>1. s \in SUBSET S /\ Cardinality(s) <= k
        OBVIOUS
      <4>2. /\ Cardinality(s) \in Nat /\ Chosen(s) \in s /\ Rest(s) \in SUBSET S
            /\ Cardinality(Rest(s)) = Cardinality(s) - 1
        BY <4>1, Smaller
      <4>3. Cardinality(Rest(s)) <= j /\ Cardinality(Rest(s)) <= k
        BY <3>2, <4>1, <4>2
      <4> QED BY <4>1, <4>2, <4>3
    <3> HIDE DEF Rest
    <3>5. \A s \in Upto(j) : g[s] \in Int /\ g[s] = IF s = {} THEN base ELSE f[Chosen(s)][g[Rest(s)]]
      BY <3>3 DEF Solves
    <3>6. \A s \in Upto(j) : s \in Upto(k)
      <4>1. \A s \in SUBSET S : Cardinality(s) <= j => Cardinality(s) <= k
        BY <1>1, <3>2
      <4> QED BY <4>1
    <3>7. next \in [Upto(k) -> Int]
      <4>1. ASSUME NEW s \in Upto(k)
            PROVE  (IF s = {} THEN base ELSE f[Chosen(s)][g[Rest(s)]]) \in Int
        <5>1. CASE s = {}
          BY <5>1
        <5>2. CASE s # {}
          <6>1. f[Chosen(s)] \in [Int -> Int] /\ g[Rest(s)] \in Int
            BY <3>4, <3>5, <5>2 DEF Steps
          <6>2. f[Chosen(s)][g[Rest(s)]] \in Int
            BY <6>1
          <6> QED BY <5>2, <6>2
        <5> QED BY <5>1, <5>2
      <4> QED BY <4>1
    <3>8. \A s \in Upto(k) : next[s] = IF s = {} THEN base ELSE f[Chosen(s)][g[Rest(s)]]
      OBVIOUS
    <3> HIDE DEF next, Upto
    <3>9. \A s \in Upto(j) : next[s] = g[s]
      BY <3>5, <3>6, <3>8
    <3>10. \A s \in Upto(k) : next[s] = IF s = {} THEN base ELSE f[Chosen(s)][next[Rest(s)]]
      BY <3>4, <3>8, <3>9
    <3> QED BY <2>3, <3>7, <3>10 DEF Solves
  <2> QED BY <2>4, <2>5
<1>3. PICK g : Solves(g, Cardinality(S))
  <2>1. Cardinality(S) \in 0..Cardinality(S)
    BY <1>1
  <2> QED BY <1>2, <2>1
<1>4. Upto(Cardinality(S)) = SUBSET S
  <2>1. \A s \in SUBSET S : Cardinality(s) <= Cardinality(S)
    BY <1>1
  <2> QED BY <2>1
<1>5. /\ g \in [SUBSET S -> Int]
      /\ \A s \in SUBSET S : g[s] = IF s = {} THEN base ELSE f[Chosen(s)][g[s \ {Chosen(s)}]]
  BY <1>3, <1>4 DEF Solves
<1> QED BY <1>5 DEF Accumulates

\* Two solutions agree on every set on whose elements the steps do.
LEMMA AccumulatesAgree ==
    ASSUME NEW S, IsFiniteSet(S), NEW f, NEW base, NEW a, Accumulates(f, base, S, a),
           NEW U, IsFiniteSet(U), NEW k, NEW b, Accumulates(k, base, U, b),
           NEW T, T \subseteq S, T \subseteq U, \A x \in T : f[x] = k[x]
    PROVE  a[T] = b[T]
<1> DEFINE Wrong == {n \in 0..Cardinality(T) : \E s \in SUBSET T : Cardinality(s) = n /\ a[s] # b[s]}
<1>1. IsFiniteSet(T) /\ Cardinality(T) \in Nat
  BY FS_Subset, FS_CardinalityType
<1>2. \A s \in SUBSET T :
        /\ a[s] = IF s = {} THEN base ELSE f[Chosen(s)][a[s \ {Chosen(s)}]]
        /\ b[s] = IF s = {} THEN base ELSE k[Chosen(s)][b[s \ {Chosen(s)}]]
  BY DEF Accumulates
<1>3. ASSUME Wrong # {} PROVE FALSE
  <2>1. Wrong \subseteq Nat
    BY <1>1
  <2> HIDE DEF Wrong
  <2>2. PICK n \in Wrong : \A j \in Wrong : n <= j
    BY <1>3, <2>1, LeastNatural
  <2>3. PICK s \in SUBSET T : Cardinality(s) = n /\ a[s] # b[s]
    BY <2>2 DEF Wrong
  <2>4. s # {}
    BY <1>2, <2>3
  <2> DEFINE rest == s \ {Chosen(s)}
  <2>5. /\ rest \in SUBSET T /\ Cardinality(s) \in Nat /\ Cardinality(s) # 0
        /\ Cardinality(s) \in 0..Cardinality(T) /\ Cardinality(rest) = Cardinality(s) - 1
        /\ Chosen(s) \in T
    BY <1>1, <2>4, Smaller
  <2>6. a[rest] # b[rest]
    BY <1>2, <2>3, <2>4, <2>5
  <2> HIDE DEF rest
  <2>7. Cardinality(rest) \in 0..Cardinality(T) /\ Cardinality(rest) < n
    BY <1>1, <2>3, <2>5
  <2>8. Cardinality(rest) \in Wrong
    BY <2>5, <2>6, <2>7 DEF Wrong
  <2> QED BY <2>1, <2>2, <2>7, <2>8
<1>4. T \in SUBSET T /\ Cardinality(T) \in 0..Cardinality(T)
  BY <1>1
<1> QED BY <1>3, <1>4

Integral(g, S) == \A s \in SUBSET S : g[s] \in Int
Takes(f, S, g) == \A s \in SUBSET S : \A x \in s : g[s] = f[x][g[s \ {x}]]

\* A solution takes any element of a set as well as the chosen one.
LEMMA AccumulatesTakes ==
    ASSUME NEW S, IsFiniteSet(S), NEW f, Steps(f, S), Exchanges(f, S), NEW base \in Int,
           NEW g, Integral(g, S), Accumulates(f, base, S, g)
    PROVE  Takes(f, S, g)
<1> DEFINE Good(s) == \A x \in s : g[s] = f[x][g[s \ {x}]]
           Wrong == {n \in 0..Cardinality(S) : \E s \in SUBSET S : Cardinality(s) = n /\ ~Good(s)}
<1>1. Cardinality(S) \in Nat
  BY FS_CardinalityType
<1>2. \A s \in SUBSET S : s # {} => g[s] = f[Chosen(s)][g[s \ {Chosen(s)}]]
  BY DEF Accumulates
<1> HIDE DEF Good
<1>3. ASSUME Wrong # {} PROVE FALSE
  <2>1. Wrong \subseteq Nat
    BY <1>1
  <2> HIDE DEF Wrong
  <2>2. PICK n \in Wrong : \A j \in Wrong : n <= j
    BY <1>3, <2>1, LeastNatural
  <2>3. PICK s \in SUBSET S : Cardinality(s) = n /\ ~Good(s)
    BY <2>2 DEF Wrong
  <2>4. PICK x \in s : g[s] # f[x][g[s \ {x}]]
    BY <2>3 DEF Good
  <2> DEFINE y == Chosen(s)
             both == (s \ {x}) \ {y}
  <2>5. y \in s /\ y \in S /\ x \in S /\ y # x
    <3>1. y \in s
      BY Smaller
    <3> QED BY <1>2, <2>4, <3>1
  <2>6. \A z \in s : s \ {z} \in SUBSET S /\ Good(s \ {z})
    <3> SUFFICES ASSUME NEW z \in s PROVE s \ {z} \in SUBSET S /\ Good(s \ {z})
      OBVIOUS
    <3>1. /\ s \ {z} \in SUBSET S /\ Cardinality(s) \in Nat /\ Cardinality(s) # 0
          /\ Cardinality(s) \in 0..Cardinality(S)
          /\ Cardinality(s \ {z}) = Cardinality(s) - 1
      BY Smaller
    <3> DEFINE c == Cardinality(s \ {z})
    <3>2. c \in 0..Cardinality(S) /\ ~(n <= c)
      BY <1>1, <2>3, <3>1
    <3> HIDE DEF c
    <3>3. c \notin Wrong
      BY <2>2, <3>2
    <3> QED BY <3>1, <3>2, <3>3 DEF Wrong, c
  <2> HIDE DEF y
  <2>7. (s \ {y}) \ {x} = both /\ x \in s \ {y} /\ y \in s \ {x} /\ both \in SUBSET S
    BY <2>5
  <2> HIDE DEF both
  <2>8. g[s \ {y}] = f[x][g[both]]
    BY <2>5, <2>6, <2>7 DEF Good
  <2>9. g[s \ {x}] = f[y][g[both]]
    <3>1. (s \ {x}) \ {y} = both
      BY DEF both
    <3> QED BY <2>6, <2>7, <3>1 DEF Good
  <2>10. g[s] = f[y][g[s \ {y}]]
    BY <1>2, <2>4 DEF y
  <2>11. g[both] \in Int
    BY <2>7 DEF Integral
  <2>12. f[y][f[x][g[both]]] = f[x][f[y][g[both]]]
    BY <2>5, <2>11 DEF Exchanges
  <2> QED BY <2>4, <2>8, <2>9, <2>10, <2>12
<1>4. \A s \in SUBSET S : Good(s)
  <2> TAKE s \in SUBSET S
  <2>1. Cardinality(s) \in 0..Cardinality(S)
    BY Smaller
  <2> QED BY <1>3, <2>1
<1> QED BY <1>4 DEF Good, Takes

\* What is accumulated, element by element.
LEMMA AccumulatedIs ==
    ASSUME NEW S, IsFiniteSet(S), NEW f, Steps(f, S), NEW base \in Int
    PROVE  /\ Accumulated(f, base, S) \in Int
           /\ S = {} => Accumulated(f, base, S) = base
           /\ \A g : Accumulates(f, base, S, g) => g[S] = Accumulated(f, base, S)
<1> DEFINE a == CHOOSE g : Accumulates(f, base, S, g)
<1>1. PICK b \in [SUBSET S -> Int] : Accumulates(f, base, S, b)
  BY AccumulatesExists
<1>2. Accumulates(f, base, S, a)
  BY <1>1
<1>3. Accumulated(f, base, S) = a[S]
  BY DEF Accumulated
<1> HIDE DEF a
<1>4. \A g : Accumulates(f, base, S, g) => g[S] = a[S]
  <2> TAKE g
  <2> HAVE Accumulates(f, base, S, g)
  <2> QED BY <1>2, AccumulatesAgree
<1>5. a[S] \in Int
  BY <1>1, <1>4
<1>6. S = {} => a[S] = base
  BY <1>2 DEF Accumulates
<1> QED BY <1>3, <1>4, <1>5, <1>6

LEMMA AccumulatedAgree ==
    ASSUME NEW S, IsFiniteSet(S), NEW f, Steps(f, S), NEW base \in Int,
           NEW k, \A x \in S : f[x] = k[x]
    PROVE  Accumulated(k, base, S) = Accumulated(f, base, S)
<1>1. Steps(k, S)
  BY DEF Steps
<1>2. PICK a : Accumulates(f, base, S, a)
  BY AccumulatesExists
<1>3. PICK b : Accumulates(k, base, S, b)
  BY <1>1, AccumulatesExists
<1>4. a[S] = b[S]
  BY <1>2, <1>3, AccumulatesAgree
<1>5. a[S] = Accumulated(f, base, S)
  BY <1>2, AccumulatedIs
<1>6. b[S] = Accumulated(k, base, S)
  BY <1>1, <1>3, AccumulatedIs
<1> QED BY <1>4, <1>5, <1>6

LEMMA AccumulatedStep ==
    ASSUME NEW S, IsFiniteSet(S), NEW f, Steps(f, S), Exchanges(f, S), NEW base \in Int,
           NEW x \in S
    PROVE  Accumulated(f, base, S) = f[x][Accumulated(f, base, S \ {x})]
<1> DEFINE T == S \ {x}
<1>1. PICK a \in [SUBSET S -> Int] : Accumulates(f, base, S, a)
  BY AccumulatesExists
<1>2. IsFiniteSet(T) /\ Steps(f, T)
  BY FS_RemoveElement DEF Steps
<1>3. PICK b \in [SUBSET T -> Int] : Accumulates(f, base, T, b)
  BY <1>2, AccumulatesExists
<1>4. a[S] = f[x][a[S \ {x}]]
  <2>0. Integral(a, S)
    BY <1>1 DEF Integral
  <2>1. Takes(f, S, a)
    BY <1>1, <2>0, AccumulatesTakes
  <2>2. S \in SUBSET S
    OBVIOUS
  <2> QED BY <2>1, <2>2 DEF Takes
<1>5. a[T] = b[T]
  <2>1. T \subseteq S
    OBVIOUS
  <2> HIDE DEF T
  <2> QED BY <1>1, <1>2, <1>3, <2>1, AccumulatesAgree
<1>6. a[S] = Accumulated(f, base, S)
  BY <1>1, AccumulatedIs
<1>7. b[T] = Accumulated(f, base, T)
  <2> HIDE DEF T
  <2> QED BY <1>2, <1>3, AccumulatedIs
<1> QED BY <1>4, <1>5, <1>6, <1>7

-----------------------------------------------------------------------------
(***************************************************************************)
(* Sums over an interval from zero.                                        *)
(***************************************************************************)
Adding(h) == [x \in DOMAIN h |-> [v \in Int |-> h[x] + v]]
SumOf(h, S) == Accumulated(Adding(h), 0, S)

\* The numbers below n.
Below(n) == 0..(n - 1)

LEMMA BelowNext ==
    ASSUME NEW n \in Nat
    PROVE  /\ IsFiniteSet(Below(n)) /\ Below(0) = {}
           /\ n \in Below(n + 1) /\ Below(n + 1) \ {n} = Below(n) /\ Below(n) \subseteq Below(n + 1)
<1>1. IsFiniteSet(0..(n - 1))
  BY FS_Interval
<1> QED BY <1>1 DEF Below

LEMMA AddingSteps ==
    ASSUME NEW h, NEW S, S \subseteq DOMAIN h, \A x \in S : h[x] \in Int
    PROVE  /\ Steps(Adding(h), S) /\ Exchanges(Adding(h), S)
           /\ \A x \in S : \A v \in Int : Adding(h)[x][v] = h[x] + v
<1>1. \A x \in S : \A v \in Int : Adding(h)[x][v] = h[x] + v
  BY DEF Adding
<1>2. \A x \in S : Adding(h)[x] = [v \in Int |-> h[x] + v]
  BY DEF Adding
<1>3. Steps(Adding(h), S)
  <2> SUFFICES ASSUME NEW x \in S PROVE Adding(h)[x] \in [Int -> Int]
    BY DEF Steps
  <2>1. \A v \in Int : h[x] + v \in Int
    OBVIOUS
  <2> QED BY <1>2, <2>1
<1>4. Exchanges(Adding(h), S)
  <2> SUFFICES ASSUME NEW x \in S, NEW y \in S, NEW v \in Int
               PROVE  Adding(h)[x][Adding(h)[y][v]] = Adding(h)[y][Adding(h)[x][v]]
    BY DEF Exchanges
  <2>1. h[x] \in Int /\ h[y] \in Int /\ h[x] + v \in Int /\ h[y] + v \in Int
    OBVIOUS
  <2>2. Adding(h)[x][h[y] + v] = h[x] + (h[y] + v) /\ Adding(h)[y][h[x] + v] = h[y] + (h[x] + v)
    BY <1>1, <2>1
  <2>3. Adding(h)[x][v] = h[x] + v /\ Adding(h)[y][v] = h[y] + v
    BY <1>1
  <2>4. \A a, b \in Int : a + (b + v) = b + (a + v)
    OBVIOUS
  <2> QED BY <2>1, <2>2, <2>3, <2>4
<1> QED BY <1>1, <1>3, <1>4

\* A sum below n, one summand at a time; it depends on the summands below n only.
LEMMA SumBelow ==
    ASSUME NEW n \in Nat, NEW h, Below(n) \subseteq DOMAIN h, \A x \in Below(n) : h[x] \in Int
    PROVE  /\ SumOf(h, Below(n)) \in Int
           /\ n = 0 => SumOf(h, Below(n)) = 0
           /\ \A m \in Nat : n = m + 1 => SumOf(h, Below(n)) = h[m] + SumOf(h, Below(m))
<1>1. IsFiniteSet(Below(n)) /\ Below(0) = {}
  BY BelowNext
<1>2. Steps(Adding(h), Below(n)) /\ Exchanges(Adding(h), Below(n))
  BY AddingSteps
<1>3. SumOf(h, Below(n)) \in Int /\ (n = 0 => SumOf(h, Below(n)) = 0)
  BY <1>1, <1>2, AccumulatedIs DEF SumOf
<1>4. ASSUME NEW m \in Nat, n = m + 1
      PROVE  SumOf(h, Below(n)) = h[m] + SumOf(h, Below(m))
  <2>1. m \in Below(n) /\ Below(n) \ {m} = Below(m) /\ Below(m) \subseteq Below(n)
        /\ IsFiniteSet(Below(m))
    BY <1>4, BelowNext
  <2>2. SumOf(h, Below(n)) = Adding(h)[m][SumOf(h, Below(m))]
    BY <1>1, <1>2, <2>1, AccumulatedStep DEF SumOf
  <2>3. SumOf(h, Below(m)) \in Int
    <3>1. Steps(Adding(h), Below(m))
      BY <1>2, <2>1 DEF Steps
    <3> QED BY <2>1, <3>1, AccumulatedIs DEF SumOf
  <2>4. \A x \in Below(n) : \A v \in Int : Adding(h)[x][v] = h[x] + v
    BY AddingSteps
  <2> QED BY <2>1, <2>2, <2>3, <2>4
<1> QED BY <1>3, <1>4

-----------------------------------------------------------------------------
(***************************************************************************)
(* Congruence modulo the prime.                                            *)
(***************************************************************************)
Congruent(a, b) == \E q \in Int : a = b + Modulus * q

LEMMA ModulusIs == Modulus \in Nat /\ Modulus \in Int /\ Modulus > 1
BY FieldAssumption

\* Integer arithmetic as the provers need it spelt out.
LEMMA Ints ==
    \A a, b, c \in Int :
      /\ a + b \in Int /\ a - b \in Int /\ a * b \in Int
      /\ a * (b + c) = a * b + a * c /\ a * (b - c) = a * b - a * c
      /\ (a + b) * c = a * c + b * c /\ (a - b) * c = a * c - b * c
      /\ a * b = b * a /\ a * (b * c) = (a * b) * c
OBVIOUS

LEMMA CongruentSame ==
    \A a \in Int : Congruent(a, a)
<1> TAKE a \in Int
<1>1. a = a + Modulus * 0 /\ 0 \in Int
  BY ModulusIs
<1> QED BY <1>1 DEF Congruent

LEMMA CongruentBack ==
    ASSUME NEW a \in Int, NEW b \in Int, Congruent(a, b)
    PROVE  Congruent(b, a)
<1>1. PICK q \in Int : a = b + Modulus * q
  BY DEF Congruent
<1>2. -q \in Int /\ Modulus * (-q) = -(Modulus * q) /\ Modulus * q \in Int
  BY ModulusIs
<1>3. b = a + Modulus * (-q)
  BY <1>1, <1>2
<1> QED BY <1>2, <1>3 DEF Congruent

LEMMA CongruentTo ==
    ASSUME NEW a \in Int, NEW b \in Int, NEW c \in Int, Congruent(a, b), Congruent(b, c)
    PROVE  Congruent(a, c)
<1>1. PICK q \in Int : a = b + Modulus * q
  BY DEF Congruent
<1>2. PICK p \in Int : b = c + Modulus * p
  BY DEF Congruent
<1>3. p + q \in Int /\ Modulus * (p + q) = Modulus * p + Modulus * q
      /\ Modulus * p \in Int /\ Modulus * q \in Int
  BY ModulusIs, Ints
<1>4. a = c + Modulus * (p + q)
  BY <1>1, <1>2, <1>3
<1> QED BY <1>3, <1>4 DEF Congruent

LEMMA CongruentSum ==
    ASSUME NEW a \in Int, NEW b \in Int, NEW c \in Int, NEW d \in Int,
           Congruent(a, b), Congruent(c, d)
    PROVE  Congruent(a + c, b + d)
<1>1. PICK q \in Int : a = b + Modulus * q
  BY DEF Congruent
<1>2. PICK p \in Int : c = d + Modulus * p
  BY DEF Congruent
<1>3. p + q \in Int /\ Modulus * (p + q) = Modulus * p + Modulus * q
      /\ Modulus * p \in Int /\ Modulus * q \in Int
  BY ModulusIs, Ints
<1>4. a + c = (b + d) + Modulus * (p + q)
  BY <1>1, <1>2, <1>3
<1> QED BY <1>3, <1>4 DEF Congruent

LEMMA CongruentProduct ==
    ASSUME NEW a \in Int, NEW b \in Int, NEW c \in Int, Congruent(a, b)
    PROVE  Congruent(a * c, b * c) /\ Congruent(c * a, c * b)
<1>1. PICK q \in Int : a = b + Modulus * q
  BY DEF Congruent
<1>2. q * c \in Int /\ (Modulus * q) * c = Modulus * (q * c) /\ Modulus * q \in Int
  BY ModulusIs, Ints
<1>3. (b + Modulus * q) * c = b * c + (Modulus * q) * c
  BY <1>2, Ints
<1>4. a * c = b * c + Modulus * (q * c)
  BY <1>1, <1>2, <1>3
<1>5. c * a = a * c /\ c * b = b * c
  BY Ints
<1> QED BY <1>2, <1>4, <1>5 DEF Congruent

\* Reducing stays congruent, and the reduced of what is congruent are equal.
LEMMA Reducing ==
    \A a \in Int : a % Modulus \in Field /\ a % Modulus \in Int /\ Congruent(a % Modulus, a)
<1> TAKE a \in Int
<1> DEFINE q == a \div Modulus
           r == a % Modulus
<1>1. q \in Int /\ r \in Int /\ 0 <= r /\ r < Modulus /\ a = Modulus * q + r
  BY ModulusIs
<1> HIDE DEF q, r
<1>2. Modulus * (-q) = -(Modulus * q) /\ Modulus * q \in Int /\ -q \in Int
  BY <1>1, ModulusIs
<1>3. r = a + Modulus * (-q)
  BY <1>1, <1>2
<1>4. r \in Field
  BY <1>1, ModulusIs DEF Field
<1> QED BY <1>1, <1>2, <1>3, <1>4 DEF Congruent, r

LEMMA FieldAlone ==
    ASSUME NEW a \in Field, NEW b \in Field, Congruent(a, b)
    PROVE  a = b
<1>0. /\ a \in Int /\ b \in Int /\ 0 <= a /\ 0 <= b /\ a < Modulus /\ b < Modulus
      /\ Modulus \in Int
  BY ModulusIs DEF Field
<1>1. PICK q \in Int : a = b + Modulus * q
  BY DEF Congruent
<1>2. q >= 1 => Modulus * q >= Modulus
  <2>1. ASSUME q >= 1 PROVE Modulus * q >= Modulus
    <3>1. q - 1 \in Nat /\ Modulus \in Nat
      BY <2>1, ModulusIs
    <3>2. Modulus * (q - 1) \in Nat
      BY <3>1
    <3>3. Modulus * (q - 1) = Modulus * q - Modulus * 1 /\ Modulus * 1 = Modulus /\ Modulus * q \in Int
      BY <1>0, Ints
    <3> QED BY <1>0, <3>2, <3>3
  <2> QED BY <2>1
<1>3. q <= -1 => Modulus * q <= -Modulus
  <2>1. ASSUME q <= -1 PROVE Modulus * q <= -Modulus
    <3>1. (-q) - 1 \in Nat /\ Modulus \in Nat /\ -q \in Int
      BY <2>1, ModulusIs
    <3>2. Modulus * ((-q) - 1) \in Nat
      BY <3>1
    <3>3. Modulus * ((-q) - 1) = Modulus * (-q) - Modulus * 1 /\ Modulus * 1 = Modulus
          /\ Modulus * (-q) = -(Modulus * q) /\ Modulus * q \in Int
      BY <1>0, <3>1, Ints
    <3> QED BY <1>0, <3>2, <3>3
  <2> QED BY <2>1
<1>4. Modulus * q \in Int /\ Modulus * 0 = 0
  BY <1>0
<1>5. ~(q >= 1) /\ ~(q <= -1)
  BY <1>0, <1>1, <1>2, <1>3, <1>4
<1>6. q = 0
  BY <1>5
<1> QED BY <1>0, <1>1, <1>4, <1>6

LEMMA ReducedAlike ==
    ASSUME NEW a \in Int, NEW b \in Int, Congruent(a, b)
    PROVE  a % Modulus = b % Modulus
<1> DEFINE x == a % Modulus
           y == b % Modulus
<1>1. x \in Field /\ x \in Int /\ Congruent(x, a) /\ y \in Field /\ y \in Int /\ Congruent(y, b)
  BY Reducing
<1> HIDE DEF x, y
<1>2. Congruent(x, b)
  BY <1>1, CongruentTo
<1>3. Congruent(b, y)
  BY <1>1, CongruentBack
<1>4. Congruent(x, y)
  BY <1>1, <1>2, <1>3, CongruentTo
<1> QED BY <1>1, <1>4, FieldAlone DEF x, y

LEMMA ReducedIsItself ==
    ASSUME NEW a \in Field
    PROVE  a % Modulus = a
<1>1. a \in Int
  BY DEF Field
<1>2. a % Modulus \in Field /\ Congruent(a % Modulus, a)
  BY <1>1, Reducing
<1> QED BY <1>2, FieldAlone

-----------------------------------------------------------------------------
(***************************************************************************)
(* Products, reduced after every factor.                                   *)
(***************************************************************************)
Multiplying(h) == [x \in DOMAIN h |-> [v \in Int |-> (v * h[x]) % Modulus]]
ProductOf(h, n) == Accumulated(Multiplying(h), 1, 1..n)

LEMMA MultiplyingSteps ==
    ASSUME NEW h, NEW S, S \subseteq DOMAIN h, \A x \in S : h[x] \in Int
    PROVE  /\ Steps(Multiplying(h), S) /\ Exchanges(Multiplying(h), S)
           /\ \A x \in S : \A v \in Int : Multiplying(h)[x][v] = (v * h[x]) % Modulus
<1>1. \A x \in S : \A v \in Int : Multiplying(h)[x][v] = (v * h[x]) % Modulus
  BY DEF Multiplying
<1>2. \A x \in S : Multiplying(h)[x] = [v \in Int |-> (v * h[x]) % Modulus]
  BY DEF Multiplying
<1>3. \A x \in S : \A v \in Int : (v * h[x]) % Modulus \in Int
  <2> TAKE x \in S
  <2> TAKE v \in Int
  <2>1. v * h[x] \in Int
    BY Ints
  <2> QED BY <2>1, Reducing
<1>4. Steps(Multiplying(h), S)
  <2> SUFFICES ASSUME NEW x \in S PROVE Multiplying(h)[x] \in [Int -> Int]
    BY DEF Steps
  <2> DEFINE m(v) == (v * h[x]) % Modulus
  <2>1. \A v \in Int : m(v) \in Int
    BY <1>3
  <2>2. Multiplying(h)[x] = [v \in Int |-> m(v)]
    BY <1>2
  <2> HIDE DEF m
  <2> QED BY <2>1, <2>2
<1>5. Exchanges(Multiplying(h), S)
  <2> SUFFICES ASSUME NEW x \in S, NEW y \in S, NEW v \in Int
               PROVE  Multiplying(h)[x][Multiplying(h)[y][v]] = Multiplying(h)[y][Multiplying(h)[x][v]]
    BY DEF Exchanges
  <2>1. PICK a \in Int : a = h[x]
    OBVIOUS
  <2>2. PICK b \in Int : b = h[y]
    OBVIOUS
  <2>3. PICK t \in Int : t = v * a
    BY Ints
  <2>4. PICK u \in Int : u = v * b
    BY Ints
  <2>5. u % Modulus \in Int /\ Congruent(u % Modulus, u) /\ t % Modulus \in Int /\ Congruent(t % Modulus, t)
    BY Reducing
  <2>6. Congruent((u % Modulus) * a, u * a) /\ Congruent((t % Modulus) * b, t * b)
    BY <2>5, CongruentProduct
  <2>7. (u % Modulus) * a \in Int /\ u * a \in Int /\ (t % Modulus) * b \in Int /\ t * b \in Int
        /\ u * a = t * b
    <3>1. \A c, d \in Int : c * d \in Int
      BY Ints
    <3>2. (v * b) * a = v * (b * a) /\ (v * a) * b = v * (a * b) /\ b * a = a * b
      BY Ints
    <3> QED BY <2>3, <2>4, <2>5, <3>1, <3>2
  <2>8. ((u % Modulus) * a) % Modulus = (u * a) % Modulus
    BY <2>6, <2>7, ReducedAlike
  <2>9. ((t % Modulus) * b) % Modulus = (t * b) % Modulus
    BY <2>6, <2>7, ReducedAlike
  <2>10. Multiplying(h)[y][v] = u % Modulus /\ Multiplying(h)[x][v] = t % Modulus
    BY <1>1, <2>1, <2>2, <2>3, <2>4
  <2>11. Multiplying(h)[x][u % Modulus] = ((u % Modulus) * a) % Modulus
         /\ Multiplying(h)[y][t % Modulus] = ((t % Modulus) * b) % Modulus
    BY <1>1, <2>1, <2>2, <2>5
  <2> QED BY <2>7, <2>8, <2>9, <2>10, <2>11
<1> QED BY <1>1, <1>4, <1>5

\* A product of n factors, one at a time.
LEMMA ProductUpto ==
    ASSUME NEW n \in Nat, NEW h, 1..n \subseteq DOMAIN h, \A x \in 1..n : h[x] \in Int
    PROVE  /\ ProductOf(h, n) \in Int
           /\ n = 0 => ProductOf(h, n) = 1
           /\ \A m \in Nat : n = m + 1 => ProductOf(h, n) = (ProductOf(h, m) * h[n]) % Modulus
<1>1. IsFiniteSet(1..n)
  BY FS_Interval
<1>2. /\ Steps(Multiplying(h), 1..n) /\ Exchanges(Multiplying(h), 1..n)
      /\ \A x \in 1..n : \A v \in Int : Multiplying(h)[x][v] = (v * h[x]) % Modulus
  BY MultiplyingSteps
<1>3. ProductOf(h, n) \in Int /\ (n = 0 => ProductOf(h, n) = 1)
  <2>1. n = 0 => 1..n = {}
    OBVIOUS
  <2> QED BY <1>1, <1>2, <2>1, AccumulatedIs DEF ProductOf
<1>4. ASSUME NEW m \in Nat, n = m + 1
      PROVE  ProductOf(h, n) = (ProductOf(h, m) * h[n]) % Modulus
  <2>1. n \in 1..n /\ (1..n) \ {n} = 1..m /\ 1..m \subseteq 1..n /\ IsFiniteSet(1..m)
    BY <1>4, FS_Interval
  <2>2. ProductOf(h, n) = Multiplying(h)[n][ProductOf(h, m)]
    <3> DEFINE U == 1..n
               f == Multiplying(h)
    <3>0. IsFiniteSet(U) /\ n \in U /\ Steps(f, U) /\ Exchanges(f, U) /\ 1 \in Int
      BY <1>1, <1>2, <2>1
    <3> HIDE DEF U, f
    <3>1. Accumulated(f, 1, U) = f[n][Accumulated(f, 1, U \ {n})]
      BY <3>0, AccumulatedStep
    <3> USE DEF U, f
    <3> QED BY <2>1, <3>1 DEF ProductOf
  <2>3. ProductOf(h, m) \in Int
    <3>1. Steps(Multiplying(h), 1..m)
      BY <1>2, <2>1 DEF Steps
    <3> QED BY <2>1, <3>1, AccumulatedIs DEF ProductOf
  <2> QED BY <1>2, <2>1, <2>2, <2>3
<1> QED BY <1>3, <1>4

LEMMA ProductsAgree ==
    ASSUME NEW n \in Nat, NEW h, 1..n \subseteq DOMAIN h, \A x \in 1..n : h[x] \in Int,
           NEW k, 1..n \subseteq DOMAIN k, \A x \in 1..n : k[x] = h[x]
    PROVE  ProductOf(k, n) = ProductOf(h, n)
<1>1. IsFiniteSet(1..n)
  BY FS_Interval
<1>2. Steps(Multiplying(h), 1..n)
  BY MultiplyingSteps
<1>3. \A x \in 1..n : Multiplying(h)[x] = Multiplying(k)[x]
  BY DEF Multiplying
<1> QED BY <1>1, <1>2, <1>3, AccumulatedAgree DEF ProductOf

-----------------------------------------------------------------------------
(***************************************************************************)
(* The model's folds are these.                                            *)
(***************************************************************************)
\* g takes the steps of f, wherever what it has so far is an integer.
Follows(g, f, base, S) ==
    \A s \in SUBSET S :
      /\ s = {} => g[s] = base
      /\ s # {} /\ g[s \ {Chosen(s)}] \in Int => g[s] = f[Chosen(s)][g[s \ {Chosen(s)}]]

\* A function that takes the steps where what it has so far is an integer takes
\* them everywhere.
LEMMA AccumulatedBy ==
    ASSUME NEW S, IsFiniteSet(S), NEW f, Steps(f, S), NEW base \in Int, NEW g,
           Follows(g, f, base, S)
    PROVE  g[S] = Accumulated(f, base, S)
<1>1. PICK a \in [SUBSET S -> Int] : Accumulates(f, base, S, a)
  BY AccumulatesExists
<1>2. \A s \in SUBSET S : a[s] \in Int /\ a[s] = IF s = {} THEN base ELSE f[Chosen(s)][a[s \ {Chosen(s)}]]
  BY <1>1 DEF Accumulates
<1> DEFINE Wrong == {n \in 0..Cardinality(S) : \E s \in SUBSET S : Cardinality(s) = n /\ g[s] # a[s]}
<1>3. Cardinality(S) \in Nat
  BY FS_CardinalityType
<1>4. ASSUME Wrong # {} PROVE FALSE
  <2>1. Wrong \subseteq Nat
    BY <1>3
  <2> HIDE DEF Wrong
  <2>2. PICK n \in Wrong : \A j \in Wrong : n <= j
    BY <1>4, <2>1, LeastNatural
  <2>3. PICK s \in SUBSET S : Cardinality(s) = n /\ g[s] # a[s]
    BY <2>2 DEF Wrong
  <2>4. s # {}
    BY <1>2, <2>3 DEF Follows
  <2> DEFINE rest == s \ {Chosen(s)}
  <2>5. /\ rest \in SUBSET S /\ Cardinality(s) \in Nat /\ Cardinality(s) # 0
        /\ Cardinality(s) \in 0..Cardinality(S) /\ Cardinality(rest) = Cardinality(s) - 1
    BY <2>4, Smaller
  <2>6. g[rest] # a[rest]
    <3>1. ASSUME g[rest] = a[rest] PROVE FALSE
      <4>1. g[rest] \in Int
        BY <1>2, <2>5, <3>1
      <4>2. g[s] = f[Chosen(s)][g[rest]]
        BY <2>4, <4>1 DEF Follows
      <4>3. a[s] = f[Chosen(s)][a[rest]]
        BY <1>2, <2>4
      <4> QED BY <2>3, <3>1, <4>2, <4>3
    <3> QED BY <3>1
  <2> HIDE DEF rest
  <2>7. Cardinality(rest) \in 0..Cardinality(S) /\ Cardinality(rest) < n
    BY <1>3, <2>3, <2>5
  <2>8. Cardinality(rest) \in Wrong
    BY <2>5, <2>6, <2>7 DEF Wrong
  <2> QED BY <2>1, <2>2, <2>7, <2>8
<1>5. S \in SUBSET S /\ Cardinality(S) \in 0..Cardinality(S)
  BY <1>3
<1>6. g[S] = a[S]
  BY <1>4, <1>5
<1> QED BY <1>1, <1>6, AccumulatedIs

\* CornerWeight at any point.
WeightOf(p, c, slot) ==
    FoldSet(LAMBDA k, weight : (weight * (IF Bit(c, k) = 1 THEN p[k][slot]
                                          ELSE 1 - p[k][slot])) % Modulus,
            1, DOMAIN p)

Factors(p, c, slot) ==
    [k \in DOMAIN p |-> IF Bit(c, k) = 1 THEN p[k][slot] ELSE 1 - p[k][slot]]

LEMMA PointParts ==
    ASSUME NEW p \in Seq(Ring), NEW slot \in 1..2
    PROVE  /\ DOMAIN p = 1..Len(p) /\ Len(p) \in Nat
           /\ \A k \in 1..Len(p) : p[k] \in Ring /\ p[k][slot] \in Field /\ p[k][slot] \in Int
<1>1. \A x \in Ring : x[1] \in Field /\ x[2] \in Field
  BY DEF Ring
<1>2. \A x \in Ring : x[slot] \in Field
  BY <1>1
<1>3. \A y \in Field : y \in Int
  BY DEF Field
<1> QED BY <1>2, <1>3

LEMMA FactorsType ==
    ASSUME NEW p \in Seq(Ring), NEW slot \in 1..2, NEW c
    PROVE  /\ DOMAIN Factors(p, c, slot) = 1..Len(p)
           /\ \A k \in 1..Len(p) : Factors(p, c, slot)[k] \in Int
<1>1. /\ DOMAIN p = 1..Len(p)
      /\ \A k \in 1..Len(p) : p[k][slot] \in Int /\ 1 - p[k][slot] \in Int
  <2>1. \A k \in 1..Len(p) : p[k][slot] \in Int
    BY PointParts
  <2>2. \A a \in Int : 1 - a \in Int
    OBVIOUS
  <2> QED BY <2>1, <2>2, PointParts
<1> QED BY <1>1 DEF Factors

LEMMA WeightIs ==
    ASSUME NEW p \in Seq(Ring), NEW slot \in 1..2, NEW c
    PROVE  WeightOf(p, c, slot) = ProductOf(Factors(p, c, slot), Len(p))
<1> DEFINE S == DOMAIN p
           h == Factors(p, c, slot)
           Body(g, s) == IF s = {} THEN 1
                         ELSE (g[s \ {CHOOSE x \in s : TRUE}]
                                 * (IF Bit(c, CHOOSE x \in s : TRUE) = 1
                                    THEN p[CHOOSE x \in s : TRUE][slot]
                                    ELSE 1 - p[CHOOSE x \in s : TRUE][slot])) % Modulus
           Equation(g) == g = [s \in SUBSET S |-> Body(g, s)]
           iter == CHOOSE g : Equation(g)
<1>1. /\ S = 1..Len(p) /\ Len(p) \in Nat /\ IsFiniteSet(S) /\ S = DOMAIN h
      /\ \A x \in S : h[x] \in Int
  <2>1. DOMAIN p = 1..Len(p) /\ Len(p) \in Nat
    BY PointParts
  <2>2. IsFiniteSet(1..Len(p))
    BY <2>1, FS_Interval
  <2>3. DOMAIN h = 1..Len(p) /\ \A x \in 1..Len(p) : h[x] \in Int
    BY FactorsType
  <2> HIDE DEF h
  <2> QED BY <2>1, <2>2, <2>3
<1>2. WeightOf(p, c, slot) = iter[S]
  BY DEF WeightOf, FoldSet, MapThenFoldSet
<1>3. /\ Steps(Multiplying(h), S)
      /\ \A x \in S : \A v \in Int : Multiplying(h)[x][v] = (v * h[x]) % Modulus
  BY <1>1, MultiplyingSteps
<1>4. \A s \in SUBSET S : s # {} => Chosen(s) \in S
  BY DEF Chosen
<1>5. \A g : \A s \in SUBSET S :
        Body(g, s) = IF s = {} THEN 1 ELSE (g[s \ {Chosen(s)}] * h[Chosen(s)]) % Modulus
  <2> TAKE g
  <2> TAKE s \in SUBSET S
  <2>1. s # {} => h[Chosen(s)] = IF Bit(c, Chosen(s)) = 1 THEN p[Chosen(s)][slot]
                                                        ELSE 1 - p[Chosen(s)][slot]
    BY <1>4 DEF Factors
  <2> HIDE DEF h, S
  <2> QED BY <2>1 DEF Chosen
<1> HIDE DEF S, h, Body
<1> DEFINE f == Multiplying(h)
<1>0. 1 \in Int /\ Steps(f, S)
  BY <1>3
<1>6. PICK a \in [SUBSET S -> Int] : Accumulates(f, 1, S, a)
  <2> HIDE DEF f
  <2> QED BY <1>0, <1>1, AccumulatesExists
<1>7. Equation(a)
  <2>1. ASSUME NEW s \in SUBSET S PROVE a[s] = Body(a, s)
    <3>1. a[s] = IF s = {} THEN 1 ELSE Multiplying(h)[Chosen(s)][a[s \ {Chosen(s)}]]
      BY <1>6 DEF Accumulates
    <3>2. s # {} => a[s \ {Chosen(s)}] \in Int
      <4>1. s \ {Chosen(s)} \in SUBSET S
        OBVIOUS
      <4> QED BY <1>6, <4>1
    <3> QED BY <1>3, <1>4, <1>5, <3>1, <3>2
  <2>2. a = [s \in SUBSET S |-> a[s]]
    BY <1>6
  <2> QED BY <2>1, <2>2
<1>8. Equation(iter)
  <2> HIDE DEF Equation
  <2> QED BY <1>7
<1> HIDE DEF iter
<1>9. \A s \in SUBSET S : iter[s] = Body(iter, s)
  BY <1>8
<1> HIDE DEF Equation
<1>10. Follows(iter, Multiplying(h), 1, S)
  BY <1>3, <1>4, <1>5, <1>9, SMTT(60) DEF Follows
<1>11. iter[S] = Accumulated(Multiplying(h), 1, S)
  <2>1. Follows(iter, f, 1, S)
    BY <1>10
  <2> HIDE DEF f
  <2>2. iter[S] = Accumulated(f, 1, S)
    BY <1>0, <1>1, <2>1, AccumulatedBy
  <2> QED BY <2>2 DEF f
<1> QED BY <1>1, <1>2, <1>11 DEF ProductOf, h

-----------------------------------------------------------------------------
(***************************************************************************)
(* Powers of two and bits.                                                 *)
(***************************************************************************)
LEMMA PowersPositive ==
    ASSUME NEW w \in Witnesses
    PROVE  \A n \in 0..(Len(w) + 1) : 2^n \in Nat /\ 2^n >= 1
<1> DEFINE Wrong == {n \in 0..(Len(w) + 1) : ~(2^n \in Nat /\ 2^n >= 1)}
<1>1. Len(w) \in Nat
  BY WitnessLength
<1>2. ASSUME Wrong # {} PROVE FALSE
  <2>1. Wrong \subseteq Nat
    BY <1>1
  <2> HIDE DEF Wrong
  <2>2. PICK n \in Wrong : \A j \in Wrong : n <= j
    BY <1>2, <2>1, LeastNatural
  <2>3. n \in 0..(Len(w) + 1) /\ n \in Nat /\ ~(2^n \in Nat /\ 2^n >= 1)
    BY <1>1, <2>2 DEF Wrong
  <2>4. n # 0
    <3>1. 2^0 = 1 /\ 1 \in Nat /\ 1 >= 1
      OBVIOUS
    <3> QED BY <2>3, <3>1
  <2> DEFINE m == n - 1
  <2>5. m \in 0..Len(w) /\ m \in 0..(Len(w) + 1) /\ m < n /\ n = m + 1
    BY <1>1, <2>3, <2>4
  <2> HIDE DEF m
  <2>6. m \notin Wrong
    BY <1>1, <2>2, <2>3, <2>5
  <2>7. 2^m \in Nat /\ 2^m >= 1 /\ 2^(m + 1) = 2 * 2^m
    BY <2>5, <2>6, PowersAssumption DEF Wrong
  <2> QED BY <2>3, <2>5, <2>7
<1> QED BY <1>2

LEMMA PowersSplit ==
    ASSUME NEW w \in Witnesses, NEW a \in Nat
    PROVE  \A b \in Nat : a + b <= Len(w) + 1 => 2^(a + b) = 2^a * 2^b
<1> DEFINE Good(b) == a + b <= Len(w) + 1 => 2^(a + b) = 2^a * 2^b
           Wrong == {b \in Nat : ~Good(b)}
<1>1. Len(w) \in Nat
  BY WitnessLength
<1> HIDE DEF Good
<1>2. ASSUME Wrong # {} PROVE FALSE
  <2>1. PICK b \in Wrong : \A j \in Wrong : b <= j
    <3> HIDE DEF Wrong
    <3>1. Wrong \subseteq Nat
      BY DEF Wrong
    <3> QED BY <1>2, <3>1, LeastNatural
  <2>2. b \in Nat /\ a + b <= Len(w) + 1 /\ 2^(a + b) # 2^a * 2^b
    BY <2>1 DEF Good
  <2>3. a \in 0..(Len(w) + 1)
    BY <1>1, <2>2
  <2>4. 2^a \in Nat
    BY <2>3, PowersPositive
  <2>5. b # 0
    <3>1. 2^0 = 1 /\ a + 0 = a
      OBVIOUS
    <3>2. 2^a * 1 = 2^a
      BY <2>4
    <3> QED BY <2>2, <3>1, <3>2
  <2> DEFINE c == b - 1
  <2>6. c \in Nat /\ b = c + 1 /\ a + c \in 0..Len(w) /\ c \in 0..Len(w) /\ a + b = (a + c) + 1
        /\ a + c <= Len(w) + 1 /\ ~(b <= c)
    BY <1>1, <2>2, <2>5
  <2> HIDE DEF c
  <2>7. 2^(a + c) = 2^a * 2^c
    <3>1. Good(c)
      BY <2>1, <2>6
    <3> QED BY <2>6, <3>1 DEF Good
  <2>8. 2^((a + c) + 1) = 2 * 2^(a + c) /\ 2^(c + 1) = 2 * 2^c /\ 2^c \in Nat
    BY <2>6, PowersAssumption
  <2>9. \A x, y \in Nat : 2 * (x * y) = x * (2 * y)
    OBVIOUS
  <2> QED BY <2>2, <2>4, <2>6, <2>7, <2>8, <2>9
<1>3. ASSUME NEW b \in Nat PROVE Good(b)
  BY <1>2
<1> QED BY <1>3 DEF Good

\* A quotient and a remainder determine what they are of.
LEMMA Dividing ==
    ASSUME NEW q \in Nat, NEW d \in Nat, NEW r \in Nat, r < d
    PROVE  (q * d + r) \div d = q /\ (q * d + r) % d = r
<1> DEFINE a == q * d + r
           x == a \div d
           y == a % d
           u == q * d
           v == x * d
<1>1. a \in Nat /\ d >= 1 /\ u \in Nat /\ a = u + r
  BY SMT
<1>2. x \in Nat /\ y \in Nat /\ y < d /\ a = x * d + y
  <2> HIDE DEF a
  <2> QED BY <1>1
<1>3. v \in Nat /\ a = v + y
  <2> HIDE DEF a, x, y
  <2> QED BY <1>1, <1>2
<1>4. \A m, n \in Nat : m < n => m * d + d <= n * d
  <2> SUFFICES ASSUME NEW m \in Nat, NEW n \in Nat, m < n PROVE m * d + d <= n * d
    OBVIOUS
  <2>1. n - (m + 1) \in Nat
    OBVIOUS
  <2>2. (n - (m + 1)) * d \in Nat
    BY <2>1
  <2>3. (n - (m + 1)) * d = n * d - (m * d + d) /\ n * d \in Int /\ m * d \in Int
    OBVIOUS
  <2> QED BY <2>2, <2>3
<1>5. (x < q => v + d <= u) /\ (q < x => u + d <= v)
  <2> HIDE DEF x, y, a
  <2> QED BY <1>1, <1>2, <1>4
<1>6. x = q
  <2> HIDE DEF a, x, y, u, v
  <2> QED BY <1>1, <1>2, <1>3, <1>5
<1>7. y = r
  <2>1. u = v
    BY <1>6
  <2> HIDE DEF a, x, y, u, v
  <2> QED BY <1>1, <1>2, <1>3, <2>1
<1> QED BY <1>6, <1>7

\* A number on top of m bits does not change them, nor do they change it.
LEMMA BitsUnder ==
    ASSUME NEW w \in Witnesses, NEW m \in Nat, m <= Len(w), NEW c \in Below(2^m), NEW h \in Nat
    PROVE  /\ \A k \in 1..m : Bit(h * 2^m + c, k) = Bit(c, k)
           /\ \A k \in Nat : k >= 1 /\ m + k <= Len(w) + 1 => Bit(h * 2^m + c, m + k) = Bit(h, k)
<1>1. Len(w) \in Nat /\ m \in 0..(Len(w) + 1)
  BY WitnessLength
<1>2. 2^m \in Nat /\ 2^m >= 1 /\ c \in Nat /\ c < 2^m /\ h \in Nat
  BY <1>1, PowersPositive DEF Below
<1>3. ASSUME NEW k \in Nat, k >= 1, m + k <= Len(w) + 1
      PROVE  Bit(h * 2^m + c, m + k) = Bit(h, k)
  <2> DEFINE b == k - 1
             M == 2^m
             P == 2^b
             x == h \div P
             y == h % P
  <2>1. /\ b \in Nat /\ m + b <= Len(w) + 1 /\ b \in 0..(Len(w) + 1) /\ (m + k) - 1 = m + b
    BY <1>1, <1>3
  <2>2. 2^(m + b) = M * P
    BY <2>1, PowersSplit
  <2>3. P \in Nat /\ P >= 1 /\ M \in Nat /\ M >= 1
    BY <1>2, <2>1, PowersPositive
  <2>4. x \in Nat /\ y \in Nat /\ y < P /\ h = x * P + y
    <3> HIDE DEF P
    <3>1. h = P * (h \div P) + (h % P)
      BY <1>2, <2>3
    <3> QED BY <1>2, <2>3, <3>1
  <2> DEFINE d == M * P
             z == y * M + c
  <2>5. d \in Nat /\ z \in Nat /\ z < d /\ h * M + c = x * d + z
    <3> HIDE DEF M, P, x, y
    <3>1. c < M
      BY <1>2 DEF M
    <3>2. (P - 1) - y \in Nat
      BY <2>3, <2>4
    <3>3. ((P - 1) - y) * M \in Nat
      BY <2>3, <3>2
    <3>4. ((P - 1) - y) * M = M * P - M - y * M /\ y * M \in Nat /\ M * P \in Nat
      BY <2>3, <2>4
    <3>5. (x * P + y) * M = x * (M * P) + y * M /\ x * (M * P) \in Nat
      BY <2>3, <2>4
    <3> QED BY <1>2, <2>3, <2>4, <3>1, <3>3, <3>4, <3>5
  <2> HIDE DEF M, P, x, y, z, d
  <2>6. (h * M + c) \div d = x
    BY <2>4, <2>5, Dividing
  <2>7. Bit(h * M + c, m + k) = ((h * M + c) \div d) % 2
    BY <2>1, <2>2 DEF Bit, M, d
  <2>8. Bit(h, k) = x % 2
    BY DEF Bit, x, P, b
  <2> QED BY <2>6, <2>7, <2>8 DEF M
<1>4. ASSUME NEW k \in 1..m PROVE Bit(h * 2^m + c, k) = Bit(c, k)
  <2> DEFINE a == k - 1
             b == m - k
             P == 2^a
             Q == 2^b
             x == c \div P
             y == c % P
  <2>1. /\ a \in Nat /\ b \in Nat /\ a + (b + 1) = m /\ b + 1 \in Nat /\ b \in 0..Len(w)
        /\ a \in 0..(Len(w) + 1) /\ b \in 0..(Len(w) + 1) /\ a + (b + 1) <= Len(w) + 1
    BY <1>1
  <2>2. 2^m = P * 2^(b + 1) /\ 2^(b + 1) = 2 * Q
    BY <2>1, PowersSplit, PowersAssumption
  <2>3. P \in Nat /\ P >= 1 /\ Q \in Nat
    BY <2>1, PowersPositive
  <2>4. x \in Nat /\ y \in Nat /\ y < P /\ c = x * P + y
    <3> HIDE DEF P
    <3>1. c = P * (c \div P) + (c % P)
      BY <1>2, <2>3
    <3> QED BY <1>2, <2>3, <3>1
  <2> DEFINE z == h * (2 * Q) + x
  <2>5. h * 2^m + c = z * P + y /\ z \in Nat
    <3> DEFINE t == 2 * Q
    <3>1. t \in Nat /\ 2^m = P * t
      BY <2>2, <2>3
    <3> HIDE DEF P, Q, x, y, t
    <3>2. h * (P * t) + (x * P + y) = (h * t + x) * P + y /\ h * t + x \in Nat
      BY <1>2, <2>3, <2>4, <3>1
    <3> QED BY <2>4, <3>1, <3>2 DEF t
  <2>6. (h * 2^m + c) \div P = z
    <3> HIDE DEF P, Q, x, y, z
    <3> QED BY <2>3, <2>4, <2>5, Dividing
  <2>7. z % 2 = x % 2
    <3> DEFINE u == h * Q
    <3>1. u \in Nat /\ z = 2 * u + x
      <4> HIDE DEF Q, x
      <4> QED BY <1>2, <2>3, <2>4
    <3> HIDE DEF u, z, x
    <3> QED BY <2>4, <3>1
  <2>8. Bit(h * 2^m + c, k) = ((h * 2^m + c) \div P) % 2 /\ Bit(c, k) = x % 2
    BY DEF Bit
  <2> HIDE DEF P, Q, x, y, z
  <2> QED BY <2>6, <2>7, <2>8
<1> QED BY <1>3, <1>4

\* A point with one more coordinate: the weight of a corner is that of the corner
\* below, times the coordinate or what it lacks to one.
LEMMA WeightOfMore ==
    ASSUME NEW w \in Witnesses, NEW p \in Seq(Ring), Len(p) <= Len(w), NEW r \in Ring,
           NEW slot \in 1..2, NEW c \in Below(2^Len(p)), NEW h \in 0..1
    PROVE  /\ WeightOf(p, c, slot) \in Int
           /\ WeightOf(Append(p, r), h * 2^Len(p) + c, slot)
                = (WeightOf(p, c, slot) * (IF h = 1 THEN r[slot] ELSE 1 - r[slot])) % Modulus
<1> DEFINE m == Len(p)
           q == Append(p, r)
           d == h * 2^m + c
           one == Factors(p, c, slot)
           two == Factors(q, d, slot)
<1>1. /\ m \in Nat /\ q \in Seq(Ring) /\ Len(q) = m + 1 /\ m + 1 \in Nat
      /\ \A k \in 1..m : q[k] = p[k] /\ q[m + 1] = r
  OBVIOUS
<1>2. DOMAIN p = 1..m /\ DOMAIN q = 1..(m + 1)
  BY <1>1
<1>3. /\ DOMAIN one = 1..m /\ \A k \in 1..m : one[k] \in Int
      /\ DOMAIN two = 1..(m + 1) /\ \A k \in 1..(m + 1) : two[k] \in Int
  <2> HIDE DEF q, d
  <2> QED BY <1>1, FactorsType
<1>4. \A k \in 1..m : Bit(d, k) = Bit(c, k)
  BY <1>1, BitsUnder
<1>5. Bit(d, m + 1) = h
  <2>1. 1 \in Nat /\ 1 >= 1 /\ m + 1 <= Len(w) + 1 /\ h \in Nat
    BY <1>1, WitnessLength
  <2>2. Bit(d, m + 1) = Bit(h, 1)
    BY <1>1, <2>1, BitsUnder
  <2>3. Bit(h, 1) = h
    <3>1. 1 - 1 = 0 /\ 2^0 = 1 /\ h \div 1 = h /\ h % 2 = h
      OBVIOUS
    <3> QED BY <3>1 DEF Bit
  <2> QED BY <2>2, <2>3
<1> HIDE DEF d
<1>6. \A k \in 1..m : two[k] = one[k]
  <2> TAKE k \in 1..m
  <2>1. k \in 1..(m + 1) /\ q[k] = p[k]
    BY <1>1
  <2> HIDE DEF q, m
  <2> QED BY <1>2, <1>4, <2>1 DEF Factors
<1>7. two[m + 1] = IF h = 1 THEN r[slot] ELSE 1 - r[slot]
  <2>1. m + 1 \in DOMAIN q /\ q[m + 1] = r
    BY <1>1, <1>2
  <2> HIDE DEF q, m
  <2> QED BY <1>5, <2>1 DEF Factors
<1>8. WeightOf(p, c, slot) = ProductOf(one, m) /\ WeightOf(q, d, slot) = ProductOf(two, m + 1)
  <2> HIDE DEF q
  <2> QED BY <1>1, WeightIs
<1> HIDE DEF one, two, m
<1>9. ProductOf(one, m) \in Int
  BY <1>1, <1>3, ProductUpto
<1>10. 1..m \subseteq 1..(m + 1)
  BY <1>1
<1>11. ProductOf(two, m) = ProductOf(one, m)
  BY <1>1, <1>3, <1>6, <1>10, ProductsAgree
<1>12. ProductOf(two, m + 1) = (ProductOf(two, m) * two[m + 1]) % Modulus
  BY <1>1, <1>3, ProductUpto
<1> QED BY <1>7, <1>8, <1>9, <1>11, <1>12 DEF d, m

-----------------------------------------------------------------------------
(***************************************************************************)
(* The multilinear extension at any point, and with one more coordinate.   *)
(***************************************************************************)
\* The entry of the original table at corner c of the k-th block of n.
EntryOf(w, kind, k, n, c) == Conjugated(kind, w[(k - 1) * n + c + 1])

\* The sum of ExtensionAt, in a slot.
SumAt(p, w, kind, k, slot) ==
    MapThenSumSet(LAMBDA c : WeightOf(p, c, slot) * EntryOf(w, kind, k, 2^Len(p), c)[slot],
                  0..(2^Len(p) - 1))

ExtensionOf(p, w, kind, k) == [slot \in 1..2 |-> SumAt(p, w, kind, k, slot) % Modulus]

Summands(p, w, kind, k, slot) ==
    [c \in Below(2^Len(p)) |-> WeightOf(p, c, slot) * EntryOf(w, kind, k, 2^Len(p), c)[slot]]

\* There are entries for the k-th block.
HasBlock(p, w, k) ==
    /\ w \in Witnesses /\ p \in Seq(Ring) /\ Len(p) <= Len(w)
    /\ k \in Nat /\ k >= 1 /\ k * 2^Len(p) <= Len(w)

LEMMA ConjugatedInRing ==
    ASSUME NEW x \in Ring, NEW kind, NEW slot \in 1..2
    PROVE  Conjugated(kind, x) \in Ring /\ Conjugated(kind, x)[slot] \in Int
<1>1. Conjugated(kind, x) \in Ring
  BY ConjugateInRing DEF Conjugated
<1>2. \A y \in Ring : y[1] \in Int /\ y[2] \in Int
  BY RingParts
<1> QED BY <1>1, <1>2

LEMMA EntryType ==
    ASSUME NEW p, NEW w, NEW k, HasBlock(p, w, k), NEW kind, NEW slot \in 1..2
    PROVE  \A c \in Below(2^Len(p)) :
             /\ (k - 1) * 2^Len(p) + c + 1 \in 1..Len(w)
             /\ EntryOf(w, kind, k, 2^Len(p), c) \in Ring
             /\ EntryOf(w, kind, k, 2^Len(p), c)[slot] \in Int
<1> DEFINE n == 2^Len(p)
<1>1. /\ w \in Seq(Ring) /\ Len(w) \in Nat /\ k \in Nat /\ k >= 1 /\ k * n <= Len(w)
      /\ n \in Nat /\ n >= 1
  <2>1. Len(p) \in 0..(Len(w) + 1) /\ w \in Seq(Ring) /\ Len(w) \in Nat
    BY WitnessLength DEF HasBlock
  <2> QED BY <2>1, PowersPositive DEF HasBlock
<1> HIDE DEF n
<1>2. ASSUME NEW c \in Below(n)
      PROVE  /\ (k - 1) * n + c + 1 \in 1..Len(w)
             /\ EntryOf(w, kind, k, n, c) \in Ring
             /\ EntryOf(w, kind, k, n, c)[slot] \in Int
  <2>1. c \in Nat /\ c < n
    BY <1>1 DEF Below
  <2>2. (k - 1) * n = k * n - n /\ k * n \in Nat /\ (k - 1) * n \in Nat
    BY <1>1
  <2>3. (k - 1) * n + c + 1 \in 1..Len(w)
    BY <1>1, <2>1, <2>2
  <2>4. PICK x \in Ring : x = w[(k - 1) * n + c + 1]
    BY <1>1, <2>3
  <2>5. EntryOf(w, kind, k, n, c) = Conjugated(kind, x)
    BY <2>4 DEF EntryOf
  <2> QED BY <2>3, <2>5, ConjugatedInRing
<1> QED BY <1>2 DEF n

LEMMA SummandsType ==
    ASSUME NEW p, NEW w, NEW k, HasBlock(p, w, k), NEW kind, NEW slot \in 1..2
    PROVE  /\ DOMAIN Summands(p, w, kind, k, slot) = Below(2^Len(p))
           /\ \A c \in Below(2^Len(p)) :
                /\ Summands(p, w, kind, k, slot)[c] \in Int
                /\ Summands(p, w, kind, k, slot)[c]
                     = WeightOf(p, c, slot) * EntryOf(w, kind, k, 2^Len(p), c)[slot]
           /\ 2^Len(p) \in Nat /\ 2^Len(p) >= 1
<1>1. p \in Seq(Ring) /\ w \in Witnesses /\ Len(p) <= Len(w) /\ 0 \in 0..1
  BY DEF HasBlock
<1>2. PICK r : r \in Ring
  BY ZeroInRing
<1>3. \A c \in Below(2^Len(p)) : WeightOf(p, c, slot) \in Int
  BY <1>1, <1>2, WeightOfMore
<1>4. \A c \in Below(2^Len(p)) : EntryOf(w, kind, k, 2^Len(p), c)[slot] \in Int
  BY EntryType
<1>5. \A c \in Below(2^Len(p)) :
        WeightOf(p, c, slot) * EntryOf(w, kind, k, 2^Len(p), c)[slot] \in Int
  BY <1>3, <1>4, Ints
<1>6. 2^Len(p) \in Nat /\ 2^Len(p) >= 1
  <2>1. Len(p) \in 0..(Len(w) + 1)
    BY <1>1, WitnessLength
  <2> QED BY <1>1, <2>1, PowersPositive
<1> QED BY <1>5, <1>6 DEF Summands

\* The equation by which MapThenSumSet is defined, of a function.
Adds(h, S, g) == g = [s \in SUBSET S |-> IF s = {} THEN 0 ELSE h[Chosen(s)] + g[s \ {Chosen(s)}]]

LEMMA SumSolved ==
    ASSUME NEW n \in Nat, NEW h, DOMAIN h = Below(n), \A x \in Below(n) : h[x] \in Int
    PROVE  /\ \E g : Adds(h, Below(n), g)
           /\ \A g : Adds(h, Below(n), g) => g[Below(n)] = SumOf(h, Below(n))
<1> DEFINE S == Below(n)
           f == Adding(h)
<1>1. /\ IsFiniteSet(S) /\ Steps(f, S) /\ 0 \in Int
      /\ \A x \in S : \A v \in Int : f[x][v] = h[x] + v
  <2>1. IsFiniteSet(S) /\ 0 \in Int
    BY BelowNext
  <2>2. S \subseteq DOMAIN h /\ \A x \in S : h[x] \in Int
    OBVIOUS
  <2> HIDE DEF S
  <2>3. Steps(Adding(h), S) /\ \A x \in S : \A v \in Int : Adding(h)[x][v] = h[x] + v
    BY <2>2, AddingSteps
  <2> QED BY <2>1, <2>3
<1>2. \A x \in S : h[x] \in Int
  OBVIOUS
<1> HIDE DEF S, f
<1>3. \A s \in SUBSET S : s # {} => Chosen(s) \in S /\ s \ {Chosen(s)} \in SUBSET S
  BY DEF Chosen
<1>4. \E g : Adds(h, S, g)
  <2>1. PICK g \in [SUBSET S -> Int] : Accumulates(f, 0, S, g)
    BY <1>1, AccumulatesExists
  <2> DEFINE Body(s) == IF s = {} THEN 0 ELSE h[Chosen(s)] + g[s \ {Chosen(s)}]
  <2>2. ASSUME NEW s \in SUBSET S PROVE g[s] = Body(s)
    <3>1. g[s] = IF s = {} THEN 0 ELSE f[Chosen(s)][g[s \ {Chosen(s)}]]
      BY <2>1 DEF Accumulates
    <3>2. s # {} => g[s \ {Chosen(s)}] \in Int
      BY <1>3, <2>1
    <3> QED BY <1>1, <1>3, <3>1, <3>2
  <2> HIDE DEF Body
  <2>3. g = [s \in SUBSET S |-> Body(s)]
    BY <2>1, <2>2
  <2> QED BY <2>3 DEF Adds, Body
<1>5. ASSUME NEW g, Adds(h, S, g) PROVE g[S] = SumOf(h, S)
  <2>1. \A s \in SUBSET S : g[s] = IF s = {} THEN 0 ELSE h[Chosen(s)] + g[s \ {Chosen(s)}]
    BY <1>5 DEF Adds
  <2>2. Follows(g, f, 0, S)
    BY <1>1, <1>3, <2>1 DEF Follows
  <2>3. g[S] = Accumulated(f, 0, S)
    BY <1>1, <2>2, AccumulatedBy
  <2> QED BY <2>3 DEF SumOf, f
<1> QED BY <1>4, <1>5 DEF S

LEMMA SumAtIs ==
    ASSUME NEW p, NEW w, NEW k, HasBlock(p, w, k), NEW kind, NEW slot \in 1..2
    PROVE  SumAt(p, w, kind, k, slot) = SumOf(Summands(p, w, kind, k, slot), Below(2^Len(p)))
<1> DEFINE n == 2^Len(p)
           S == 0..(n - 1)
           h == Summands(p, w, kind, k, slot)
           Term(c) == WeightOf(p, c, slot) * EntryOf(w, kind, k, n, c)[slot]
           Body(g, s) == IF s = {} THEN 0
                         ELSE Term(CHOOSE x \in s : TRUE) + g[s \ {CHOOSE x \in s : TRUE}]
           Equation(g) == g = [s \in SUBSET S |-> Body(g, s)]
           iter == CHOOSE g : Equation(g)
<1>1. SumAt(p, w, kind, k, slot) = iter[S]
  BY DEF SumAt, MapThenSumSet, MapThenFoldSet
<1>2. /\ S = Below(n) /\ n \in Nat /\ DOMAIN h = Below(n)
      /\ \A x \in Below(n) : h[x] = Term(x) /\ h[x] \in Int
  BY SummandsType DEF Below
<1> HIDE DEF n, S, h, Term
<1>3. \A g : \A s \in SUBSET S :
        Body(g, s) = IF s = {} THEN 0 ELSE h[Chosen(s)] + g[s \ {Chosen(s)}]
  <2>1. \A s \in SUBSET S : s # {} => Chosen(s) \in S
    BY DEF Chosen
  <2> QED BY <1>2, <2>1 DEF Chosen
<1> HIDE DEF Body
<1>4. \A g : Equation(g) <=> Adds(h, S, g)
  BY <1>3 DEF Adds
<1> HIDE DEF Equation
<1>5. Adds(h, S, iter)
  BY <1>2, <1>4, SumSolved
<1> HIDE DEF iter
<1> QED BY <1>1, <1>2, <1>5, SumSolved DEF n, h

\* A sum below n + m, what is below n apart.
LEMMA SumSplits ==
    ASSUME NEW n \in Nat, NEW m \in Nat,
           NEW h, Below(n + m) \subseteq DOMAIN h, \A x \in Below(n + m) : h[x] \in Int,
           NEW u, DOMAIN u = Below(m), \A c \in Below(m) : u[c] = h[n + c]
    PROVE  /\ SumOf(h, Below(n + m)) = SumOf(h, Below(n)) + SumOf(u, Below(m))
           /\ SumOf(h, Below(n)) \in Int /\ SumOf(u, Below(m)) \in Int
<1> DEFINE Good(j) == j <= m => SumOf(h, Below(n + j)) = SumOf(h, Below(n)) + SumOf(u, Below(j))
           Wrong == {j \in Nat : ~Good(j)}
<1>1. \A c \in Below(m) : n + c \in Below(n + m) /\ u[c] \in Int
  <2>1. \A c \in Below(m) : n + c \in Below(n + m)
    BY DEF Below
  <2> QED BY <2>1
<1> HIDE DEF Good
<1>2. ASSUME NEW j \in Nat, j <= m
      PROVE  /\ Below(j) \subseteq DOMAIN u /\ \A x \in Below(j) : u[x] \in Int
             /\ n + j \in Nat
             /\ Below(n + j) \subseteq DOMAIN h /\ \A x \in Below(n + j) : h[x] \in Int
             /\ SumOf(u, Below(j)) \in Int
  <2>1. Below(j) \subseteq Below(m) /\ Below(n + j) \subseteq Below(n + m) /\ n + j \in Nat
    BY <1>2 DEF Below
  <2>2. Below(j) \subseteq DOMAIN u /\ \A x \in Below(j) : u[x] \in Int
    BY <1>1, <2>1
  <2>3. Below(n + j) \subseteq DOMAIN h /\ \A x \in Below(n + j) : h[x] \in Int
    BY <2>1
  <2> QED BY <2>1, <2>2, <2>3, SumBelow
<1>3. SumOf(h, Below(n)) \in Int
  <2>1. Below(n) \subseteq Below(n + m)
    BY DEF Below
  <2>2. Below(n) \subseteq DOMAIN h /\ \A x \in Below(n) : h[x] \in Int
    BY <2>1
  <2> QED BY <2>2, SumBelow
<1>4. ASSUME Wrong # {} PROVE FALSE
  <2>1. PICK j \in Wrong : \A k \in Wrong : j <= k
    <3> HIDE DEF Wrong
    <3>1. Wrong \subseteq Nat
      BY DEF Wrong
    <3> QED BY <1>4, <3>1, LeastNatural
  <2>2. j \in Nat /\ j <= m /\ SumOf(h, Below(n + j)) # SumOf(h, Below(n)) + SumOf(u, Below(j))
    BY <2>1 DEF Good
  <2>3. j # 0
    <3>1. SumOf(u, Below(0)) = 0
      <4>1. Below(0) \subseteq DOMAIN u /\ \A x \in Below(0) : u[x] \in Int
        BY BelowNext
      <4> QED BY <4>1, SumBelow
    <3>2. n + 0 = n
      OBVIOUS
    <3> QED BY <1>3, <2>2, <3>1, <3>2
  <2> DEFINE l == j - 1
  <2>4. l \in Nat /\ j = l + 1 /\ l <= m /\ ~(j <= l) /\ l \in Below(m) /\ n + j = (n + l) + 1
        /\ n + l \in Nat /\ n + j \in Nat
    BY <2>2, <2>3 DEF Below
  <2> HIDE DEF l
  <2>5. SumOf(h, Below(n + l)) = SumOf(h, Below(n)) + SumOf(u, Below(l))
    <3>1. Good(l)
      BY <2>1, <2>4
    <3> QED BY <2>4, <3>1 DEF Good
  <2>6. SumOf(h, Below(n + j)) = h[n + l] + SumOf(h, Below(n + l))
    BY <1>2, <2>2, <2>4, SumBelow
  <2>7. SumOf(u, Below(j)) = u[l] + SumOf(u, Below(l))
    BY <1>2, <2>2, <2>4, SumBelow
  <2>8. SumOf(u, Below(l)) \in Int
    BY <1>2, <2>4
  <2>9. u[l] = h[n + l] /\ u[l] \in Int
    BY <1>1, <2>4
  <2> QED BY <1>3, <2>2, <2>5, <2>6, <2>7, <2>8, <2>9
<1>5. Good(m)
  BY <1>4
<1>6. SumOf(u, Below(m)) \in Int
  BY <1>2
<1> QED BY <1>3, <1>5, <1>6 DEF Good

\* A sum below twice a number, halves apart.
LEMMA SumOfHalves ==
    ASSUME NEW n \in Nat, NEW h, DOMAIN h = Below(2 * n), \A x \in Below(2 * n) : h[x] \in Int
    PROVE  SumOf(h, Below(2 * n)) =
             SumOf(h, Below(n)) + SumOf([c \in Below(n) |-> h[n + c]], Below(n))
<1> DEFINE u == [c \in Below(n) |-> h[n + c]]
<1>1. n + n = 2 * n /\ DOMAIN u = Below(n) /\ \A c \in Below(n) : u[c] = h[n + c]
  OBVIOUS
<1> HIDE DEF u
<1>2. SumOf(h, Below(n + n)) = SumOf(h, Below(n)) + SumOf(u, Below(n))
  BY <1>1, SumSplits
<1> QED BY <1>1, <1>2 DEF u

\* What all summands are multiples of, modulo the prime, the sum is one of.
LEMMA SumScales ==
    ASSUME NEW n \in Nat, NEW a \in Int,
           NEW h, Below(n) \subseteq DOMAIN h, \A x \in Below(n) : h[x] \in Int,
           NEW g, Below(n) \subseteq DOMAIN g, \A x \in Below(n) : g[x] \in Int,
           \A x \in Below(n) : Congruent(h[x], a * g[x])
    PROVE  Congruent(SumOf(h, Below(n)), a * SumOf(g, Below(n)))
<1> DEFINE Good(m) == m <= n => Congruent(SumOf(h, Below(m)), a * SumOf(g, Below(m)))
           Wrong == {m \in Nat : ~Good(m)}
<1> HIDE DEF Good
<1>1. ASSUME Wrong # {} PROVE FALSE
  <2>1. PICK m \in Wrong : \A j \in Wrong : m <= j
    <3> HIDE DEF Wrong
    <3>1. Wrong \subseteq Nat
      BY DEF Wrong
    <3> QED BY <1>1, <3>1, LeastNatural
  <2>2. m \in Nat /\ m <= n /\ ~Congruent(SumOf(h, Below(m)), a * SumOf(g, Below(m)))
    BY <2>1 DEF Good
  <2>3. \A j \in Nat : j <= n => Below(j) \subseteq Below(n)
    BY DEF Below
  <2>4. m # 0
    <3>1. SumOf(h, Below(0)) = 0 /\ SumOf(g, Below(0)) = 0
      <4>1. /\ Below(0) \subseteq DOMAIN h /\ \A x \in Below(0) : h[x] \in Int
            /\ Below(0) \subseteq DOMAIN g /\ \A x \in Below(0) : g[x] \in Int
        BY BelowNext
      <4> QED BY <4>1, SumBelow
    <3>2. a * 0 = 0 /\ Congruent(0, 0)
      BY CongruentSame
    <3> QED BY <2>2, <3>1, <3>2
  <2> DEFINE l == m - 1
  <2>5. l \in Nat /\ m = l + 1 /\ l <= n /\ ~(m <= l) /\ l \in Below(n)
    BY <2>2, <2>4 DEF Below
  <2> HIDE DEF l
  <2>6. Congruent(SumOf(h, Below(l)), a * SumOf(g, Below(l)))
    <3>1. Good(l)
      BY <2>1, <2>5
    <3> QED BY <2>5, <3>1 DEF Good
  <2>7. /\ Below(m) \subseteq DOMAIN h /\ \A x \in Below(m) : h[x] \in Int
        /\ Below(m) \subseteq DOMAIN g /\ \A x \in Below(m) : g[x] \in Int
        /\ Below(l) \subseteq DOMAIN h /\ \A x \in Below(l) : h[x] \in Int
        /\ Below(l) \subseteq DOMAIN g /\ \A x \in Below(l) : g[x] \in Int
    BY <2>2, <2>3, <2>5
  <2>8. SumOf(h, Below(m)) = h[l] + SumOf(h, Below(l)) /\ SumOf(g, Below(m)) = g[l] + SumOf(g, Below(l))
    BY <2>2, <2>5, <2>7, SumBelow
  <2>9. PICK s \in Int : s = SumOf(h, Below(l))
    BY <2>5, <2>7, SumBelow
  <2>10. PICK t \in Int : t = SumOf(g, Below(l))
    BY <2>5, <2>7, SumBelow
  <2>11. h[l] \in Int /\ g[l] \in Int /\ Congruent(h[l], a * g[l])
    BY <2>5
  <2>12. a * g[l] \in Int /\ a * t \in Int /\ a * (g[l] + t) = a * g[l] + a * t
    <3>1. \A v \in Int : a * v \in Int /\ a * (v + t) = a * v + a * t
      BY Ints
    <3> QED BY <2>11, <3>1
  <2>13. Congruent(h[l] + s, a * g[l] + a * t)
    BY <2>6, <2>9, <2>10, <2>11, <2>12, CongruentSum
  <2> QED BY <2>2, <2>8, <2>9, <2>10, <2>12, <2>13
<1>2. Good(n)
  BY <1>1
<1> QED BY <1>2 DEF Good

LEMMA AtSlots ==
    ASSUME NEW low \in Ring, NEW high \in Ring, NEW r \in Ring, NEW slot \in 1..2
    PROVE  At(low, high, r)[slot] = (low[slot] + r[slot] * (high[slot] - low[slot])) % Modulus
BY DEF At

\* Folding by a coordinate more is folding neighbours of the fold so far: entry k
\* is made of the entries 2 k - 1 and 2 k.
LEMMA ExtensionFolds ==
    ASSUME NEW p, NEW w, NEW k, HasBlock(p, w, 2 * k), k \in Nat, k >= 1, Len(p) + 1 <= Len(w),
           NEW r \in Ring, NEW kind, NEW slot \in 1..2
    PROVE  /\ SumAt(p, w, kind, 2 * k - 1, slot) \in Int
           /\ SumAt(p, w, kind, 2 * k, slot) \in Int
           /\ SumAt(Append(p, r), w, kind, k, slot) \in Int
           /\ Congruent(SumAt(Append(p, r), w, kind, k, slot),
                        SumAt(p, w, kind, 2 * k - 1, slot)
                          + r[slot] * (SumAt(p, w, kind, 2 * k, slot)
                                         - SumAt(p, w, kind, 2 * k - 1, slot)))
<1> DEFINE n == 2^Len(p)
           q == Append(p, r)
           lo == Summands(p, w, kind, 2 * k - 1, slot)
           hi == Summands(p, w, kind, 2 * k, slot)
           both == Summands(q, w, kind, k, slot)
           upper == [c \in Below(n) |-> both[n + c]]
           x == r[slot]
           y == 1 - r[slot]
<1>1. /\ w \in Witnesses /\ p \in Seq(Ring) /\ Len(p) <= Len(w) /\ (2 * k) * n <= Len(w)
      /\ Len(w) \in Nat /\ Len(p) \in Nat
  BY WitnessLength DEF HasBlock
<1>2. q \in Seq(Ring) /\ Len(q) = Len(p) + 1
  BY <1>1
<1>3. n \in Nat /\ n >= 1 /\ 2^Len(q) = 2 * n
  <2>1. Len(p) \in 0..Len(w) /\ Len(p) \in 0..(Len(w) + 1)
    BY <1>1
  <2> QED BY <1>1, <1>2, <2>1, PowersPositive, PowersAssumption
<1> HIDE DEF n, q
<1>4. k * (2 * n) = (2 * k) * n /\ (2 * k - 1) * n = (2 * k) * n - n
      /\ (2 * k) * n \in Nat /\ (2 * k - 1) * n \in Nat
  BY <1>3
<1>5. HasBlock(p, w, 2 * k - 1)
  <2>1. 2 * k - 1 \in Nat /\ 2 * k - 1 >= 1 /\ (2 * k - 1) * n <= Len(w)
    BY <1>1, <1>3, <1>4
  <2> QED BY <1>1, <2>1 DEF HasBlock, n
<1>6. HasBlock(q, w, k)
  <2>1. k * 2^Len(q) <= Len(w) /\ Len(q) <= Len(w)
    BY <1>1, <1>2, <1>3, <1>4
  <2> QED BY <1>1, <1>2, <2>1 DEF HasBlock
<1>7. x \in Int /\ y \in Int
  <2>1. \A z \in Ring : z[1] \in Int /\ z[2] \in Int
    BY RingParts
  <2>2. x \in Int
    BY <2>1
  <2> QED BY <2>2
<1>8. /\ DOMAIN lo = Below(n) /\ \A c \in Below(n) : lo[c] \in Int
           /\ lo[c] = WeightOf(p, c, slot) * EntryOf(w, kind, 2 * k - 1, n, c)[slot]
  BY <1>5, SummandsType DEF n
<1>9. /\ DOMAIN hi = Below(n) /\ \A c \in Below(n) : hi[c] \in Int
           /\ hi[c] = WeightOf(p, c, slot) * EntryOf(w, kind, 2 * k, n, c)[slot]
  BY SummandsType DEF n
<1>10. /\ DOMAIN both = Below(2 * n) /\ \A c \in Below(2 * n) : both[c] \in Int
           /\ both[c] = WeightOf(q, c, slot) * EntryOf(w, kind, k, 2 * n, c)[slot]
  <2>1. /\ DOMAIN both = Below(2^Len(q)) /\ \A c \in Below(2^Len(q)) : both[c] \in Int
           /\ both[c] = WeightOf(q, c, slot) * EntryOf(w, kind, k, 2^Len(q), c)[slot]
    BY <1>6, SummandsType
  <2> HIDE DEF both
  <2> QED BY <1>3, <2>1
<1>11. SumAt(p, w, kind, 2 * k - 1, slot) = SumOf(lo, Below(n))
  BY <1>5, SumAtIs DEF n
<1>12. SumAt(p, w, kind, 2 * k, slot) = SumOf(hi, Below(n))
  BY SumAtIs DEF n
<1>13. SumAt(q, w, kind, k, slot) = SumOf(both, Below(2 * n))
  <2>1. SumAt(q, w, kind, k, slot) = SumOf(both, Below(2^Len(q)))
    BY <1>6, SumAtIs
  <2> HIDE DEF both
  <2> QED BY <1>3, <2>1
\* The two neighbours' entries are the lower and the upper half of the block.
<1>14. \A c \in Below(n) :
         /\ c \in Below(2 * n) /\ n + c \in Below(2 * n)
         /\ EntryOf(w, kind, k, 2 * n, c) = EntryOf(w, kind, 2 * k - 1, n, c)
         /\ EntryOf(w, kind, k, 2 * n, n + c) = EntryOf(w, kind, 2 * k, n, c)
  <2> TAKE c \in Below(n)
  <2>1. c \in Nat /\ c < n
    BY <1>3 DEF Below
  <2>2. (k - 1) * (2 * n) = (2 * k) * n - 2 * n /\ ((2 * k - 1) - 1) * n = (2 * k) * n - 2 * n
    BY <1>3
  <2>3. (k - 1) * (2 * n) + c + 1 = ((2 * k - 1) - 1) * n + c + 1
    BY <2>2
  <2>4. (k - 1) * (2 * n) + (n + c) + 1 = (2 * k - 1) * n + c + 1
    BY <1>3, <1>4, <2>1, <2>2
  <2>5. c \in Below(2 * n) /\ n + c \in Below(2 * n)
    BY <1>3, <2>1 DEF Below
  <2> QED BY <2>3, <2>4, <2>5 DEF EntryOf
\* And their weights are what is below, times what the coordinate gives each half.
<1>15. \A c \in Below(n) :
         /\ WeightOf(p, c, slot) \in Int
         /\ WeightOf(q, c, slot) = (WeightOf(p, c, slot) * y) % Modulus
         /\ WeightOf(q, n + c, slot) = (WeightOf(p, c, slot) * x) % Modulus
  <2> TAKE c \in Below(n)
  <2>1. c \in Below(2^Len(p)) /\ 0 \in 0..1 /\ 1 \in 0..1
    BY DEF n
  <2>2. /\ WeightOf(p, c, slot) \in Int
        /\ WeightOf(q, 0 * n + c, slot) = (WeightOf(p, c, slot) * y) % Modulus
    BY <1>1, <2>1, WeightOfMore DEF n, q
  <2>3. WeightOf(q, 1 * n + c, slot) = (WeightOf(p, c, slot) * x) % Modulus
    BY <1>1, <2>1, WeightOfMore DEF n, q
  <2>4. 0 * n + c = c /\ 1 * n + c = n + c
    BY <1>3 DEF Below
  <2> QED BY <2>2, <2>3, <2>4
<1>16. \A c \in Below(n) : upper[c] = both[n + c] /\ upper[c] \in Int
  BY <1>10, <1>14
<1>17. DOMAIN upper = Below(n)
  OBVIOUS
<1> HIDE DEF lo, hi, both, x, y
<1>18. \A a, b, e \in Int : Congruent(((a * b) % Modulus) * e, b * (a * e))
  <2> TAKE a, b, e \in Int
  <2>1. PICK t \in Int : t = a * b
    BY Ints
  <2>2. t % Modulus \in Int /\ Congruent(t % Modulus, t)
    BY Reducing
  <2>3. Congruent((t % Modulus) * e, t * e)
    BY <2>2, CongruentProduct
  <2>4. t * e = b * (a * e)
    <3>1. (a * b) * e = (b * a) * e /\ (b * a) * e = b * (a * e)
      BY Ints
    <3> QED BY <2>1, <3>1
  <2> QED BY <2>1, <2>3, <2>4
<1>19. \A c \in Below(n) : Congruent(both[c], y * lo[c])
  <2> TAKE c \in Below(n)
  <2>1. PICK a \in Int : a = WeightOf(p, c, slot)
    BY <1>15
  <2>2. PICK e \in Int : e = EntryOf(w, kind, 2 * k - 1, n, c)[slot]
    BY <1>5, EntryType DEF n
  <2>3. both[c] = ((a * y) % Modulus) * e /\ lo[c] = a * e
    BY <1>8, <1>10, <1>14, <1>15, <2>1, <2>2
  <2> QED BY <1>7, <1>18, <2>3
<1>20. \A c \in Below(n) : Congruent(upper[c], x * hi[c])
  <2> TAKE c \in Below(n)
  <2>1. PICK a \in Int : a = WeightOf(p, c, slot)
    BY <1>15
  <2>2. PICK e \in Int : e = EntryOf(w, kind, 2 * k, n, c)[slot]
    BY EntryType DEF n
  <2>3. upper[c] = ((a * x) % Modulus) * e /\ hi[c] = a * e
    BY <1>9, <1>10, <1>14, <1>15, <1>16, <2>1, <2>2
  <2> QED BY <1>7, <1>18, <2>3
<1>21. SumOf(both, Below(2 * n)) = SumOf(both, Below(n)) + SumOf(upper, Below(n))
  BY <1>3, <1>10, SumOfHalves
<1> HIDE DEF upper
<1>22. Below(n) \subseteq DOMAIN both /\ \A c \in Below(n) : both[c] \in Int
  BY <1>10, <1>14
<1>23. PICK A \in Int : A = SumOf(lo, Below(n))
  BY <1>3, <1>8, SumBelow
<1>24. PICK B \in Int : B = SumOf(hi, Below(n))
  BY <1>3, <1>9, SumBelow
<1>25. PICK C \in Int : C = SumOf(both, Below(n))
  BY <1>3, <1>22, SumBelow
<1>26. PICK D \in Int : D = SumOf(upper, Below(n))
  BY <1>3, <1>16, <1>17, SumBelow
<1>27. Congruent(C, y * A)
  BY <1>3, <1>7, <1>8, <1>19, <1>22, <1>23, <1>25, SumScales
<1>28. Congruent(D, x * B)
  BY <1>3, <1>7, <1>9, <1>16, <1>17, <1>20, <1>24, <1>26, SumScales
<1>29. y * A \in Int /\ x * B \in Int /\ C + D \in Int
  BY <1>7, Ints
<1>30. Congruent(C + D, y * A + x * B)
  BY <1>27, <1>28, <1>29, CongruentSum
<1>31. y * A + x * B = A + x * (B - A)
  <2>1. y = 1 - x
    BY DEF x, y
  <2>2. (1 - x) * A = 1 * A - x * A /\ x * (B - A) = x * B - x * A /\ 1 * A = A
        /\ x * A \in Int /\ x * B \in Int
    BY <1>7, Ints
  <2> QED BY <2>1, <2>2
<1> QED BY <1>11, <1>12, <1>13, <1>21, <1>23, <1>24, <1>25, <1>26, <1>29, <1>30, <1>31 DEF q, x

\* Two entries of the fold so far give one of the fold by a coordinate more.
LEMMA ExtensionOfMore ==
    ASSUME NEW p, NEW w, NEW k \in Nat, k >= 1, Len(p) + 1 <= Len(w),
           NEW i, i = 2 * k - 1, NEW j, j = 2 * k, HasBlock(p, w, j),
           NEW r \in Ring, NEW kind,
           NEW low \in Ring, low = ExtensionOf(p, w, kind, i),
           NEW high \in Ring, high = ExtensionOf(p, w, kind, j)
    PROVE  ExtensionOf(Append(p, r), w, kind, k) = At(low, high, r)
<1>0. HasBlock(p, w, 2 * k)
  OBVIOUS
<1>1. ASSUME NEW slot \in 1..2
      PROVE  SumAt(Append(p, r), w, kind, k, slot) % Modulus
               = (low[slot] + r[slot] * (high[slot] - low[slot])) % Modulus
  <2>1. PICK a \in Int : a = SumAt(p, w, kind, 2 * k - 1, slot)
    BY <1>0, ExtensionFolds
  <2>2. PICK b \in Int : b = SumAt(p, w, kind, 2 * k, slot)
    BY <1>0, ExtensionFolds
  <2>3. PICK c \in Int : c = SumAt(Append(p, r), w, kind, k, slot)
    BY <1>0, ExtensionFolds
  <2>4. PICK x \in Int : x = r[slot]
    <3>1. \A z \in Ring : z[1] \in Int /\ z[2] \in Int
      BY RingParts
    <3> QED BY <3>1
  <2>5. Congruent(c, a + x * (b - a))
    BY <2>1, <2>2, <2>3, <2>4, <1>0, ExtensionFolds
  <2>6. low[slot] = a % Modulus /\ high[slot] = b % Modulus
    BY <2>1, <2>2 DEF ExtensionOf
  <2>7. PICK l \in Int : l = a % Modulus /\ Congruent(l, a)
    BY Reducing
  <2>8. PICK h \in Int : h = b % Modulus /\ Congruent(h, b)
    BY Reducing
\* low + r (high - low) is taken as (1 - r) low + r high.
  <2> DEFINE y == 1 - x
  <2>9. /\ y \in Int /\ y * l \in Int /\ x * h \in Int /\ y * a \in Int /\ x * b \in Int
    <3>1. y \in Int
      OBVIOUS
    <3> HIDE DEF y
    <3> QED BY <3>1, Ints
  <2>10. \A u, v \in Int : y * u + x * v = u + x * (v - u)
    <3> TAKE u, v \in Int
    <3>1. 1 \in Int /\ 1 * u = u
      OBVIOUS
    <3>2. y * u = 1 * u - x * u /\ x * (v - u) = x * v - x * u /\ x * u \in Int /\ x * v \in Int
      BY <3>1, Ints
    <3> QED BY <3>1, <3>2
  <2> HIDE DEF y
  <2>11. Congruent(y * l, y * a) /\ Congruent(x * h, x * b)
    BY <2>7, <2>8, <2>9, CongruentProduct
  <2>12. Congruent(y * l + x * h, y * a + x * b)
    BY <2>9, <2>11, CongruentSum
  <2>13. PICK s \in Int : s = y * l + x * h
    BY <2>9
  <2>14. PICK t \in Int : t = y * a + x * b
    BY <2>9
  <2>15. Congruent(t, s)
    BY <2>12, <2>13, <2>14, CongruentBack
  <2>16. Congruent(c, t)
    BY <2>5, <2>10, <2>14
  <2>17. Congruent(c, s)
    BY <2>15, <2>16, CongruentTo
  <2>18. c % Modulus = s % Modulus
    BY <2>17, ReducedAlike
  <2>19. s = low[slot] + r[slot] * (high[slot] - low[slot])
    <3>1. s = l + x * (h - l)
      BY <2>10, <2>13
    <3>2. low[slot] = l /\ high[slot] = h
      BY <2>6, <2>7, <2>8
    <3> QED BY <2>4, <3>1, <3>2, Zenon
  <2> QED BY <2>3, <2>18, <2>19
<1> QED BY <1>1 DEF ExtensionOf, At

\* Without a challenge the extension is the table itself.
LEMMA ExtensionAtFirst ==
    ASSUME NEW w \in Witnesses, NEW k \in 1..Len(w), NEW kind
    PROVE  ExtensionOf(<<>>, w, kind, k) = Conjugated(kind, w[k])
<1> DEFINE p == <<>>
<1>1. w \in Seq(Ring) /\ Len(w) \in Nat /\ k \in Nat /\ k >= 1
  BY WitnessLength
<1>2. p \in Seq(Ring) /\ Len(p) = 0 /\ 2^Len(p) = 1 /\ Len(p) \in Nat
  OBVIOUS
<1>3. HasBlock(p, w, k)
  BY <1>1, <1>2 DEF HasBlock
<1>4. PICK x \in Ring : x = Conjugated(kind, w[k])
  BY <1>1, ConjugatedInRing
<1>5. x[1] \in Field /\ x[2] \in Field /\ x = <<x[1], x[2]>>
  BY RingParts
<1>6. EntryOf(w, kind, k, 1, 0) = x
  <2>1. (k - 1) * 1 + 0 + 1 = k
    BY <1>1
  <2> QED BY <1>4, <2>1 DEF EntryOf
<1> HIDE DEF p
<1>7. ASSUME NEW slot \in 1..2
      PROVE  SumAt(p, w, kind, k, slot) % Modulus = x[slot]
  <2> DEFINE h == Summands(p, w, kind, k, slot)
             one == Factors(p, 0, slot)
  <2>1. 0 \in Below(1) /\ Below(0) = {} /\ 1 = 0 + 1
    BY BelowNext
  <2>2. x[slot] \in Field /\ x[slot] \in Int
    <3>1. \A y \in Field : y \in Int
      BY RingParts
    <3> QED BY <1>5, <3>1
  <2>3. WeightOf(p, 0, slot) = 1
    <3>1. WeightOf(p, 0, slot) = ProductOf(one, 0)
      BY <1>2, WeightIs
    <3>2. DOMAIN one = 1..0 /\ \A j \in 1..0 : one[j] \in Int
      BY <1>2, FactorsType
    <3> HIDE DEF one
    <3>3. ProductOf(one, 0) = 1
      BY <3>2, ProductUpto
    <3> QED BY <3>1, <3>3
  <2>4. DOMAIN h = Below(1) /\ \A c \in Below(1) : h[c] \in Int
        /\ h[c] = WeightOf(p, c, slot) * EntryOf(w, kind, k, 1, c)[slot]
    <3>1. DOMAIN h = Below(2^Len(p)) /\ \A c \in Below(2^Len(p)) : h[c] \in Int
          /\ h[c] = WeightOf(p, c, slot) * EntryOf(w, kind, k, 2^Len(p), c)[slot]
      BY <1>3, SummandsType
    <3> HIDE DEF h
    <3> QED BY <1>2, <3>1
  <2>5. h[0] = x[slot]
    <3>1. h[0] = 1 * x[slot]
      BY <1>6, <2>1, <2>3, <2>4
    <3> HIDE DEF h
    <3> QED BY <2>2, <3>1
  <2>6. SumAt(p, w, kind, k, slot) = SumOf(h, Below(1))
    <3>1. SumAt(p, w, kind, k, slot) = SumOf(h, Below(2^Len(p)))
      BY <1>3, SumAtIs
    <3> QED BY <1>2, <3>1
  <2> HIDE DEF h
  <2>7. SumOf(h, Below(1)) = h[0] + SumOf(h, Below(0))
    <3>1. Below(1) \subseteq DOMAIN h /\ 1 \in Nat /\ 0 \in Nat
      BY <2>4
    <3> QED BY <2>1, <2>4, <3>1, SumBelow
  <2>8. SumOf(h, Below(0)) = 0
    <3>1. Below(0) \subseteq DOMAIN h /\ \A y \in Below(0) : h[y] \in Int
      BY <2>1
    <3> QED BY <3>1, SumBelow
  <2>9. SumOf(h, Below(1)) = x[slot]
    BY <2>2, <2>5, <2>7, <2>8
  <2> QED BY <2>2, <2>6, <2>9, ReducedIsItself
<1>8. ExtensionOf(p, w, kind, k) = [slot \in 1..2 |-> x[slot]]
  BY <1>7 DEF ExtensionOf
<1>9. [slot \in 1..2 |-> x[slot]] = x
  BY <1>5
<1> QED BY <1>4, <1>8, <1>9 DEF p

-----------------------------------------------------------------------------
(***************************************************************************)
(* What every table holds.                                                 *)
(***************************************************************************)
\* The condition by which TailStart is chosen.
IsTail(end, p, w) ==
    /\ end \in 0..Len(w)
    /\ end * 2^Len(p) >= Used(w)
    /\ (end - 1) * 2^Len(p) < Used(w)

\* A table's entries, as they are read: the extension, and zero from its end on.
FoldsTo(entries, end, kind, p, w) ==
    /\ entries \in Seq(Ring)
    /\ Len(entries) * 2^Len(p) = Len(w)
    /\ \A k \in 1..Len(entries) : entries[k] = ExtensionOf(p, w, kind, k)
    /\ IsTail(end, p, w)
    /\ \A k \in (end + 1)..Len(entries) : entries[k] = Zero

\* Its variables are those that are left.
Keeps(t, kind, p, w) ==
    /\ FoldsTo(Entries(t), t.end, kind, p, w)
    /\ t.vars \in Nat /\ t.vars <= Len(w) /\ Len(t.data) = 2^t.vars

TablesKeep ==
    \A kind \in Kinds : \A i \in DOMAIN tables[kind] :
      Keeps(tables[kind][i], kind, points, witness)

\* Tables that look into the same memory see the same; one's own is read as it is.
MemoryAlike ==
    /\ \A kind \in Kinds : \A i \in DOMAIN tables[kind] :
         /\ tables[kind][i].memory = Caller => tables[kind][i].data = witness
         /\ tables[kind][i].memory = Own => ~tables[kind][i].mapped
    /\ FirstsShare => tables["witness"][1].data = tables["conjugate"][1].data

FoldInv == ViewInv /\ TablesKeep /\ MemoryAlike

-----------------------------------------------------------------------------
LEMMA UsedIs ==
    ASSUME NEW w \in Witnesses
    PROVE  /\ Used(w) \in 0..Len(w)
           /\ \A k \in 1..Len(w) : k > Used(w) => w[k] = Zero
<1> DEFINE T == {0} \cup {i \in DOMAIN w : w[i] # Zero}
<1>1. w \in Seq(Ring) /\ Len(w) \in Nat /\ DOMAIN w = 1..Len(w)
  BY WitnessLength
<1>2. T \subseteq 0..Len(w) /\ 0 \in T
  BY <1>1
<1>3. Max(T) \in T
  <2> HIDE DEF T
  <2> QED BY <1>1, <1>2, LargestNatural
<1>4. \A y \in T : Max(T) >= y
  <2>1. IsFiniteSet(T)
    <3> HIDE DEF T
    <3>1. IsFiniteSet(0..Len(w))
      BY <1>1, FS_Interval
    <3> QED BY <1>2, <3>1, FS_Subset
  <2> DEFINE gaps == {Len(w) - y : y \in T}
  <2>2. gaps \subseteq Nat /\ gaps # {}
    BY <1>1, <1>2
  <2>3. PICK g \in gaps : \A e \in gaps : g <= e
    <3> HIDE DEF gaps
    <3> QED BY <2>2, LeastNatural
  <2>4. PICK x \in T : g = Len(w) - x
    OBVIOUS
  <2>5. ASSUME NEW y \in T PROVE x >= y
    <3>1. Len(w) - y \in gaps /\ x \in 0..Len(w) /\ y \in 0..Len(w)
      BY <1>2
    <3> HIDE DEF gaps, T
    <3> QED BY <1>1, <2>3, <2>4, <3>1
  <2> HIDE DEF T
  <2>6. \E z \in T : \A y \in T : z >= y
    BY <2>5
  <2> QED BY <2>6 DEF Max
<1>5. Used(w) = Max(T)
  BY DEF Used
<1>6. \A k \in 1..Len(w) : w[k] # Zero => k \in T
  BY <1>1
<1>7. Used(w) \in 0..Len(w)
  <2> HIDE DEF T
  <2> QED BY <1>2, <1>3, <1>5
<1> HIDE DEF T
<1>8. \A k \in 1..Len(w) : k > Used(w) => w[k] = Zero
  <2> SUFFICES ASSUME NEW k \in 1..Len(w), k > Used(w), w[k] # Zero PROVE FALSE
    OBVIOUS
  <2>1. Used(w) >= k
    BY <1>4, <1>5, <1>6
  <2> QED BY <1>1, <1>7, <2>1
<1> QED BY <1>7, <1>8

\* There is one such end.
LEMMA TailAlone ==
    ASSUME NEW w \in Witnesses, NEW p, NEW a, IsTail(a, p, w), NEW b, IsTail(b, p, w),
           2^Len(p) \in Nat
    PROVE  a = b
<1> DEFINE n == 2^Len(p)
           u == Used(w)
<1>1. Len(w) \in Nat /\ u \in Int
  BY WitnessLength, UsedIs
<1>2. n \in Nat /\ a \in Nat /\ b \in Nat /\ a * n >= u /\ b * n >= u
      /\ (a - 1) * n < u /\ (b - 1) * n < u
  BY <1>1 DEF IsTail
<1> HIDE DEF n, u
<1>3. \A x, y \in Nat : x < y => x * n <= (y - 1) * n
  <2> SUFFICES ASSUME NEW x \in Nat, NEW y \in Nat, x < y PROVE x * n <= (y - 1) * n
    OBVIOUS
  <2>1. (y - 1) - x \in Nat /\ y - 1 \in Int
    OBVIOUS
  <2>2. ((y - 1) - x) * n \in Nat
    BY <1>2, <2>1
  <2>3. ((y - 1) - x) * n = (y - 1) * n - x * n /\ (y - 1) * n \in Int /\ x * n \in Int
    <3>1. \A d \in Int : (d - x) * n = d * n - x * n /\ d * n \in Int /\ x * n \in Int
      BY <1>2, Ints
    <3> QED BY <2>1, <3>1
  <2> QED BY <2>2, <2>3
<1>4. a * n \in Int /\ b * n \in Int /\ (a - 1) * n \in Int /\ (b - 1) * n \in Int
  BY <1>2
<1>5. ~(a < b)
  <2>1. a < b => a * n <= (b - 1) * n
    BY <1>2, <1>3
  <2> QED BY <1>1, <1>2, <1>4, <2>1
<1>6. ~(b < a)
  <2>1. b < a => b * n <= (a - 1) * n
    BY <1>2, <1>3
  <2> QED BY <1>1, <1>2, <1>4, <2>1
<1> QED BY <1>2, <1>5, <1>6

\* Folding halves the end as it halves the table, rounding up.
LEMMA TailHalves ==
    ASSUME NEW w \in Witnesses, NEW p \in Seq(Ring), Len(p) + 1 <= Len(w), NEW r \in Ring,
           NEW end, IsTail(end, p, w)
    PROVE  /\ end \in Nat /\ (end + 1) \div 2 \in Nat
           /\ IsTail((end + 1) \div 2, Append(p, r), w)
           /\ \A half \in Nat : (2 * half) * 2^Len(p) = Len(w) => (end + 1) \div 2 <= half
           /\ \A k \in Nat : k > (end + 1) \div 2 => 2 * k - 1 > end /\ 2 * k > end
<1> DEFINE n == 2^Len(p)
           u == Used(w)
           e == (end + 1) \div 2
<1>1. Len(w) \in Nat /\ Len(p) \in Nat /\ u \in Int /\ u <= Len(w) /\ 0 <= u
  BY WitnessLength, UsedIs
<1>2. /\ n \in Nat /\ n >= 1 /\ 2^(Len(p) + 1) = 2 * n /\ Len(Append(p, r)) = Len(p) + 1
      /\ end \in 0..Len(w) /\ end * n >= u /\ (end - 1) * n < u
  <2>1. Len(p) \in 0..Len(w) /\ Len(p) \in 0..(Len(w) + 1)
    BY <1>1
  <2>2. n \in Nat /\ n >= 1 /\ 2^(Len(p) + 1) = 2 * n
    BY <2>1, PowersPositive, PowersAssumption
  <2>3. Len(Append(p, r)) = Len(p) + 1
    OBVIOUS
  <2>4. end \in 0..Len(w) /\ end * n >= u /\ (end - 1) * n < u
    BY DEF IsTail
  <2> HIDE DEF n, u
  <2> QED BY <2>2, <2>3, <2>4
<1> HIDE DEF n, u
<1>3. e \in Nat /\ end <= 2 * e /\ 2 * e <= end + 1 /\ e <= end
  BY <1>2
<1> HIDE DEF e
<1>4. \A x, y \in Int : x <= y => x * n <= y * n
  <2> SUFFICES ASSUME NEW x \in Int, NEW y \in Int, x <= y PROVE x * n <= y * n
    OBVIOUS
  <2>1. y - x \in Nat
    OBVIOUS
  <2>2. (y - x) * n \in Nat
    BY <1>2, <2>1
  <2>3. (y - x) * n = y * n - x * n /\ y * n \in Int /\ x * n \in Int
    BY <1>2, Ints
  <2> QED BY <2>2, <2>3
<1>5. e * (2 * n) = (2 * e) * n /\ (e - 1) * (2 * n) = (2 * (e - 1)) * n
  BY <1>2, <1>3
<1>6. 2 * e \in Int /\ 2 * (e - 1) \in Int /\ end \in Int /\ end - 1 \in Int
      /\ end <= 2 * e /\ 2 * (e - 1) <= end - 1 /\ end - 1 \in Int
  BY <1>2, <1>3
<1>7. end * n <= (2 * e) * n /\ (2 * (e - 1)) * n <= (end - 1) * n
  BY <1>4, <1>6
<1>8. /\ end * n \in Int /\ (2 * e) * n \in Int /\ (2 * (e - 1)) * n \in Int /\ (end - 1) * n \in Int
  BY <1>2, <1>6
<1>9. (2 * e) * n >= u /\ (2 * (e - 1)) * n < u
  BY <1>1, <1>2, <1>7, <1>8
<1>10. e \in 0..Len(w)
  BY <1>1, <1>2, <1>3
<1>11. IsTail(e, Append(p, r), w)
  BY <1>2, <1>5, <1>9, <1>10 DEF IsTail, u
<1>12. \A half \in Nat : (2 * half) * n = Len(w) => e <= half
  <2> SUFFICES ASSUME NEW half \in Nat, (2 * half) * n = Len(w), half < e PROVE FALSE
    BY <1>3
  <2>1. 2 * half <= 2 * (e - 1) /\ 2 * half \in Int
    BY <1>3
  <2>2. (2 * half) * n <= (2 * (e - 1)) * n
    BY <1>4, <1>6, <2>1
  <2> QED BY <1>1, <1>8, <1>9, <2>2
<1>13. \A k \in Nat : k > e => 2 * k - 1 > end /\ 2 * k > end
  BY <1>2, <1>3
<1> QED BY <1>2, <1>3, <1>11, <1>12, <1>13 DEF n, e

\* The fold of a table that holds the extension holds it for a coordinate more.
LEMMA FoldFolds ==
    ASSUME NEW w \in Witnesses, NEW p \in Seq(Ring), Len(p) + 1 <= Len(w), NEW r \in Ring,
           NEW kind, NEW half \in Nat \ {0},
           NEW entries, Len(entries) = 2 * half,
           NEW end, FoldsTo(entries, end, kind, p, w)
    PROVE  FoldsTo(FoldOf(entries, (end + 1) \div 2, r), (end + 1) \div 2, kind, Append(p, r), w)
<1> DEFINE e == (end + 1) \div 2
           folded == FoldOf(entries, e, r)
           n == 2^Len(p)
<1>1. /\ entries \in Seq(Ring) /\ (2 * half) * n = Len(w) /\ IsTail(end, p, w)
      /\ Len(w) \in Nat /\ Len(p) \in Nat /\ (2 * half) \div 2 = half
  BY WitnessLength DEF FoldsTo
<1>2. /\ n \in Nat /\ 2^(Len(p) + 1) = 2 * n /\ Len(Append(p, r)) = Len(p) + 1
  <2>1. Len(p) \in 0..Len(w) /\ Len(p) \in 0..(Len(w) + 1)
    BY <1>1
  <2>2. n \in Nat /\ 2^(Len(p) + 1) = 2 * n
    BY <2>1, PowersPositive, PowersAssumption
  <2> HIDE DEF n
  <2> QED BY <2>2
<1>3. /\ e \in Nat /\ end \in Nat /\ e <= half /\ IsTail(e, Append(p, r), w)
      /\ \A k \in Nat : k > e => 2 * k - 1 > end /\ 2 * k > end
  BY <1>1, TailHalves
<1> HIDE DEF e, n
<1>4. folded \in Seq(Ring) /\ Len(folded) = half
  BY <1>1, FoldInRing
<1>5. \A k \in 1..half : folded[k] = IF k <= e THEN At(entries[2 * k - 1], entries[2 * k], r) ELSE Zero
  BY <1>1 DEF FoldOf
<1> HIDE DEF folded
<1>6. ASSUME NEW k \in 1..half
      PROVE  /\ k \in Nat /\ k >= 1
             /\ 2 * k \in 1..Len(entries) /\ 2 * k - 1 \in 1..Len(entries)
             /\ HasBlock(p, w, 2 * k)
  <2>1. k \in Nat /\ k >= 1 /\ 2 * k \in 1..Len(entries) /\ 2 * k - 1 \in 1..Len(entries)
        /\ 2 * k \in Nat /\ 2 * k >= 1 /\ half - k \in Nat
    OBVIOUS
  <2>2. (2 * k) * n <= Len(w)
    <3>1. 2 * (half - k) \in Nat
      BY <2>1
    <3>2. (2 * (half - k)) * n \in Nat
      BY <1>2, <3>1
    <3>3. (2 * (half - k)) * n = (2 * half) * n - (2 * k) * n /\ (2 * k) * n \in Int
          /\ (2 * half) * n \in Int
      BY <1>2, <2>1
    <3> QED BY <1>1, <3>2, <3>3
  <2>3. Len(p) <= Len(w)
    BY <1>1
  <2> QED BY <2>1, <2>2, <2>3 DEF HasBlock, n
<1>7. At(Zero, Zero, r) = Zero
  <2>1. \A x \in Int : (0 + x * (0 - 0)) % Modulus = 0
    <3> TAKE x \in Int
    <3>1. 0 + x * (0 - 0) = 0
      OBVIOUS
    <3>2. 0 % Modulus = 0
      BY ModulusIs
    <3> QED BY <3>1, <3>2
  <2>2. r[1] \in Int /\ r[2] \in Int
    BY RingParts
  <2>3. \A s \in 1..2 : Zero[s] = 0 /\ r[s] \in Int
    BY <2>2 DEF Zero
  <2>4. \A s \in 1..2 : (Zero[s] + r[s] * (Zero[s] - Zero[s])) % Modulus = 0
    BY <2>1, <2>3
  <2>5. At(Zero, Zero, r) = [s \in 1..2 |-> 0]
    BY <2>4 DEF At
  <2>6. [s \in 1..2 |-> 0] = <<0, 0>>
    OBVIOUS
  <2> QED BY <2>5, <2>6 DEF Zero
<1>8. ASSUME NEW k \in 1..half
      PROVE  folded[k] = At(entries[2 * k - 1], entries[2 * k], r)
  <2>1. CASE k <= e
    BY <1>5, <2>1
  <2>2. CASE ~(k <= e)
    <3>1. 2 * k - 1 \in (end + 1)..Len(entries) /\ 2 * k \in (end + 1)..Len(entries)
      BY <1>3, <1>6, <2>2
    <3>2. entries[2 * k - 1] = Zero /\ entries[2 * k] = Zero
      BY <3>1 DEF FoldsTo
    <3> QED BY <1>5, <1>7, <2>2, <3>2
  <2> QED BY <2>1, <2>2
<1>9. ASSUME NEW k \in 1..half
      PROVE  folded[k] = ExtensionOf(Append(p, r), w, kind, k)
  <2>1. PICK low \in Ring : low = entries[2 * k - 1]
    BY <1>1, <1>6
  <2>2. PICK high \in Ring : high = entries[2 * k]
    BY <1>1, <1>6
  <2>3. low = ExtensionOf(p, w, kind, 2 * k - 1) /\ high = ExtensionOf(p, w, kind, 2 * k)
    BY <1>6, <2>1, <2>2 DEF FoldsTo
  <2>4. ExtensionOf(Append(p, r), w, kind, k) = At(low, high, r)
    <3>1. PICK j : j = 2 * k /\ HasBlock(p, w, j) /\ high = ExtensionOf(p, w, kind, j)
      BY <1>6, <2>3
    <3>2. PICK i : i = 2 * k - 1 /\ low = ExtensionOf(p, w, kind, i)
      BY <2>3
    <3>3. k \in Nat /\ k >= 1
      BY <1>6
    <3> QED BY <3>1, <3>2, <3>3, ExtensionOfMore
  <2> QED BY <1>8, <2>1, <2>2, <2>4
<1>10. \A k \in (e + 1)..half : folded[k] = Zero
  <2> TAKE k \in (e + 1)..half
  <2>1. k \in 1..half /\ ~(k <= e)
    BY <1>3
  <2> QED BY <1>5, <2>1
<1>11. half * (2 * n) = Len(w)
  <2>1. half * (2 * n) = (2 * half) * n
    BY <1>2
  <2> QED BY <1>1, <2>1
<1> QED BY <1>2, <1>3, <1>4, <1>9, <1>10, <1>11 DEF FoldsTo, e, folded

\* Conjugation goes through a fold by a challenge it does not change.
LEMMA FoldConjugated ==
    ASSUME NEW low \in Ring, NEW high \in Ring, NEW r \in Ring, IsFixed(r)
    PROVE  Conjugate(At(low, high, r)) = At(Conjugate(low), Conjugate(high), r)
<1>1. r = <<r[1], r[2]>> /\ r[1] = r[2]
  <2>1. r = <<r[1], r[2]>>
    BY RingParts
  <2>2. Conjugate(r)[1] = r[2]
    BY DEF Conjugate
  <2> QED BY <2>1, <2>2 DEF IsFixed
<1> DEFINE at(s) == (low[s] + r[s] * (high[s] - low[s])) % Modulus
           ta(s) == (Conjugate(low)[s] + r[s] * (Conjugate(high)[s] - Conjugate(low)[s])) % Modulus
<1>2. At(low, high, r) = [s \in 1..2 |-> at(s)]
  BY DEF At
<1>3. At(Conjugate(low), Conjugate(high), r) = [s \in 1..2 |-> ta(s)]
  BY DEF At
<1>4. /\ Conjugate(low)[1] = low[2] /\ Conjugate(low)[2] = low[1]
      /\ Conjugate(high)[1] = high[2] /\ Conjugate(high)[2] = high[1]
  BY DEF Conjugate
<1>5. ta(1) = at(2) /\ ta(2) = at(1)
  BY <1>1, <1>4
<1> HIDE DEF at, ta
<1>6. [s \in 1..2 |-> ta(s)] = <<ta(1), ta(2)>>
  OBVIOUS
<1>7. [s \in 1..2 |-> at(s)][1] = at(1) /\ [s \in 1..2 |-> at(s)][2] = at(2)
  OBVIOUS
<1> QED BY <1>2, <1>3, <1>5, <1>6, <1>7 DEF Conjugate

Mirrored(entries, conjugates) ==
    \A k \in 1..Len(entries) : conjugates[k] = Conjugate(entries[k])

\* So the conjugates of a fold's entries are the fold of the conjugates.
LEMMA FoldOfConjugates ==
    ASSUME NEW entries \in Seq(Ring), NEW conjugates \in Seq(Ring), NEW half \in Nat,
           Len(entries) = 2 * half, Len(conjugates) = 2 * half,
           Mirrored(entries, conjugates),
           NEW end, NEW r \in Ring, IsFixed(r)
    PROVE  \A k \in 1..half :
             Conjugate(FoldOf(entries, end, r)[k]) = FoldOf(conjugates, end, r)[k]
<1> TAKE k \in 1..half
<1>1. (2 * half) \div 2 = half /\ 2 * k \in 1..(2 * half) /\ 2 * k - 1 \in 1..(2 * half)
  OBVIOUS
<1>2. FoldOf(entries, end, r)[k]
        = IF k <= end THEN At(entries[2 * k - 1], entries[2 * k], r) ELSE Zero
  BY <1>1 DEF FoldOf
<1>3. FoldOf(conjugates, end, r)[k]
        = IF k <= end THEN At(conjugates[2 * k - 1], conjugates[2 * k], r) ELSE Zero
  BY <1>1 DEF FoldOf
<1>4. Conjugate(Zero) = Zero
  BY DEF Conjugate, Zero
<1>5. PICK low \in Ring : low = entries[2 * k - 1]
  BY <1>1
<1>6. PICK high \in Ring : high = entries[2 * k]
  BY <1>1
<1>7. conjugates[2 * k - 1] = Conjugate(low) /\ conjugates[2 * k] = Conjugate(high)
  BY <1>1, <1>5, <1>6 DEF Mirrored
<1>8. Conjugate(At(low, high, r)) = At(Conjugate(low), Conjugate(high), r)
  BY FoldConjugated
<1> QED BY <1>2, <1>3, <1>4, <1>5, <1>6, <1>7, <1>8

-----------------------------------------------------------------------------
(***************************************************************************)
(* The first tables hold the witness.                                      *)
(***************************************************************************)
LEMMA PowersGrow ==
    ASSUME NEW w \in Witnesses, NEW j \in Nat, NEW k \in Nat, j < k, k <= Len(w) + 1
    PROVE  2^(j + 1) \in Nat /\ 2^k \in Nat /\ 2^(j + 1) <= 2^k
<1> DEFINE d == k - (j + 1)
           x == 2^(j + 1)
           y == 2^d
<1>1. /\ d \in Nat /\ (j + 1) + d = k /\ j + 1 \in Nat /\ (j + 1) + d <= Len(w) + 1
      /\ j + 1 \in 0..(Len(w) + 1) /\ d \in 0..(Len(w) + 1) /\ k \in 0..(Len(w) + 1)
  BY WitnessLength
<1>2. x \in Nat /\ y \in Nat /\ y >= 1 /\ 2^k \in Nat
  BY <1>1, PowersPositive
<1>3. 2^k = x * y
  BY <1>1, PowersSplit
<1> HIDE DEF x, y
<1>4. x <= x * y
  <2>1. x * (y - 1) \in Nat /\ x * (y - 1) = x * y - x
    BY <1>2
  <2> QED BY <1>2, <2>1
<1> QED BY <1>2, <1>3, <1>4 DEF x

\* The logarithm of a power of two.
LEMMA LogOfPower ==
    ASSUME NEW w \in Witnesses, NEW k \in 0..Len(w), NEW n, n = 2^k, n <= Len(w)
    PROVE  FloorLog(n) = k
<1> DEFINE Short(j) == j <= Len(w) => j < 2^j
           Wrong == {j \in Nat : ~Short(j)}
<1>1. Len(w) \in Nat
  BY WitnessLength
<1>2. ASSUME Wrong # {} PROVE FALSE
  <2> HIDE DEF Short
  <2>1. PICK j \in Wrong : \A i \in Wrong : j <= i
    <3> HIDE DEF Wrong
    <3>1. Wrong \subseteq Nat
      BY DEF Wrong
    <3> QED BY <1>2, <3>1, LeastNatural
  <2>2. j \in Nat /\ j <= Len(w) /\ ~(j < 2^j)
    BY <2>1 DEF Short
  <2>3. j # 0
    <3>1. 2^0 = 1
      OBVIOUS
    <3>2. j = 0 => 2^j = 1
      BY <3>1
    <3>3. 0 < 1
      OBVIOUS
    <3> QED BY <2>2, <3>2, <3>3
  <2> DEFINE l == j - 1
  <2>4. l \in Nat /\ j = l + 1 /\ ~(j <= l) /\ l <= Len(w) /\ l \in 0..Len(w)
    BY <1>1, <2>2, <2>3
  <2> HIDE DEF l
  <2>5. l < 2^l
    <3>1. Short(l)
      BY <2>1, <2>4
    <3> QED BY <2>4, <3>1 DEF Short
  <2>6. 2^l \in Nat /\ 2^j = 2 * 2^l
    BY <2>4, PowersAssumption
  <2> QED BY <2>2, <2>4, <2>5, <2>6
<1>3. k < n /\ n \in Nat /\ k \in Nat /\ k \in 0..n
  <2>1. k < n
    BY <1>1, <1>2
  <2>2. n \in Nat
    BY PowersAssumption
  <2> QED BY <2>1, <2>2
<1> DEFINE Fits(m) == 2^m <= n /\ n < 2^(m + 1)
<1>4. Fits(k)
  <2>1. 2^(k + 1) = 2 * 2^k
    BY PowersAssumption
  <2> QED BY <1>3, <2>1
<1>5. \A m \in 0..n : Fits(m) => m = k
  <2> SUFFICES ASSUME NEW m \in 0..n, Fits(m), m # k PROVE FALSE
    OBVIOUS
  <2>1. m \in Nat /\ m <= Len(w) + 1 /\ k <= Len(w) + 1
    BY <1>1, <1>3
  <2>2. CASE m < k
    <3>1. 2^(m + 1) \in Nat /\ 2^(m + 1) <= 2^k
      BY <1>3, <2>1, <2>2, PowersGrow
    <3> QED BY <1>3, <3>1
  <2>3. CASE k < m
    <3>1. 2^(k + 1) \in Nat /\ 2^m \in Nat /\ 2^(k + 1) <= 2^m
      BY <1>3, <2>1, <2>3, PowersGrow
    <3> QED BY <1>3, <1>4, <3>1
  <2> QED BY <1>3, <2>1, <2>2, <2>3
<1> HIDE DEF Fits
<1>6. FloorLog(n) = CHOOSE m \in 0..n : Fits(m)
  BY DEF FloorLog, Fits
<1> QED BY <1>3, <1>4, <1>5, <1>6

LEMMA FloorLogIs ==
    ASSUME NEW w \in Witnesses, NEW k \in 0..Len(w), Len(w) = 2^k
    PROVE  FloorLog(Len(w)) = k
<1>1. Len(w) <= Len(w)
  BY WitnessLength
<1> QED BY <1>1, LogOfPower

LEMMA OracleKeeps ==
    ASSUME witness \in Witnesses, NEW kind \in Kinds
    PROVE  /\ Keeps(Oracle(kind), kind, <<>>, witness)
           /\ Oracle(kind).memory = Caller => Oracle(kind).data = witness
           /\ Oracle(kind).memory = Own => ~Oracle(kind).mapped
<1> DEFINE n == FloorLog(Len(witness))
           conjugated == [i \in DOMAIN witness |-> Conjugate(witness[i])]
           copy == IF kind = "conjugate" THEN conjugated ELSE witness
           end == Used(witness)
           t == Oracle(kind)
           p == <<>>
<1>1. witness \in Seq(Ring) /\ Len(witness) \in Nat /\ DOMAIN witness = 1..Len(witness)
  BY WitnessLength
<1>2. t \in Tables /\ Len(t.data) = Len(witness)
  BY OracleTable
<1>3. /\ t.end = end /\ t.vars = n
      /\ \A k \in 1..Len(witness) : Load(t, k) = Conjugated(kind, witness[k])
      /\ t.memory = Caller => t.data = witness
      /\ t.memory = Own => ~t.mapped
  <2>1. CASE Len(witness) < BorrowMin
    <3>1. t = Table(Own, copy, FALSE, end, n)
      BY <2>1 DEF Oracle
    <3>2. \A k \in 1..Len(witness) : copy[k] = Conjugated(kind, witness[k])
      BY <1>1 DEF Conjugated
    <3> HIDE DEF t, copy, end, n
    <3> QED BY <3>1, <3>2 DEF Table, Load, Own, Caller
  <2>2. CASE ~(Len(witness) < BorrowMin)
    <3>1. t = Table(Caller, witness, kind = "conjugate", end, n)
      BY <2>2 DEF Oracle
    <3> HIDE DEF t, copy, end, n
    <3> QED BY <3>1 DEF Table, Load, Conjugated, Own, Caller
  <2> QED BY <2>1, <2>2
<1>4. Entries(t) \in Seq(Ring) /\ Len(Entries(t)) = Len(witness)
  <2> HIDE DEF t
  <2> QED BY <1>2, EntriesInRing
<1>5. \A k \in 1..Len(witness) : Entries(t)[k] = Conjugated(kind, witness[k])
  <2> HIDE DEF t
  <2>1. DOMAIN t.data = 1..Len(witness)
    BY <1>2 DEF Tables
  <2> QED BY <1>3, <2>1 DEF Entries
<1>6. Len(p) = 0 /\ 2^Len(p) = 1
  OBVIOUS
<1>7. n \in Nat /\ n <= Len(witness) /\ Len(witness) = 2^n
  <2>1. PICK k \in 0..Len(witness) : Len(witness) = 2^k
    BY WitnessLength
  <2>2. n = k
    BY <2>1, FloorLogIs
  <2> QED BY <1>1, <2>1, <2>2
<1> HIDE DEF t, n, p, copy
<1>8. IsTail(end, p, witness)
  <2>1. end \in 0..Len(witness)
    BY UsedIs
  <2> HIDE DEF end
  <2>2. end * 1 = end /\ (end - 1) * 1 = end - 1 /\ end \in Nat
    BY <1>1, <2>1
  <2> QED BY <1>6, <2>1, <2>2 DEF IsTail, end
<1>9. \A k \in 1..Len(witness) : Entries(t)[k] = ExtensionOf(p, witness, kind, k)
  BY <1>5, ExtensionAtFirst DEF p
<1>10. \A k \in (end + 1)..Len(witness) : Entries(t)[k] = Zero
  <2> TAKE k \in (end + 1)..Len(witness)
  <2>1. end \in 0..Len(witness)
    BY UsedIs
  <2>2. k \in 1..Len(witness) /\ k > end
    <3> HIDE DEF end
    <3> QED BY <1>1, <2>1
  <2>3. witness[k] = Zero
    BY <2>2, UsedIs
  <2>4. Conjugated(kind, Zero) = Zero
    BY DEF Conjugated, Conjugate, Zero
  <2> QED BY <1>5, <2>2, <2>3, <2>4
<1>11. Len(witness) * 2^Len(p) = Len(witness)
  <2>1. \A m \in Nat : m * 1 = m
    OBVIOUS
  <2> QED BY <1>1, <1>6, <2>1
<1>12. FoldsTo(Entries(t), end, kind, p, witness)
  <2> HIDE DEF end
  <2> QED BY <1>4, <1>8, <1>9, <1>10, <1>11 DEF FoldsTo
<1>13. Keeps(t, kind, p, witness)
  BY <1>2, <1>3, <1>7, <1>12 DEF Keeps
<1> QED BY <1>3, <1>13 DEF t, p

LEMMA FoldInit == Init => FoldInv
<1> SUFFICES ASSUME Init PROVE FoldInv
  OBVIOUS
<1>1. ViewInv
  BY ViewInit
<1>2. witness \in Witnesses /\ points = <<>>
  BY DEF Init
<1>3. \A kind \in Kinds : \A i \in DOMAIN tables[kind] : tables[kind][i] = Oracle(kind)
  BY DEF Init
<1>4. TablesKeep
  BY <1>2, <1>3, OracleKeeps DEF TablesKeep
<1>5. ~FirstsShare
  <2>1. 1..Len(points) = {}
    BY <1>2
  <2> QED BY <2>1 DEF FirstsShare
<1>6. MemoryAlike
  BY <1>2, <1>3, <1>5, OracleKeeps DEF MemoryAlike
<1> QED BY <1>1, <1>4, <1>6 DEF FoldInv

-----------------------------------------------------------------------------
(***************************************************************************)
(* Folded tables hold the witness folded.                                  *)
(***************************************************************************)
\* A variable less is half as many entries.
LEMMA Halved ==
    ASSUME NEW w \in Witnesses, NEW v \in Nat, v <= Len(w), NEW half \in Nat \ {0}, 2 * half = 2^v
    PROVE  v - 1 \in Nat /\ v - 1 <= Len(w) /\ half = 2^(v - 1)
<1>1. Len(w) \in Nat
  BY WitnessLength
<1>2. v # 0
  <2>1. 2^0 = 1
    OBVIOUS
  <2>2. v = 0 => 2 * half = 1
    BY <2>1
  <2>3. 2 * half # 1
    OBVIOUS
  <2> QED BY <2>2, <2>3
<1> DEFINE m == v - 1
<1>3. m \in Nat /\ m \in 0..Len(w) /\ v = m + 1
  BY <1>1, <1>2
<1> HIDE DEF m
<1>4. 2^m \in Nat /\ 2^(m + 1) = 2 * 2^m
  BY <1>3, PowersAssumption
<1>5. 2 * half = 2 * 2^m
  BY <1>3, <1>4
<1>6. half = 2^m
  BY <1>4, <1>5
<1> QED BY <1>1, <1>3, <1>6 DEF m

\* What is read of a table that is not mapped is what it has.
LEMMA EntriesPlain ==
    ASSUME NEW t, t.mapped = FALSE, t.data \in Seq(Ring)
    PROVE  Entries(t) = t.data
<1>1. \A k \in DOMAIN t.data : Load(t, k) = t.data[k]
  BY DEF Load
<1>2. Entries(t) = [k \in DOMAIN t.data |-> t.data[k]]
  BY <1>1 DEF Entries
<1>3. t.data = [k \in DOMAIN t.data |-> t.data[k]]
  <2>1. PICK d \in Seq(Ring) : d = t.data
    OBVIOUS
  <2>2. d = [k \in DOMAIN d |-> d[k]]
    OBVIOUS
  <2> QED BY <2>1, <2>2
<1> QED BY <1>2, <1>3

LEMMA FoldEndIs ==
    ASSUME NEW t \in Tables, NEW w \in Witnesses, NEW p \in Seq(Ring), Len(p) + 1 <= Len(w),
           NEW kind, Keeps(t, kind, p, w), NEW half \in Nat \ {0}, Len(t.data) = 2 * half
    PROVE  /\ t.end \in Int /\ FoldEnd(t) = (t.end + 1) \div 2
           /\ Len(Entries(t)) = 2 * half
<1>1. Len(Entries(t)) = 2 * half /\ Entries(t) \in Seq(Ring)
  BY EntriesInRing
<1>2. (2 * half) * 2^Len(p) = Len(w) /\ IsTail(t.end, p, w)
  BY <1>1 DEF Keeps, FoldsTo
<1>3. PICK r \in Ring : TRUE
  BY ZeroInRing
<1> DEFINE e == (t.end + 1) \div 2
<1>4. e \in Nat /\ e <= half /\ t.end \in Nat
  BY <1>2, <1>3, TailHalves
<1>5. Half(t) = half
  <2>1. (2 * half) \div 2 = half
    OBVIOUS
  <2> QED BY <2>1 DEF Half
<1> HIDE DEF e
<1>6. Min({e, half}) = IF e <= half THEN e ELSE half
  BY <1>4, SmallerOfTwo
<1>7. FoldEnd(t) = Min({e, half})
  BY <1>5 DEF FoldEnd, e
<1> QED BY <1>1, <1>4, <1>6, <1>7 DEF e

\* A table that owns a fold.
LEMMA InstalledKeeps ==
    ASSUME NEW t \in Tables, NEW w \in Witnesses, t.vars \in Nat, t.vars <= Len(w),
           NEW half \in Nat \ {0}, 2 * half = 2^t.vars,
           NEW entries, Len(entries) = half, NEW end \in Int,
           NEW kind, NEW p, FoldsTo(entries, end, kind, p, w)
    PROVE  Keeps(Installed(t, entries, end), kind, p, w)
<1> DEFINE new == Installed(t, entries, end)
<1>1. entries \in Seq(Ring)
  BY DEF FoldsTo
<1>2. new.data = entries /\ new.mapped = FALSE /\ new.end = end
  <2>1. InstalledIs(t, entries, end)
    BY <1>1, InstalledTable
  <2> QED BY <2>1 DEF InstalledIs
<1>3. new.vars = t.vars - 1
  BY DEF Installed, Tables
<1>4. t.vars - 1 \in Nat /\ t.vars - 1 <= Len(w) /\ half = 2^(t.vars - 1)
  BY Halved
<1> HIDE DEF new
<1>5. Entries(new) = entries
  BY <1>1, <1>2, EntriesPlain
<1> QED BY <1>2, <1>3, <1>4, <1>5 DEF Keeps, new

\* A table with more than one entry, folded alone.
LEMMA FoldedAloneKeeps ==
    ASSUME NEW t \in Tables, NEW w \in Witnesses, NEW p \in Seq(Ring), Len(p) + 1 <= Len(w),
           NEW r \in Ring, NEW kind, Keeps(t, kind, p, w),
           NEW half \in Nat \ {0}, Len(t.data) = 2 * half
    PROVE  /\ Keeps(FoldedAlone(t, r), kind, Append(p, r), w)
           /\ FoldedAlone(t, r) = Installed(t, FoldOf(Entries(t), FoldEnd(t), r), FoldEnd(t))
           /\ FoldOf(Entries(t), FoldEnd(t), r) \in Seq(Ring)
<1> DEFINE e == FoldEnd(t)
           folded == FoldOf(Entries(t), e, r)
<1>1. FoldedAlone(t, r) = Installed(t, folded, e)
  <2>1. Len(t.data) # 1
    BY SMT
  <2> QED BY <2>1 DEF FoldedAlone
<1>2. e = (t.end + 1) \div 2 /\ e \in Int /\ Len(Entries(t)) = 2 * half
  <2>1. FoldEnd(t) = (t.end + 1) \div 2 /\ Len(Entries(t)) = 2 * half
    BY FoldEndIs
  <2> QED BY <2>1, FoldEndInt
<1>3. FoldsTo(Entries(t), t.end, kind, p, w)
  BY DEF Keeps
<1>4. FoldsTo(FoldOf(Entries(t), (t.end + 1) \div 2, r), (t.end + 1) \div 2, kind, Append(p, r), w)
  <2> DEFINE entries == Entries(t)
             end == t.end
  <2>1. Len(entries) = 2 * half /\ FoldsTo(entries, end, kind, p, w)
    BY <1>2, <1>3
  <2> HIDE DEF entries, end
  <2>2. FoldsTo(FoldOf(entries, (end + 1) \div 2, r), (end + 1) \div 2, kind, Append(p, r), w)
    BY <2>1, FoldFolds
  <2> QED BY <2>2 DEF entries, end
<1>5. FoldsTo(folded, e, kind, Append(p, r), w)
  BY <1>2, <1>4
<1>6. Entries(t) \in Seq(Ring)
  BY EntriesInRing
<1>7. Len(folded) = half /\ folded \in Seq(Ring)
  <2>1. (2 * half) \div 2 = half
    OBVIOUS
  <2> HIDE DEF e
  <2> QED BY <1>2, <1>6, <2>1, FoldInRing
<1>8. t.vars \in Nat /\ t.vars <= Len(w) /\ 2 * half = 2^t.vars
  BY DEF Keeps
<1> HIDE DEF folded, e
<1>9. Keeps(Installed(t, folded, e), kind, Append(p, r), w)
  BY <1>2, <1>5, <1>7, <1>8, InstalledKeeps
<1> QED BY <1>1, <1>7, <1>9 DEF folded, e

\* Both first tables from one pass.
LEMMA SplitKeeps ==
    ASSUME NEW own \in Tables, NEW view \in Tables, NEW w \in Witnesses,
           NEW p \in Seq(Ring), Len(p) + 1 <= Len(w), NEW r \in Ring,
           Keeps(own, "witness", p, w), Keeps(view, "conjugate", p, w), own.end = view.end,
           NEW half \in Nat \ {0}, Len(own.data) = 2 * half, Len(view.data) = 2 * half
    PROVE  /\ Keeps(SplitFold(own, view, r).own, "witness", Append(p, r), w)
           /\ Keeps(SplitFold(own, view, r).view, "conjugate", Append(p, r), w)
<1> DEFINE plain == [own EXCEPT !.viewed = FALSE]
           one == FoldOf(Entries(own), FoldEnd(own), r)
           two == FoldOf(Entries(view), FoldEnd(own), r)
<1>1. SplitFold(own, view, r)
        = [own |-> Installed(plain, one, FoldEnd(own)), view |-> Installed(view, two, FoldEnd(own))]
  BY DEF SplitFold
<1>2. FoldEnd(own) = FoldEnd(view)
  <2>1. FoldEnd(own) = (own.end + 1) \div 2
    BY FoldEndIs
  <2>2. FoldEnd(view) = (view.end + 1) \div 2
    BY FoldEndIs
  <2> QED BY <2>1, <2>2
<1>3. /\ plain \in Tables /\ plain.data = own.data /\ plain.end = own.end /\ plain.vars = own.vars
      /\ plain.mapped = own.mapped
  BY DEF Tables
<1> HIDE DEF plain
<1>4. Entries(plain) = Entries(own) /\ FoldEnd(plain) = FoldEnd(own)
  BY <1>3 DEF Entries, Load, FoldEnd, Half
<1>5. Keeps(plain, "witness", p, w)
  BY <1>3, <1>4 DEF Keeps
<1>6. /\ Keeps(FoldedAlone(plain, r), "witness", Append(p, r), w)
      /\ FoldedAlone(plain, r)
           = Installed(plain, FoldOf(Entries(plain), FoldEnd(plain), r), FoldEnd(plain))
  <2>1. Len(plain.data) = 2 * half
    BY <1>3
  <2> QED BY <1>3, <1>5, <2>1, FoldedAloneKeeps
<1>7. /\ Keeps(FoldedAlone(view, r), "conjugate", Append(p, r), w)
      /\ FoldedAlone(view, r)
           = Installed(view, FoldOf(Entries(view), FoldEnd(view), r), FoldEnd(view))
  BY FoldedAloneKeeps
<1>8. FoldedAlone(plain, r) = Installed(plain, one, FoldEnd(own))
  BY <1>4, <1>6
<1>9. FoldedAlone(view, r) = Installed(view, two, FoldEnd(own))
  BY <1>2, <1>7
<1> QED BY <1>1, <1>6, <1>7, <1>8, <1>9

\* Two tables that read the same memory, one as it is, the other conjugated.
Aligned(own, view, p, w) ==
    /\ own \in Tables /\ view \in Tables
    /\ Keeps(own, "witness", p, w) /\ Keeps(view, "conjugate", p, w)
    /\ own.end = view.end /\ own.data = view.data
    /\ ~own.mapped /\ view.mapped

\* One fold for both: the conjugate's table reads it conjugated.
LEMMA SharedKeeps ==
    ASSUME NEW own, NEW view, NEW w \in Witnesses,
           NEW p \in Seq(Ring), Len(p) + 1 <= Len(w), Aligned(own, view, p, w),
           NEW r \in Ring, IsFixed(r), NEW round \in Nat,
           NEW half \in Nat \ {0}, Len(own.data) = 2 * half
    PROVE  /\ Keeps(SharedFold(own, view, r, round).own, "witness", Append(p, r), w)
           /\ Keeps(SharedFold(own, view, r, round).view, "conjugate", Append(p, r), w)
           /\ SharedFold(own, view, r, round).own.data = SharedFold(own, view, r, round).view.data
<1> DEFINE plain == [own EXCEPT !.viewed = FALSE]
           e == FoldEnd(own)
           one == FoldOf(Entries(own), e, r)
           two == FoldOf(Entries(view), e, r)
           folded == FoldedAlone(plain, r)
           first == [folded EXCEPT !.memory = {round}, !.viewed = TRUE]
           left == view.vars - 1
           second == [view EXCEPT !.memory = {round}, !.data = folded.data,
                                  !.end = folded.end, !.vars = left]
<1>0. /\ own \in Tables /\ view \in Tables
      /\ Keeps(own, "witness", p, w) /\ Keeps(view, "conjugate", p, w)
      /\ own.end = view.end /\ own.data = view.data /\ ~own.mapped /\ view.mapped
  BY DEF Aligned
<1>1. SharedFold(own, view, r, round) = [own |-> first, view |-> second]
  BY DEF SharedFold
<1>2. /\ plain \in Tables /\ plain.data = own.data /\ plain.end = own.end /\ plain.vars = own.vars
      /\ plain.mapped = own.mapped
  BY <1>0 DEF Tables
<1> HIDE DEF plain
<1>3. Entries(plain) = Entries(own) /\ FoldEnd(plain) = e
  BY <1>2 DEF Entries, Load, FoldEnd, Half
<1>4. Keeps(plain, "witness", p, w)
  BY <1>0, <1>2, <1>3 DEF Keeps
<1>5. Len(plain.data) = 2 * half /\ Len(view.data) = 2 * half
  BY <1>0, <1>2
<1>6. /\ Keeps(folded, "witness", Append(p, r), w)
      /\ folded = Installed(plain, one, e) /\ one \in Seq(Ring)
  <2>1. /\ Keeps(FoldedAlone(plain, r), "witness", Append(p, r), w)
        /\ FoldedAlone(plain, r)
             = Installed(plain, FoldOf(Entries(plain), FoldEnd(plain), r), FoldEnd(plain))
        /\ FoldOf(Entries(plain), FoldEnd(plain), r) \in Seq(Ring)
    BY <1>2, <1>4, <1>5, FoldedAloneKeeps
  <2> QED BY <1>3, <2>1
<1>7. e \in Int /\ e = (own.end + 1) \div 2 /\ Len(Entries(own)) = 2 * half
  <2>1. FoldEnd(own) = (own.end + 1) \div 2 /\ Len(Entries(own)) = 2 * half
    BY <1>0, <1>5, FoldEndIs
  <2> QED BY <1>0, <2>1, FoldEndInt
<1>8. e = FoldEnd(view) /\ Len(Entries(view)) = 2 * half
  <2>1. FoldEnd(view) = (view.end + 1) \div 2 /\ Len(Entries(view)) = 2 * half
    BY <1>0, <1>5, FoldEndIs
  <2> QED BY <1>0, <1>7, <2>1
<1>9. folded \in Tables /\ folded.data = one /\ folded.mapped = FALSE /\ folded.end = e
  <2> HIDE DEF folded, one, e
  <2>1. one \in Seq(Ring) /\ e \in Int
    BY <1>6, <1>7
  <2>2. /\ Installed(plain, one, e) \in Tables /\ Installed(plain, one, e).data = one
        /\ Installed(plain, one, e).mapped = FALSE /\ Installed(plain, one, e).end = e
    <3>1. InstalledIs(plain, one, e)
      BY <1>2, <2>1, InstalledTable
    <3> QED BY <3>1 DEF InstalledIs
  <2> QED BY <1>6, <2>2
<1> HIDE DEF folded
<1>10. Keeps(first, "witness", Append(p, r), w)
  <2>1. /\ first.data = folded.data /\ first.mapped = folded.mapped /\ first.end = folded.end
        /\ first.vars = folded.vars
    BY <1>0, <1>9 DEF Tables
  <2> HIDE DEF first
  <2>2. Entries(first) = Entries(folded)
    BY <2>1 DEF Entries, Load
  <2> QED BY <1>6, <2>1, <2>2 DEF Keeps
\* What the view reads now is what its own fold would have been.
<1>11. /\ second.data = one /\ second.mapped /\ second.end = e /\ second.vars = view.vars - 1
  BY <1>0, <1>9 DEF Tables
<1>12. Len(one) = half /\ DOMAIN one = 1..half /\ Len(two) = half /\ DOMAIN two = 1..half
       /\ two \in Seq(Ring) /\ Entries(own) \in Seq(Ring) /\ Entries(view) \in Seq(Ring)
  <2>1. (2 * half) \div 2 = half
    OBVIOUS
  <2>2. Entries(own) \in Seq(Ring) /\ Entries(view) \in Seq(Ring)
    BY <1>0, EntriesInRing
  <2> HIDE DEF e
  <2>3. Len(one) = half /\ Len(two) = half /\ two \in Seq(Ring)
    BY <1>7, <1>8, <2>1, <2>2, FoldInRing
  <2> HIDE DEF one, two
  <2> QED BY <1>6, <2>2, <2>3
<1>13. \A k \in 1..(2 * half) : Entries(view)[k] = Conjugate(Entries(own)[k])
  <2>1. DOMAIN own.data = 1..(2 * half) /\ DOMAIN view.data = 1..(2 * half)
    BY <1>0, <1>5 DEF Tables
  <2> QED BY <1>0, <2>1 DEF Entries, Load
<1>14. \A k \in 1..half : Conjugate(one[k]) = two[k]
  <2> DEFINE entries == Entries(own)
             conjugates == Entries(view)
  <2>1. /\ entries \in Seq(Ring) /\ conjugates \in Seq(Ring) /\ half \in Nat
        /\ Len(entries) = 2 * half /\ Len(conjugates) = 2 * half
        /\ Mirrored(entries, conjugates)
    BY <1>7, <1>8, <1>12, <1>13 DEF Mirrored
  <2> HIDE DEF e, entries, conjugates
  <2>2. \A k \in 1..half :
          Conjugate(FoldOf(entries, e, r)[k]) = FoldOf(conjugates, e, r)[k]
    BY <2>1, FoldOfConjugates
  <2> QED BY <2>2 DEF entries, conjugates
<1>15. Entries(second) = two
  <2> HIDE DEF second, one, two, e
  <2>1. Entries(second) = [k \in 1..half |-> Conjugate(one[k])]
    BY <1>11, <1>12 DEF Entries, Load
  <2>2. two = [k \in 1..half |-> two[k]]
    BY <1>12
  <2> QED BY <1>14, <2>1, <2>2
<1>16. FoldsTo(two, e, "conjugate", Append(p, r), w)
  <2> DEFINE entries == Entries(view)
             end == view.end
  <2>1. Len(entries) = 2 * half /\ FoldsTo(entries, end, "conjugate", p, w)
    BY <1>0, <1>8 DEF Keeps
  <2> HIDE DEF entries, end
  <2>2. FoldsTo(FoldOf(entries, (end + 1) \div 2, r), (end + 1) \div 2, "conjugate", Append(p, r), w)
    BY <2>1, FoldFolds
  <2>3. e = (end + 1) \div 2
    BY <1>0, <1>7 DEF end
  <2> HIDE DEF e
  <2> QED BY <2>2, <2>3 DEF entries
<1>17. /\ view.vars - 1 \in Nat /\ view.vars - 1 <= Len(w) /\ half = 2^(view.vars - 1)
  <2>1. view.vars \in Nat /\ view.vars <= Len(w) /\ 2 * half = 2^view.vars
    BY <1>0, <1>5 DEF Keeps
  <2> QED BY <2>1, Halved
<1>18. Keeps(second, "conjugate", Append(p, r), w)
  <2> HIDE DEF second, one, two, e
  <2>1. Len(second.data) = 2^second.vars
    BY <1>11, <1>12, <1>17
  <2> QED BY <1>11, <1>15, <1>16, <1>17, <2>1 DEF Keeps
<1>19. first.data = second.data
  BY <1>0, <1>9, <1>11 DEF Tables
<1> HIDE DEF first, second
<1> QED BY <1>1, <1>10, <1>18, <1>19

\* The two first tables, folded together.
LEMMA JointKeeps ==
    ASSUME FoldInv, Len(witness) # 2^Len(points), NEW r \in Challenges, Joint,
           Len(points) + 1 <= Len(witness),
           NEW half \in Nat \ {0},
           Len(tables["witness"][1].data) = 2 * half, Len(tables["conjugate"][1].data) = 2 * half,
           NEW one, one = ChallengedAs("witness", 1, r),
           NEW two, two = ChallengedAs("conjugate", 1, r)
    PROVE  /\ Keeps(one, "witness", Append(points, r), witness)
           /\ Keeps(two, "conjugate", Append(points, r), witness)
           /\ one.memory # Own => one.data = two.data
<1> DEFINE own == tables["witness"][1]
           view == tables["conjugate"][1]
           pair == FoldTogether(own, view, r, Len(points) + 1)
<1>0. ViewInv /\ TablesKeep /\ MemoryAlike
  BY DEF FoldInv
<1>1. /\ tables["witness"] \in Seq(Tables) /\ tables["conjugate"] \in Seq(Tables)
      /\ 1 \in DOMAIN tables["witness"] /\ "witness" \in Kinds /\ "conjugate" \in Kinds
      /\ points \in Seq(Challenges) /\ Len(points) \in Nat /\ witness \in Witnesses
  BY <1>0 DEF ViewInv, TablesTyped, Kinds
<1>2. 1 \in DOMAIN tables["conjugate"] /\ ~view.viewed
  BY <1>0, SharedAreJoint
<1>3. one = pair.own /\ two = pair.view
  BY <1>1, <1>2, WhoIsAlone DEF ChallengedAs
<1>4. own \in Tables /\ view \in Tables
  BY <1>1, <1>2, ElementOfSeq
<1>5. r \in Ring /\ Len(points) + 1 \in Nat /\ points \in Seq(Ring)
  BY <1>1, ChallengesAssumption
<1>6. view.mapped /\ ~own.mapped /\ own.end = view.end /\ own.memory = view.memory /\ own.memory # Own
  BY DEF Joint, CanFoldTogether
<1>7. Half(own) = half /\ Len(own.data) = 2 * half /\ Len(view.data) = 2 * half
  <2>1. (2 * half) \div 2 = half
    OBVIOUS
  <2> QED BY <2>1 DEF Half
<1>8. own.data = view.data
  <2>1. CASE FirstsShare
    BY <1>0, <2>1 DEF MemoryAlike
  <2>2. CASE ~FirstsShare
    <3>1. Solitary(own) /\ Solitary(view)
      BY <1>0, <1>1, <1>2, <2>2 DEF ViewInv, SharingInv
    <3>2. own.memory = Caller /\ view.memory = Caller
      BY <1>6, <3>1 DEF Solitary
    <3> QED BY <1>0, <1>1, <1>2, <3>2 DEF MemoryAlike
  <2> QED BY <2>1, <2>2
<1>9. Keeps(own, "witness", points, witness) /\ Keeps(view, "conjugate", points, witness)
  BY <1>0, <1>1, <1>2 DEF TablesKeep
<1> HIDE DEF own, view
<1>10. CASE StaysShared(own, r)
  <2>1. pair = SharedFold(own, view, r, Len(points) + 1) /\ IsFixed(r)
    BY <1>10 DEF FoldTogether, StaysShared
  <2> HIDE DEF pair
  <2>2. PICK round \in Nat : round = Len(points) + 1
    BY <1>5
  <2>3. /\ Keeps(SharedFold(own, view, r, round).own, "witness", Append(points, r), witness)
        /\ Keeps(SharedFold(own, view, r, round).view, "conjugate", Append(points, r), witness)
        /\ SharedFold(own, view, r, round).own.data = SharedFold(own, view, r, round).view.data
    <3>1. Aligned(own, view, points, witness)
      BY <1>4, <1>6, <1>8, <1>9 DEF Aligned
    <3>2. /\ witness \in Witnesses /\ points \in Seq(Ring) /\ r \in Ring /\ IsFixed(r)
          /\ Len(own.data) = 2 * half
      BY <1>1, <1>5, <1>7, <2>1
    <3> QED BY <3>1, <3>2, SharedKeeps
  <2> QED BY <1>3, <2>1, <2>2, <2>3
<1>11. CASE ~StaysShared(own, r)
  <2>1. pair = SplitFold(own, view, r)
    BY <1>11 DEF FoldTogether
  <2> HIDE DEF pair
  <2>2. /\ Keeps(SplitFold(own, view, r).own, "witness", Append(points, r), witness)
        /\ Keeps(SplitFold(own, view, r).view, "conjugate", Append(points, r), witness)
    BY <1>1, <1>4, <1>5, <1>6, <1>7, <1>9, SplitKeeps
  <2>3. pair.own.memory = Own
    <3>1. Len(view.data) = Len(own.data) /\ ~view.viewed
      BY <1>2, <1>7 DEF view
    <3> QED BY <1>4, <1>5, <2>1, <3>1, SplitFoldTables
  <2> QED BY <1>3, <2>1, <2>2, <2>3
<1> QED BY <1>10, <1>11

\* Every challenge keeps what the tables hold.
LEMMA ChallengeFolds ==
    ASSUME FoldInv, TakeChallenge
    PROVE  FoldInv'
<1>0. ViewInv /\ TablesKeep /\ MemoryAlike
  BY DEF FoldInv
<1>1. Len(witness) # 2^Len(points) /\ witness' = witness
  BY DEF TakeChallenge
<1>2. PICK r \in Challenges :
        /\ tables' = [kind \in Kinds |-> [i \in DOMAIN tables[kind] |-> ChallengedAs(kind, i, r)]]
        /\ points' = Append(points, r)
  BY ChallengeStep
<1>3. /\ points \in Seq(Challenges) /\ Len(points) \in Nat /\ points \in Seq(Ring) /\ r \in Ring
      /\ witness \in Witnesses /\ Len(witness) \in Nat
      /\ 1 \in DOMAIN tables["witness"] /\ "witness" \in Kinds /\ "conjugate" \in Kinds
  BY <1>0, ChallengesAssumption, WitnessLength DEF ViewInv, TablesTyped, Kinds
<1>4. PICK k \in 0..Len(witness), half \in Nat \ {0} :
        /\ Len(points) + 1 <= k
        /\ \A kind \in Kinds : \A i \in DOMAIN tables[kind] :
             /\ tables[kind][i] \in Tables
             /\ Len(tables[kind][i].data) = 2 * half
  BY <1>0, <1>1, VariableLeft
<1>5. Len(points) + 1 <= Len(witness)
  BY <1>3, <1>4
<1>6. \A kind \in Kinds : /\ DOMAIN tables'[kind] = DOMAIN tables[kind]
                         /\ \A i \in DOMAIN tables[kind] : tables'[kind][i] = ChallengedAs(kind, i, r)
  BY <1>2
<1>7. ASSUME NEW kind \in Kinds, NEW i \in DOMAIN tables[kind], ~(Joint /\ i = 1)
      PROVE  /\ Keeps(tables'[kind][i], kind, points', witness')
             /\ tables'[kind][i].memory = Own /\ ~tables'[kind][i].mapped
  <2>1. tables'[kind][i] = FoldedAlone(tables[kind][i], r)
    BY <1>6, <1>7, WhoIsAlone DEF ChallengedAs
  <2>2. PICK t \in Tables : t = tables[kind][i]
    BY <1>4
  <2>3. Keeps(t, kind, points, witness) /\ Len(t.data) = 2 * half
    BY <1>0, <1>4, <2>2 DEF TablesKeep
  <2>4. Keeps(FoldedAlone(t, r), kind, Append(points, r), witness)
    BY <1>3, <1>5, <2>3, FoldedAloneKeeps
  <2>5. ChallengedAs(kind, i, r).memory = Own /\ ChallengedAs(kind, i, r).mapped = FALSE
    BY <1>0, <1>1, <1>7, AloneTable
  <2> QED BY <1>1, <1>2, <1>6, <2>1, <2>2, <2>4, <2>5
<1> DEFINE one == tables'["witness"][1]
           two == tables'["conjugate"][1]
<1>8. Joint => 1 \in DOMAIN tables["conjugate"]
  BY <1>0, <1>1, SharedAreJoint
<1>9. ASSUME Joint
      PROVE  /\ Keeps(one, "witness", points', witness') /\ Keeps(two, "conjugate", points', witness')
             /\ one.memory # Own => one.data = two.data
             /\ one.memory # Caller /\ two.memory # Caller
             /\ one.memory = Own \/ two.memory = Own => ~one.mapped /\ ~two.mapped
  <2>1. PICK a : a = ChallengedAs("witness", 1, r)
    OBVIOUS
  <2>2. PICK b : b = ChallengedAs("conjugate", 1, r)
    OBVIOUS
  <2>3. one = a /\ two = b
    BY <1>3, <1>6, <1>8, <1>9, <2>1, <2>2
  <2>4. Len(tables["witness"][1].data) = 2 * half /\ Len(tables["conjugate"][1].data) = 2 * half
    BY <1>3, <1>4, <1>8, <1>9
  <2>5. /\ Keeps(a, "witness", Append(points, r), witness)
        /\ Keeps(b, "conjugate", Append(points, r), witness)
        /\ a.memory # Own => a.data = b.data
    BY <1>1, <1>5, <1>9, <2>1, <2>2, <2>4, JointKeeps
  <2>6. \/ a.memory = Own /\ b.memory = Own
        \/ a.memory = {Len(points) + 1} /\ b.memory = {Len(points) + 1}
    BY <1>0, <1>1, <1>9, <2>1, <2>2, <2>4, JointTables
  <2>8. a.memory = Own => ~a.mapped /\ ~b.mapped
    BY <1>0, <1>1, <1>9, <2>1, <2>2, <2>4, JointTables
  <2>9. b.memory = Own => a.memory = Own
    BY <2>6 DEF Own
  <2>7. a.memory # Caller /\ b.memory # Caller
    <3>1. Len(points) + 1 # 0
      BY <1>3
    <3> QED BY <2>6, <3>1 DEF Own, Caller
  <2> HIDE DEF one, two
  <2> QED BY <1>1, <1>2, <2>3, <2>5, <2>7, <2>8, <2>9
<1>10. Kinds = {"witness", "conjugate"}
  BY DEF Kinds
<1>11. TablesKeep'
  <2> SUFFICES ASSUME NEW kind \in Kinds, NEW i \in DOMAIN tables[kind]
               PROVE  Keeps(tables'[kind][i], kind, points', witness')
    BY <1>6 DEF TablesKeep
  <2>1. CASE ~(Joint /\ i = 1)
    BY <1>7, <2>1
  <2>2. CASE Joint /\ i = 1
    <3>1. CASE kind = "witness"
      BY <1>9, <2>2, <3>1
    <3>2. CASE kind = "conjugate"
      BY <1>9, <2>2, <3>2
    <3> QED BY <1>10, <3>1, <3>2
  <2> QED BY <2>1, <2>2
<1>12. MemoryAlike'
  <2>1. ASSUME NEW kind \in Kinds, NEW i \in DOMAIN tables[kind]
        PROVE  /\ tables'[kind][i].memory # Caller
               /\ tables'[kind][i].memory = Own => ~tables'[kind][i].mapped
    <3>1. CASE ~(Joint /\ i = 1)
      BY <1>7, <3>1 DEF Own, Caller
    <3>2. CASE Joint /\ i = 1
      <4>1. tables'[kind][i] = one \/ tables'[kind][i] = two
        BY <1>10, <3>2
      <4> HIDE DEF one, two
      <4> QED BY <1>9, <3>2, <4>1
    <3> QED BY <3>1, <3>2
  <2>2. FirstsShare' => one.data = two.data
    <3> SUFFICES ASSUME FirstsShare' PROVE one.data = two.data
      OBVIOUS
    <3>1. one.memory # Own
      BY DEF FirstsShare, Own
    <3>2. Joint
      BY <1>3, <1>7, <3>1
    <3> HIDE DEF one, two
    <3> QED BY <1>9, <3>1, <3>2
  <2> QED BY <1>6, <2>1, <2>2 DEF MemoryAlike
<1>13. ViewInv'
  BY <1>0, ChallengeKeeps
<1> QED BY <1>11, <1>12, <1>13 DEF FoldInv

LEMMA FoldNext == FoldInv /\ [Next]_vars => FoldInv'
<1> SUFFICES ASSUME FoldInv, [Next]_vars PROVE FoldInv'
  OBVIOUS
<1>1. CASE TakeChallenge
  BY <1>1, ChallengeFolds
<1>2. CASE UNCHANGED vars
  <2>1. witness' = witness /\ tables' = tables /\ points' = points
    BY <1>2 DEF vars
  <2>2. ViewInv'
    BY ViewNext DEF FoldInv
  <2>3. TablesKeep'
    BY <2>1 DEF FoldInv, TablesKeep
  <2>4. MemoryAlike'
    BY <2>1 DEF FoldInv, MemoryAlike, FirstsShare
  <2> QED BY <2>2, <2>3, <2>4 DEF FoldInv
<1> QED BY <1>1, <1>2 DEF Next, Finished

\* The extension as the property has it.
LEMMA ExtensionIs ==
    \A kind, i : ExtensionAt(kind, i) = ExtensionOf(points, witness, kind, i)
BY DEF ExtensionAt, ExtensionOf, SumAt, EntryOf, CornerWeight, WeightOf

\* linear.rs, partial_evaluate and partial_evaluate_with_mapped: however the tables
\* borrow, share and split, every entry that is read is the witness's, or its
\* conjugate's, multilinear extension at the challenges so far, for every modulus,
\* witness, threshold and sequence of challenges.
THEOREM TablesHoldFolds == Spec => []CellsAreFolds
<1>1. FoldInv => CellsAreFolds
  <2> SUFFICES ASSUME FoldInv, NEW kind \in Kinds, NEW i \in DOMAIN tables[kind],
                      NEW t, t = tables[kind][i]
               PROVE  /\ Len(t.data) = 2^t.vars
                      /\ \A k \in DOMAIN t.data : Load(t, k) = ExtensionAt(kind, k)
                      /\ t.end = TailStart
                      /\ \A k \in (t.end + 1)..Len(t.data) : Load(t, k) = Zero
    BY DEF CellsAreFolds
  <2>1. t \in Tables /\ witness \in Witnesses /\ Len(witness) \in Nat /\ points \in Seq(Challenges)
    BY ElementOfSeq, WitnessLength DEF FoldInv, ViewInv, TablesTyped
  <2>2. Keeps(t, kind, points, witness)
    BY DEF FoldInv, TablesKeep
  <2>3. t.data \in Seq(Ring) /\ DOMAIN t.data = 1..Len(t.data) /\ Len(Entries(t)) = Len(t.data)
        /\ \A k \in 1..Len(t.data) : Entries(t)[k] = Load(t, k)
    <3>1. t.data \in Seq(Ring) /\ Len(Entries(t)) = Len(t.data)
      BY <2>1, EntriesInRing DEF Tables
    <3> QED BY <3>1 DEF Entries
  <2>4. \A k \in DOMAIN t.data : Load(t, k) = ExtensionAt(kind, k)
    BY <2>2, <2>3, ExtensionIs DEF Keeps, FoldsTo
  <2>5. IsTail(t.end, points, witness)
    BY <2>2 DEF Keeps, FoldsTo
  <2>6. 2^Len(points) \in Nat
    BY DEF FoldInv, ViewInv, SizesInStep
  <2>7. TailStart = CHOOSE e \in 0..Len(witness) :
                      /\ e * 2^Len(points) >= Used(witness)
                      /\ (e - 1) * 2^Len(points) < Used(witness)
    BY DEF TailStart
  <2>8. IsTail(TailStart, points, witness)
    BY <2>5, <2>7 DEF IsTail
  <2>9. t.end = TailStart
    BY <2>1, <2>5, <2>6, <2>8, TailAlone
  <2>10. \A k \in (t.end + 1)..Len(t.data) : Load(t, k) = Zero
    <3> TAKE k \in (t.end + 1)..Len(t.data)
    <3>1. t.end \in Nat
      BY <2>1, <2>5 DEF IsTail
    <3>2. k \in 1..Len(t.data)
      BY <2>3, <3>1
    <3>3. Entries(t)[k] = Zero
      BY <2>2, <2>3 DEF Keeps, FoldsTo
    <3> QED BY <2>3, <3>2, <3>3
  <2> QED BY <2>2, <2>4, <2>9, <2>10 DEF Keeps
<1> QED BY FoldInit, FoldNext, <1>1, PTL DEF Spec

-----------------------------------------------------------------------------
(***************************************************************************)
(* An evaluation through rows: the columns of a row first, or all at once. *)
(***************************************************************************)
\* A product of a + b factors is one of a and one of b of them.
LEMMA ProductsSplit ==
    ASSUME NEW a \in Nat, NEW b \in Nat,
           NEW h, 1..(a + b) \subseteq DOMAIN h, \A x \in 1..(a + b) : h[x] \in Int,
           NEW g, 1..b \subseteq DOMAIN g, \A x \in 1..b : g[x] = h[a + x]
    PROVE  /\ ProductOf(h, a + b) \in Int /\ ProductOf(h, a) \in Int /\ ProductOf(g, b) \in Int
           /\ Congruent(ProductOf(h, a + b), ProductOf(h, a) * ProductOf(g, b))
<1> DEFINE Good(m) == m <= b => Congruent(ProductOf(h, a + m), ProductOf(h, a) * ProductOf(g, m))
           Wrong == {m \in Nat : ~Good(m)}
<1> HIDE DEF Good
<1>1. \A x \in 1..b : a + x \in 1..(a + b) /\ g[x] \in Int
  OBVIOUS
<1>2. ASSUME NEW m \in Nat, m <= b
      PROVE  /\ a + m \in Nat /\ 1..(a + m) \subseteq DOMAIN h /\ \A x \in 1..(a + m) : h[x] \in Int
             /\ 1..m \subseteq DOMAIN g /\ \A x \in 1..m : g[x] \in Int
             /\ ProductOf(h, a + m) \in Int /\ ProductOf(g, m) \in Int
  <2>1. 1..(a + m) \subseteq 1..(a + b) /\ 1..m \subseteq 1..b /\ a + m \in Nat
    BY <1>2
  <2>2. /\ 1..(a + m) \subseteq DOMAIN h /\ \A x \in 1..(a + m) : h[x] \in Int
        /\ 1..m \subseteq DOMAIN g /\ \A x \in 1..m : g[x] \in Int
    BY <1>1, <2>1
  <2>3. ProductOf(h, a + m) \in Int
    BY <2>1, <2>2, ProductUpto
  <2>4. ProductOf(g, m) \in Int
    BY <2>2, ProductUpto
  <2> QED BY <2>1, <2>2, <2>3, <2>4
<1>3. PICK A \in Int : A = ProductOf(h, a)
  <2>1. 0 <= b /\ 0 \in Nat /\ a + 0 = a
    OBVIOUS
  <2> QED BY <1>2, <2>1
<1>4. ASSUME Wrong # {} PROVE FALSE
  <2>1. PICK m \in Wrong : \A j \in Wrong : m <= j
    <3> HIDE DEF Wrong
    <3>1. Wrong \subseteq Nat
      BY DEF Wrong
    <3> QED BY <1>4, <3>1, LeastNatural
  <2>2. m \in Nat /\ m <= b /\ ~Congruent(ProductOf(h, a + m), A * ProductOf(g, m))
    BY <1>3, <2>1 DEF Good
  <2>3. m # 0
    <3>1. ProductOf(g, 0) = 1
      <4>1. 1..0 = {} /\ 0 \in Nat
        OBVIOUS
      <4>2. 1..0 \subseteq DOMAIN g /\ \A x \in 1..0 : g[x] \in Int
        BY <4>1
      <4> QED BY <4>1, <4>2, ProductUpto
    <3>2. a + 0 = a /\ A * 1 = A
      OBVIOUS
    <3> QED BY <1>3, <2>2, <3>1, <3>2, CongruentSame
  <2> DEFINE l == m - 1
  <2>4. l \in Nat /\ m = l + 1 /\ l <= b /\ ~(m <= l) /\ a + m = (a + l) + 1 /\ m \in 1..b
        /\ a + m \in Nat /\ a + l \in Nat
    BY <2>2, <2>3
  <2> HIDE DEF l
  <2>5. PICK p \in Int : p = ProductOf(h, a + l)
    BY <1>2, <2>4
  <2>6. PICK q \in Int : q = ProductOf(g, l)
    BY <1>2, <2>4
  <2>7. PICK x \in Int : x = g[m] /\ x = h[a + m]
    BY <1>1, <2>4
  <2>8. Congruent(p, A * q)
    <3>1. Good(l)
      BY <2>1, <2>4
    <3> QED BY <1>3, <2>4, <2>5, <2>6, <3>1 DEF Good
  <2>9. ProductOf(h, a + m) = (p * x) % Modulus
    BY <1>2, <2>2, <2>4, <2>5, <2>7, ProductUpto
  <2>10. ProductOf(g, m) = (q * x) % Modulus
    BY <1>2, <2>2, <2>4, <2>6, <2>7, ProductUpto
  <2>11. PICK u \in Int : u = p * x
    BY Ints
  <2>12. PICK v \in Int : v = q * x
    BY Ints
  <2>13. A * q \in Int /\ (A * q) * x = A * v /\ A * v \in Int
    BY <2>12, Ints
  <2>14. Congruent(u, A * v)
    BY <2>8, <2>11, <2>13, CongruentProduct
  <2>15. u % Modulus \in Int /\ Congruent(u % Modulus, u) /\ v % Modulus \in Int
         /\ Congruent(v, v % Modulus)
    BY Reducing, CongruentBack
  <2>16. A * (v % Modulus) \in Int /\ Congruent(A * v, A * (v % Modulus))
    BY <2>15, CongruentProduct, Ints
  <2>17. Congruent(u % Modulus, A * v)
    BY <2>13, <2>14, <2>15, CongruentTo
  <2>18. Congruent(u % Modulus, A * (v % Modulus))
    BY <2>13, <2>15, <2>16, <2>17, CongruentTo
  <2> QED BY <2>2, <2>9, <2>10, <2>11, <2>12, <2>18
<1>5. Good(b)
  BY <1>4
<1>6. /\ ProductOf(h, a + b) \in Int /\ ProductOf(h, a) \in Int /\ ProductOf(g, b) \in Int
  BY <1>2, <1>3
<1> QED BY <1>5, <1>6 DEF Good

\* The factors of a product the other way round.
LEMMA ProductsReversed ==
    ASSUME NEW n \in Nat, NEW h, DOMAIN h = 1..n, \A x \in 1..n : h[x] \in Int,
           NEW g, DOMAIN g = 1..n, \A x \in 1..n : g[n + 1 - x] = h[x]
    PROVE  ProductOf(g, n) = ProductOf(h, n)
<1> DEFINE top(m) == (n - m + 1)..n
           Product(S) == Accumulated(Multiplying(g), 1, S)
           Good(m) == m <= n => Product(top(m)) = ProductOf(h, m)
           Wrong == {m \in Nat : ~Good(m)}
<1> HIDE DEF Good
<1>1. \A x \in 1..n : g[x] \in Int
  <2> TAKE x \in 1..n
  <2>1. n + 1 - x \in 1..n /\ n + 1 - (n + 1 - x) = x
    OBVIOUS
  <2> QED BY <2>1
<1>2. ASSUME NEW m \in Nat, m <= n
      PROVE  /\ IsFiniteSet(top(m)) /\ top(m) \subseteq 1..n
             /\ Steps(Multiplying(g), top(m)) /\ Exchanges(Multiplying(g), top(m))
             /\ \A x \in top(m) : \A v \in Int : Multiplying(g)[x][v] = (v * g[x]) % Modulus
             /\ 1..m \subseteq DOMAIN h /\ \A x \in 1..m : h[x] \in Int
  <2>1. n - m + 1 \in Int /\ top(m) \subseteq 1..n /\ 1..m \subseteq 1..n
    BY <1>2
  <2>2. IsFiniteSet(top(m))
    <3>1. IsFiniteSet(1..n)
      BY FS_Interval
    <3> QED BY <2>1, <3>1, FS_Subset
  <2>3. top(m) \subseteq DOMAIN g /\ \A x \in top(m) : g[x] \in Int
    BY <1>1, <2>1
  <2> HIDE DEF top
  <2> QED BY <2>1, <2>2, <2>3, MultiplyingSteps
<1>3. ASSUME Wrong # {} PROVE FALSE
  <2>1. PICK m \in Wrong : \A j \in Wrong : m <= j
    <3> HIDE DEF Wrong
    <3>1. Wrong \subseteq Nat
      BY DEF Wrong
    <3> QED BY <1>3, <3>1, LeastNatural
  <2>2. m \in Nat /\ m <= n /\ Product(top(m)) # ProductOf(h, m)
    BY <2>1 DEF Good
  <2>3. m # 0
    <3>1. ProductOf(h, 0) = 1
      <4>1. 1..0 = {} /\ 0 \in Nat
        OBVIOUS
      <4>2. 1..0 \subseteq DOMAIN h /\ \A x \in 1..0 : h[x] \in Int
        BY <4>1
      <4> QED BY <4>1, <4>2, ProductUpto
    <3>2. top(0) = {}
      OBVIOUS
    <3>3. Product({}) = 1
      <4>1. Steps(Multiplying(g), {}) /\ IsFiniteSet({}) /\ 1 \in Int
        BY FS_EmptySet DEF Steps
      <4> QED BY <4>1, AccumulatedIs
    <3> QED BY <2>2, <3>1, <3>2, <3>3
  <2> DEFINE l == m - 1
             x == n - m + 1
  <2>4. /\ l \in Nat /\ m = l + 1 /\ l <= n /\ ~(m <= l) /\ m \in 1..n
        /\ x \in top(m) /\ top(m) \ {x} = top(l) /\ x = n + 1 - m
    BY <2>2, <2>3
  <2>5. g[x] = h[m] /\ h[m] \in Int
    BY <2>4
  <2> HIDE DEF l, x
  <2>6. Product(top(l)) = ProductOf(h, l)
    <3>1. Good(l)
      BY <2>1, <2>4
    <3> QED BY <2>4, <3>1 DEF Good
  <2>7. ProductOf(h, l) \in Int
    BY <1>2, <2>4, ProductUpto
  <2>8. Product(top(m)) = Multiplying(g)[x][Product(top(m) \ {x})]
    <3> DEFINE f == Multiplying(g)
               S == top(m)
    <3>1. IsFiniteSet(S) /\ Steps(f, S) /\ Exchanges(f, S) /\ x \in S /\ 1 \in Int
      BY <1>2, <2>2, <2>4
    <3> HIDE DEF f, S
    <3>2. Accumulated(f, 1, S) = f[x][Accumulated(f, 1, S \ {x})]
      BY <3>1, AccumulatedStep
    <3> QED BY <3>2 DEF f, S
  <2>9. Product(top(m)) = (ProductOf(h, l) * h[m]) % Modulus
    <3> HIDE DEF Product, top
    <3>1. \A v \in Int : Multiplying(g)[x][v] = (v * g[x]) % Modulus
      BY <1>2, <2>2, <2>4
    <3>2. PICK v \in Int : v = ProductOf(h, l)
      BY <2>7
    <3>3. Product(top(m)) = Multiplying(g)[x][v]
      BY <2>4, <2>6, <2>8, <3>2
    <3> QED BY <2>5, <3>1, <3>2, <3>3
  <2>10. ProductOf(h, m) = (ProductOf(h, l) * h[m]) % Modulus
    BY <1>2, <2>2, <2>4, ProductUpto
  <2> QED BY <2>2, <2>9, <2>10
<1>4. Good(n)
  BY <1>3
<1>5. top(n) = 1..n
  OBVIOUS
<1> QED BY <1>4, <1>5 DEF Good, ProductOf

\* The factors of a row's entry, from the last layer to the first.
RowFactors(layers, i, slot) ==
    [k \in DOMAIN layers |-> IF Bit(i, k) = 1 THEN layers[Len(layers) + 1 - k][slot]
                             ELSE 1 - layers[Len(layers) + 1 - k][slot]]

LEMMA RowFactorsType ==
    ASSUME NEW layers \in Seq(Ring), NEW slot \in 1..2, NEW i
    PROVE  /\ DOMAIN RowFactors(layers, i, slot) = 1..Len(layers)
           /\ \A k \in 1..Len(layers) : RowFactors(layers, i, slot)[k] \in Int
<1>1. /\ DOMAIN layers = 1..Len(layers) /\ Len(layers) \in Nat
      /\ \A k \in 1..Len(layers) : layers[k][slot] \in Int
  BY PointParts
<1>2. \A k \in 1..Len(layers) : Len(layers) + 1 - k \in 1..Len(layers)
  BY <1>1
<1>3. \A a \in Int : 1 - a \in Int
  OBVIOUS
<1>4. \A k \in 1..Len(layers) : /\ layers[Len(layers) + 1 - k][slot] \in Int
                                /\ 1 - layers[Len(layers) + 1 - k][slot] \in Int
  BY <1>1, <1>2, <1>3
<1> QED BY <1>1, <1>4 DEF RowFactors

\* An entry of a structured row is their product.
LEMMA RowEntryIs ==
    ASSUME NEW layers \in Seq(Ring), NEW slot \in 1..2, NEW i
    PROVE  RowEntry(layers, i, slot) = ProductOf(RowFactors(layers, i, slot), Len(layers))
<1> DEFINE S == DOMAIN layers
           n == Len(layers)
           Factor(k) == IF (i \div 2^(n - k)) % 2 = 1 THEN layers[k][slot] ELSE 1 - layers[k][slot]
           h == [k \in S |-> Factor(k)]
           Body(g, s) == IF s = {} THEN 1
                         ELSE (g[s \ {CHOOSE x \in s : TRUE}] * Factor(CHOOSE x \in s : TRUE)) % Modulus
           Equation(g) == g = [s \in SUBSET S |-> Body(g, s)]
           iter == CHOOSE g : Equation(g)
<1>1. /\ S = 1..n /\ n \in Nat /\ IsFiniteSet(S) /\ S = DOMAIN h
      /\ \A x \in S : h[x] \in Int /\ h[x] = Factor(x)
  <2>1. DOMAIN layers = 1..n /\ n \in Nat /\ \A k \in 1..n : layers[k][slot] \in Int
    BY PointParts
  <2>2. IsFiniteSet(1..n)
    BY <2>1, FS_Interval
  <2>3. \A a \in Int : 1 - a \in Int
    OBVIOUS
  <2>4. \A x \in S : Factor(x) \in Int
    BY <2>1, <2>3
  <2> HIDE DEF Factor
  <2> QED BY <2>1, <2>2, <2>4
<1>2. RowEntry(layers, i, slot) = iter[S]
  BY DEF RowEntry, FoldSet, MapThenFoldSet
<1>3. /\ Steps(Multiplying(h), S)
      /\ \A x \in S : \A v \in Int : Multiplying(h)[x][v] = (v * h[x]) % Modulus
  <2> HIDE DEF S, h
  <2> QED BY <1>1, MultiplyingSteps
<1> HIDE DEF Factor, S, h, n
<1>4. \A s \in SUBSET S : s # {} => Chosen(s) \in S
  BY DEF Chosen
<1>5. \A g : \A s \in SUBSET S :
        Body(g, s) = IF s = {} THEN 1 ELSE (g[s \ {Chosen(s)}] * h[Chosen(s)]) % Modulus
  BY <1>1, <1>4 DEF Chosen
<1> HIDE DEF Body
<1> DEFINE f == Multiplying(h)
<1>0. 1 \in Int /\ Steps(f, S)
  BY <1>3
<1>6. PICK a \in [SUBSET S -> Int] : Accumulates(f, 1, S, a)
  <2> HIDE DEF f
  <2> QED BY <1>0, <1>1, AccumulatesExists
<1>7. Equation(a)
  <2>1. ASSUME NEW s \in SUBSET S PROVE a[s] = Body(a, s)
    <3>1. a[s] = IF s = {} THEN 1 ELSE Multiplying(h)[Chosen(s)][a[s \ {Chosen(s)}]]
      BY <1>6 DEF Accumulates
    <3>2. s # {} => a[s \ {Chosen(s)}] \in Int
      <4>1. s \ {Chosen(s)} \in SUBSET S
        OBVIOUS
      <4> QED BY <1>6, <4>1
    <3> QED BY <1>3, <1>4, <1>5, <3>1, <3>2
  <2>2. a = [s \in SUBSET S |-> a[s]]
    BY <1>6
  <2> QED BY <2>1, <2>2
<1>8. Equation(iter)
  <2> HIDE DEF Equation
  <2> QED BY <1>7
<1> HIDE DEF iter
<1>9. \A s \in SUBSET S : iter[s] = Body(iter, s)
  BY <1>8
<1> HIDE DEF Equation
<1>10. Follows(iter, Multiplying(h), 1, S)
  <2> SUFFICES ASSUME NEW s \in SUBSET S
               PROVE  /\ s = {} => iter[s] = 1
                      /\ s # {} /\ iter[s \ {Chosen(s)}] \in Int
                           => iter[s] = Multiplying(h)[Chosen(s)][iter[s \ {Chosen(s)}]]
    BY DEF Follows
  <2>1. iter[s] = IF s = {} THEN 1 ELSE (iter[s \ {Chosen(s)}] * h[Chosen(s)]) % Modulus
    BY <1>5, <1>9
  <2>2. ASSUME s # {}, iter[s \ {Chosen(s)}] \in Int
        PROVE  iter[s] = Multiplying(h)[Chosen(s)][iter[s \ {Chosen(s)}]]
    <3>1. PICK v \in Int : v = iter[s \ {Chosen(s)}]
      BY <2>2
    <3>2. Multiplying(h)[Chosen(s)][v] = (v * h[Chosen(s)]) % Modulus
      BY <1>3, <1>4, <2>2
    <3> QED BY <2>1, <2>2, <3>1, <3>2
  <2> QED BY <2>1, <2>2
<1>11. iter[S] = Accumulated(Multiplying(h), 1, S)
  <2>1. Follows(iter, f, 1, S)
    BY <1>10
  <2> HIDE DEF f
  <2>2. iter[S] = Accumulated(f, 1, S)
    BY <1>0, <1>1, <2>1, AccumulatedBy
  <2> QED BY <2>2 DEF f
<1>12. iter[S] = ProductOf(h, n)
  BY <1>1, <1>11 DEF ProductOf
<1> DEFINE r == RowFactors(layers, i, slot)
<1>13. DOMAIN r = 1..n /\ \A x \in 1..n : r[x] \in Int
  BY RowFactorsType DEF n
<1>14. \A x \in 1..n : h[n + 1 - x] = r[x]
  <2> TAKE x \in 1..n
  <2>1. n + 1 - x \in S /\ n - (n + 1 - x) = x - 1 /\ x \in S
    BY <1>1
  <2>2. h[n + 1 - x] = Factor(n + 1 - x)
    BY <1>1, <2>1
  <2>3. Factor(n + 1 - x) = IF (i \div 2^(x - 1)) % 2 = 1 THEN layers[n + 1 - x][slot]
                            ELSE 1 - layers[n + 1 - x][slot]
    BY <2>1 DEF Factor
  <2>4. r[x] = IF Bit(i, x) = 1 THEN layers[n + 1 - x][slot] ELSE 1 - layers[n + 1 - x][slot]
    BY <2>1 DEF RowFactors, S, n
  <2> QED BY <2>2, <2>3, <2>4 DEF Bit
<1> HIDE DEF r
<1>15. ProductOf(h, n) = ProductOf(r, n)
  <2>1. DOMAIN h = 1..n
    BY <1>1
  <2> QED BY <1>1, <1>13, <1>14, <2>1, ProductsReversed
<1> QED BY <1>2, <1>12, <1>15 DEF r, n

\* The c-th block of b summands.
BlockOf(h, b, c) == [i \in Below(b) |-> h[c * b + i]]

\* A sum below a * b, block by block.
LEMMA SumOfBlocks ==
    ASSUME NEW a \in Nat, NEW b \in Nat,
           NEW h, DOMAIN h = Below(a * b), \A x \in Below(a * b) : h[x] \in Int,
           NEW g, DOMAIN g = Below(a), \A c \in Below(a) : g[c] = SumOf(BlockOf(h, b, c), Below(b))
    PROVE  SumOf(h, Below(a * b)) = SumOf(g, Below(a)) /\ \A c \in Below(a) : g[c] \in Int
<1> DEFINE Good(j) == j <= a => SumOf(h, Below(j * b)) = SumOf(g, Below(j))
           Wrong == {j \in Nat : ~Good(j)}
<1> HIDE DEF Good
<1>1. \A l \in Nat : l + 1 <= a =>
        /\ l * b \in Nat /\ (l + 1) * b \in Nat /\ (l + 1) * b = l * b + b
        /\ (l + 1) * b <= a * b
  <2> SUFFICES ASSUME NEW l \in Nat, l + 1 <= a
               PROVE  /\ l * b \in Nat /\ (l + 1) * b \in Nat /\ (l + 1) * b = l * b + b
                      /\ (l + 1) * b <= a * b
    OBVIOUS
  <2> DEFINE d == a - (l + 1)
  <2>1. d \in Nat /\ a = (l + 1) + d /\ l \in Int /\ b \in Int /\ l + 1 \in Int /\ d \in Int /\ 1 \in Int
    OBVIOUS
  <2>2. l * b \in Nat /\ (l + 1) * b \in Nat /\ d * b \in Nat
    BY <2>1
  <2>3. (l + 1) * b = l * b + 1 * b
    BY <2>1, Ints
  <2>4. a * b = (l + 1) * b + d * b
    <3> HIDE DEF d
    <3> QED BY <2>1, Ints
  <2> HIDE DEF d
  <2>5. 1 * b = b
    OBVIOUS
  <2> QED BY <2>2, <2>3, <2>4, <2>5
<1>2. \A l \in Below(a) :
        /\ l \in Nat /\ l + 1 <= a
        /\ DOMAIN BlockOf(h, b, l) = Below(b)
        /\ \A i \in Below(b) : l * b + i \in Below(a * b) /\ BlockOf(h, b, l)[i] = h[l * b + i]
  <2> TAKE l \in Below(a)
  <2>1. l \in Nat /\ l + 1 <= a
    BY DEF Below
  <2>2. PICK u \in Nat : u = l * b
    BY <1>1, <2>1
  <2>3. PICK v \in Nat : v = a * b
    OBVIOUS
  <2>4. u + b <= v
    BY <1>1, <2>1, <2>2, <2>3
  <2>5. \A i \in Below(b) : u + i \in Below(v)
    BY <2>4 DEF Below
  <2> QED BY <2>1, <2>2, <2>3, <2>5 DEF BlockOf
<1>3. \A c \in Below(a) : g[c] \in Int
  <2> TAKE c \in Below(a)
  <2>1. Below(b) \subseteq DOMAIN BlockOf(h, b, c) /\ \A i \in Below(b) : BlockOf(h, b, c)[i] \in Int
    BY <1>2
  <2> QED BY <2>1, SumBelow
<1>4. ASSUME Wrong # {} PROVE FALSE
  <2>1. PICK j \in Wrong : \A k \in Wrong : j <= k
    <3> HIDE DEF Wrong
    <3>1. Wrong \subseteq Nat
      BY DEF Wrong
    <3> QED BY <1>4, <3>1, LeastNatural
  <2>2. j \in Nat /\ j <= a /\ SumOf(h, Below(j * b)) # SumOf(g, Below(j))
    BY <2>1 DEF Good
  <2>3. j # 0
    <3>1. 0 * b = 0
      OBVIOUS
    <3>2. SumOf(h, Below(0)) = 0 /\ SumOf(g, Below(0)) = 0
      <4>1. /\ Below(0) \subseteq DOMAIN h /\ \A x \in Below(0) : h[x] \in Int
            /\ Below(0) \subseteq DOMAIN g /\ \A x \in Below(0) : g[x] \in Int
        BY BelowNext
      <4> QED BY <4>1, SumBelow
    <3> QED BY <2>2, <3>1, <3>2
  <2> DEFINE l == j - 1
  <2>4. l \in Nat /\ j = l + 1 /\ l + 1 <= a /\ l <= a /\ ~(j <= l) /\ l \in Below(a)
    BY <2>2, <2>3 DEF Below
  <2> HIDE DEF l
  <2>5. SumOf(h, Below(l * b)) = SumOf(g, Below(l))
    <3>1. Good(l)
      BY <2>1, <2>4
    <3> QED BY <2>4, <3>1 DEF Good
  <2>6. SumOf(h, Below(j * b)) = SumOf(h, Below(l * b)) + SumOf(BlockOf(h, b, l), Below(b))
    <3>1. PICK u \in Nat : u = l * b
      BY <1>1, <2>4
    <3>2. j * b = u + b
      BY <1>1, <2>4, <3>1
    <3>3. Below(u + b) \subseteq Below(a * b)
      <4>1. PICK v \in Nat : v = a * b
        OBVIOUS
      <4>2. u + b <= v
        BY <1>1, <2>4, <3>1, <4>1
      <4> QED BY <4>1, <4>2 DEF Below
    <3>4. Below(u + b) \subseteq DOMAIN h /\ \A x \in Below(u + b) : h[x] \in Int
      BY <3>3
    <3> DEFINE v == BlockOf(h, b, l)
    <3>5. DOMAIN v = Below(b) /\ \A c \in Below(b) : v[c] = h[u + c]
      BY <1>2, <2>4, <3>1
    <3> HIDE DEF v
    <3>6. SumOf(h, Below(u + b)) = SumOf(h, Below(u)) + SumOf(v, Below(b))
      BY <3>4, <3>5, SumSplits
    <3> QED BY <3>1, <3>2, <3>6 DEF v
  <2>7. SumOf(g, Below(j)) = g[l] + SumOf(g, Below(l)) /\ SumOf(g, Below(l)) \in Int
    <3>1. Below(j) \subseteq DOMAIN g /\ Below(l) \subseteq DOMAIN g
      BY <2>2, <2>4 DEF Below
    <3>2. /\ \A x \in Below(j) : g[x] \in Int
          /\ \A x \in Below(l) : g[x] \in Int
      BY <1>3, <3>1
    <3> QED BY <2>2, <2>4, <3>1, <3>2, SumBelow
  <2>8. g[l] = SumOf(BlockOf(h, b, l), Below(b)) /\ g[l] \in Int
    BY <1>3, <2>4
  <2> QED BY <2>2, <2>5, <2>6, <2>7, <2>8
<1>5. Good(a)
  BY <1>4
<1> QED BY <1>3, <1>5 DEF Good

-----------------------------------------------------------------------------
(***************************************************************************)
(* The rows of an opening.                                                 *)
(***************************************************************************)
\* The sums of Opened, in a slot.
ColumnOf(w, inner, c, slot) ==
    MapThenSumSet(LAMBDA i : RowEntry(inner, i, slot) * w[c * 2^Len(inner) + i + 1][slot],
                  0..(2^Len(inner) - 1))
RowsOf(w, outer, inner, slot) ==
    MapThenSumSet(LAMBDA c : RowEntry(outer, c, slot) * ColumnOf(w, inner, c, slot),
                  0..(2^Len(outer) - 1))

LEMMA OpenedIs ==
    \A statement : Opened(statement) =
      [s \in 1..2 |-> RowsOf(witness, statement.outer, statement.inner, s) % Modulus]
BY DEF Opened, RowsOf, ColumnOf

ColumnTerms(w, inner, c, slot) ==
    [i \in Below(2^Len(inner)) |-> RowEntry(inner, i, slot) * w[c * 2^Len(inner) + i + 1][slot]]
RowTerms(w, outer, inner, slot) ==
    [c \in Below(2^Len(outer)) |-> RowEntry(outer, c, slot) * ColumnOf(w, inner, c, slot)]

LEMMA ColumnIs ==
    ASSUME NEW w, NEW inner, NEW c, NEW slot, 2^Len(inner) \in Nat,
           \A i \in Below(2^Len(inner)) : ColumnTerms(w, inner, c, slot)[i] \in Int
    PROVE  ColumnOf(w, inner, c, slot) = SumOf(ColumnTerms(w, inner, c, slot), Below(2^Len(inner)))
<1> DEFINE n == 2^Len(inner)
           S == 0..(n - 1)
           h == ColumnTerms(w, inner, c, slot)
           Term(i) == RowEntry(inner, i, slot) * w[c * n + i + 1][slot]
           Body(g, s) == IF s = {} THEN 0
                         ELSE Term(CHOOSE x \in s : TRUE) + g[s \ {CHOOSE x \in s : TRUE}]
           Equation(g) == g = [s \in SUBSET S |-> Body(g, s)]
           iter == CHOOSE g : Equation(g)
<1>1. ColumnOf(w, inner, c, slot) = iter[S]
  BY DEF ColumnOf, MapThenSumSet, MapThenFoldSet
<1>2. /\ S = Below(n) /\ n \in Nat /\ DOMAIN h = Below(n)
      /\ \A x \in Below(n) : h[x] = Term(x) /\ h[x] \in Int
  BY DEF Below, ColumnTerms
<1> HIDE DEF n, S, h, Term
<1>3. \A g : \A s \in SUBSET S :
        Body(g, s) = IF s = {} THEN 0 ELSE h[Chosen(s)] + g[s \ {Chosen(s)}]
  <2>1. \A s \in SUBSET S : s # {} => Chosen(s) \in S
    BY DEF Chosen
  <2> QED BY <1>2, <2>1 DEF Chosen
<1> HIDE DEF Body
<1>4. \A g : Equation(g) <=> Adds(h, S, g)
  BY <1>3 DEF Adds
<1> HIDE DEF Equation
<1>5. Adds(h, S, iter)
  BY <1>2, <1>4, SumSolved
<1> HIDE DEF iter
<1> QED BY <1>1, <1>2, <1>5, SumSolved DEF n, h

LEMMA RowsAre ==
    ASSUME NEW w, NEW outer, NEW inner, NEW slot, 2^Len(outer) \in Nat,
           \A c \in Below(2^Len(outer)) : RowTerms(w, outer, inner, slot)[c] \in Int
    PROVE  RowsOf(w, outer, inner, slot) = SumOf(RowTerms(w, outer, inner, slot), Below(2^Len(outer)))
<1> DEFINE n == 2^Len(outer)
           S == 0..(n - 1)
           h == RowTerms(w, outer, inner, slot)
           Term(c) == RowEntry(outer, c, slot) * ColumnOf(w, inner, c, slot)
           Body(g, s) == IF s = {} THEN 0
                         ELSE Term(CHOOSE x \in s : TRUE) + g[s \ {CHOOSE x \in s : TRUE}]
           Equation(g) == g = [s \in SUBSET S |-> Body(g, s)]
           iter == CHOOSE g : Equation(g)
<1>1. RowsOf(w, outer, inner, slot) = iter[S]
  BY DEF RowsOf, MapThenSumSet, MapThenFoldSet
<1>2. /\ S = Below(n) /\ n \in Nat /\ DOMAIN h = Below(n)
      /\ \A x \in Below(n) : h[x] = Term(x) /\ h[x] \in Int
  BY DEF Below, RowTerms
<1> HIDE DEF n, S, h, Term
<1>3. \A g : \A s \in SUBSET S :
        Body(g, s) = IF s = {} THEN 0 ELSE h[Chosen(s)] + g[s \ {Chosen(s)}]
  <2>1. \A s \in SUBSET S : s # {} => Chosen(s) \in S
    BY DEF Chosen
  <2> QED BY <1>2, <2>1 DEF Chosen
<1> HIDE DEF Body
<1>4. \A g : Equation(g) <=> Adds(h, S, g)
  BY <1>3 DEF Adds
<1> HIDE DEF Equation
<1>5. Adds(h, S, iter)
  BY <1>2, <1>4, SumSolved
<1> HIDE DEF iter
<1> QED BY <1>1, <1>2, <1>5, SumSolved DEF n, h

\* The point, its last coordinate first, in two parts: outer layers and inner ones.
Parts(point, outer, inner) ==
    /\ point \in Seq(Ring) /\ outer \in Seq(Ring) /\ inner \in Seq(Ring)
    /\ Len(point) = Len(inner) + Len(outer)
    /\ \A j \in 1..Len(inner) : inner[Len(inner) + 1 - j] = point[j]
    /\ \A j \in 1..Len(outer) : outer[Len(outer) + 1 - j] = point[Len(inner) + j]

LEMMA RowEntryType ==
    ASSUME NEW layers \in Seq(Ring), NEW slot \in 1..2, NEW i
    PROVE  RowEntry(layers, i, slot) \in Int
<1> DEFINE h == RowFactors(layers, i, slot)
           n == Len(layers)
<1>1. n \in Nat /\ 1..n \subseteq DOMAIN h /\ \A k \in 1..n : h[k] \in Int
  BY RowFactorsType, PointParts
<1> HIDE DEF h, n
<1>2. ProductOf(h, n) \in Int
  BY <1>1, ProductUpto
<1> QED BY <1>2, RowEntryIs DEF h, n

\* The weight of a corner is that of its leading part times that of the rest.
LEMMA WeightOfParts ==
    ASSUME NEW w \in Witnesses, NEW point, NEW outer, NEW inner, Parts(point, outer, inner),
           Len(point) <= Len(w), NEW slot \in 1..2,
           NEW c \in Nat, NEW i \in Below(2^Len(inner)),
           NEW x, x = c * 2^Len(inner) + i
    PROVE  /\ WeightOf(point, x, slot) \in Int
           /\ Congruent(WeightOf(point, x, slot), RowEntry(outer, c, slot) * RowEntry(inner, i, slot))
<1> DEFINE m == Len(inner)
           k == Len(outer)
           F == Factors(point, x, slot)
           G == [j \in 1..k |-> F[m + j]]
           low == RowFactors(inner, i, slot)
           high == RowFactors(outer, c, slot)
<1>1. /\ point \in Seq(Ring) /\ outer \in Seq(Ring) /\ inner \in Seq(Ring)
      /\ m \in Nat /\ k \in Nat /\ Len(point) = m + k /\ m <= Len(w) /\ m + k <= Len(w)
  BY WitnessLength DEF Parts
<1>2. /\ DOMAIN F = 1..(m + k) /\ \A j \in 1..(m + k) : F[j] \in Int
      /\ \A j \in 1..(m + k) :
           F[j] = IF Bit(x, j) = 1 THEN point[j][slot] ELSE 1 - point[j][slot]
  <2>1. DOMAIN F = 1..(m + k) /\ \A j \in 1..(m + k) : F[j] \in Int
    BY <1>1, FactorsType
  <2>2. DOMAIN point = 1..(m + k)
    BY <1>1, PointParts
  <2> HIDE DEF m, k
  <2> QED BY <2>1, <2>2 DEF Factors
<1>3. /\ \A j \in 1..m : Bit(x, j) = Bit(i, j)
      /\ \A j \in 1..k : Bit(x, m + j) = Bit(c, j)
  <2>1. \A j \in 1..m : Bit(x, j) = Bit(i, j)
    BY <1>1, BitsUnder, ZenonT(60)
  <2>2. \A j \in Nat : j >= 1 /\ m + j <= Len(w) + 1 => Bit(x, m + j) = Bit(c, j)
    BY <1>1, BitsUnder
  <2>3. \A j \in 1..k : j \in Nat /\ j >= 1 /\ m + j <= Len(w) + 1
    BY <1>1
  <2> QED BY <2>1, <2>2, <2>3
<1>4. /\ DOMAIN low = 1..m /\ \A j \in 1..m : low[j] \in Int
      /\ \A j \in 1..m : F[j] = low[j]
  <2>1. DOMAIN low = 1..m /\ \A j \in 1..m : low[j] \in Int
    BY <1>1, RowFactorsType
  <2>2. ASSUME NEW j \in 1..m PROVE F[j] = low[j]
    <3>1. j \in 1..(m + k) /\ j \in DOMAIN inner
      BY <1>1, PointParts
    <3>2. inner[m + 1 - j] = point[j]
      BY DEF Parts
    <3>3. low[j] = IF Bit(i, j) = 1 THEN inner[m + 1 - j][slot] ELSE 1 - inner[m + 1 - j][slot]
      BY <3>1 DEF RowFactors
    <3> QED BY <1>2, <1>3, <3>1, <3>2, <3>3
  <2> QED BY <2>1, <2>2
<1>5. /\ DOMAIN high = 1..k /\ \A j \in 1..k : high[j] \in Int
      /\ \A j \in 1..k : G[j] = high[j] /\ G[j] = F[m + j]
  <2>1. DOMAIN high = 1..k /\ \A j \in 1..k : high[j] \in Int
    BY <1>1, RowFactorsType
  <2>2. ASSUME NEW j \in 1..k PROVE F[m + j] = high[j]
    <3>1. m + j \in 1..(m + k) /\ j \in DOMAIN outer
      BY <1>1, PointParts
    <3>2. outer[k + 1 - j] = point[m + j]
      BY DEF Parts
    <3>3. high[j] = IF Bit(c, j) = 1 THEN outer[k + 1 - j][slot] ELSE 1 - outer[k + 1 - j][slot]
      BY <3>1 DEF RowFactors
    <3> QED BY <1>2, <1>3, <3>1, <3>2, <3>3
  <2> QED BY <2>1, <2>2
<1>6. DOMAIN G = 1..k
  OBVIOUS
<1>7. WeightOf(point, x, slot) = ProductOf(F, m + k)
  BY <1>1, WeightIs
<1>8. RowEntry(inner, i, slot) = ProductOf(low, m) /\ RowEntry(outer, c, slot) = ProductOf(high, k)
  BY <1>1, RowEntryIs
<1> HIDE DEF m, k, F, G, low, high
<1>9. /\ ProductOf(F, m + k) \in Int
      /\ Congruent(ProductOf(F, m + k), ProductOf(F, m) * ProductOf(G, k))
  BY <1>1, <1>2, <1>5, <1>6, ProductsSplit
<1>10. ProductOf(F, m) = ProductOf(low, m)
  <2>1. 1..m \subseteq DOMAIN F
    BY <1>1, <1>2
  <2> QED BY <1>1, <1>4, <2>1, ProductsAgree
<1>11. ProductOf(G, k) = ProductOf(high, k)
  BY <1>1, <1>5, <1>6, ProductsAgree
<1>12. ProductOf(low, m) \in Int /\ ProductOf(high, k) \in Int
  BY <1>1, <1>4, <1>5, ProductUpto
<1>13. ProductOf(low, m) * ProductOf(high, k) = ProductOf(high, k) * ProductOf(low, m)
  BY <1>12, Ints
<1> QED BY <1>7, <1>8, <1>9, <1>10, <1>11, <1>13

\* A position within block c of a.
LEMMA WithinBlocks ==
    ASSUME NEW a \in Nat, NEW b \in Nat, NEW c \in Below(a), NEW i \in Below(b)
    PROVE  c * b + i \in Below(a * b) /\ c \in Nat /\ i \in Nat
<1>1. c \in Nat /\ c + 1 <= a /\ i \in Nat /\ i + 1 <= b
  BY DEF Below
<1> DEFINE d == a - (c + 1)
<1>2. d \in Nat /\ a = (c + 1) + d /\ c + 1 \in Int /\ d \in Int /\ b \in Int /\ c \in Int /\ 1 \in Int
  BY <1>1
<1>3. a * b = (c + 1) * b + d * b /\ (c + 1) * b = c * b + 1 * b
  <2> HIDE DEF d
  <2> QED BY <1>2, Ints
<1>4. 1 * b = b /\ d * b \in Nat /\ c * b \in Nat
  BY <1>1, <1>2
<1> HIDE DEF d
<1>5. PICK u \in Nat, v \in Nat : u = c * b /\ v = a * b
  BY <1>4
<1>6. u + b <= v
  BY <1>3, <1>4, <1>5
<1>7. u + i \in 0..(v - 1)
  BY <1>1, <1>5, <1>6
<1> QED BY <1>1, <1>5, <1>7 DEF Below

\* The summands of the extension are weights and entries of the witness.
LEMMA SummandOfWitness ==
    ASSUME NEW point, NEW w, HasBlock(point, w, 1), NEW slot \in 1..2,
           NEW x \in Below(2^Len(point))
    PROVE  /\ w[x + 1] \in Ring /\ w[x + 1][slot] \in Int
           /\ Summands(point, w, "witness", 1, slot)[x] = WeightOf(point, x, slot) * w[x + 1][slot]
<1>1. \A y \in Nat : (1 - 1) * y = 0
  OBVIOUS
<1>2. 2^Len(point) \in Nat
  BY SummandsType
<1>3. x \in Nat /\ (1 - 1) * 2^Len(point) + x + 1 = x + 1
  <2>1. x \in Nat
    BY <1>2 DEF Below
  <2>2. (1 - 1) * 2^Len(point) = 0
    BY <1>1, <1>2
  <2> QED BY <2>1, <2>2
<1>4. EntryOf(w, "witness", 1, 2^Len(point), x) = w[x + 1]
  BY <1>3 DEF EntryOf, Conjugated
<1>5. w[x + 1] \in Ring /\ w[x + 1][slot] \in Int
  BY <1>4, EntryType
<1>6. Summands(point, w, "witness", 1, slot)[x]
        = WeightOf(point, x, slot) * EntryOf(w, "witness", 1, 2^Len(point), x)[slot]
  BY SummandsType
<1> QED BY <1>4, <1>5, <1>6

\* Opening through rows sums the same, modulo the prime, however the point is cut.
LEMMA RowsOpen ==
    ASSUME NEW w, NEW point, HasBlock(point, w, 1), NEW outer, NEW inner,
           Parts(point, outer, inner), NEW slot \in 1..2
    PROVE  RowsOf(w, outer, inner, slot) % Modulus = SumAt(point, w, "witness", 1, slot) % Modulus
<1> DEFINE m == Len(inner)
           k == Len(outer)
           a == 2^k
           b == 2^m
           h == Summands(point, w, "witness", 1, slot)
           g == [c \in Below(a) |-> SumOf(BlockOf(h, b, c), Below(b))]
           rows == RowTerms(w, outer, inner, slot)
<1>1. /\ w \in Witnesses /\ point \in Seq(Ring) /\ outer \in Seq(Ring) /\ inner \in Seq(Ring)
      /\ m \in Nat /\ k \in Nat /\ Len(point) = m + k /\ m + k <= Len(w)
      /\ Len(w) \in Nat
  BY WitnessLength DEF Parts, HasBlock
<1>2. a \in Nat /\ b \in Nat /\ 2^Len(point) = a * b
  <2>1. m \in 0..(Len(w) + 1) /\ k \in 0..(Len(w) + 1) /\ m + k <= Len(w) + 1
    BY <1>1
  <2>2. a \in Nat /\ b \in Nat
    BY <1>1, <2>1, PowersPositive
  <2>3. 2^Len(point) = b * a
    BY <1>1, <2>1, PowersSplit
  <2> HIDE DEF a, b
  <2>4. b * a = a * b
    BY <2>2, Ints
  <2> QED BY <2>2, <2>3, <2>4
<1>3. DOMAIN h = Below(a * b) /\ \A x \in Below(a * b) : h[x] \in Int
  BY <1>2, SummandsType
<1>4. SumAt(point, w, "witness", 1, slot) = SumOf(h, Below(a * b))
  BY <1>2, SumAtIs
\* One column: the outer entry times the inner sum.
<1>5. ASSUME NEW c \in Below(a)
      PROVE  /\ rows[c] \in Int /\ rows[c] = RowEntry(outer, c, slot) * ColumnOf(w, inner, c, slot)
             /\ Congruent(SumOf(BlockOf(h, b, c), Below(b)), rows[c])
             /\ SumOf(BlockOf(h, b, c), Below(b)) \in Int
  <2> DEFINE block == BlockOf(h, b, c)
             terms == ColumnTerms(w, inner, c, slot)
  <2>1. PICK o \in Int : o = RowEntry(outer, c, slot)
    BY <1>1, RowEntryType
  <2>2. ASSUME NEW i \in Below(b)
        PROVE  /\ block[i] \in Int /\ terms[i] \in Int /\ Congruent(block[i], o * terms[i])
    <3>1. PICK x : x = c * b + i
      OBVIOUS
    <3>2. x \in Below(a * b) /\ c \in Nat
      BY <1>2, <3>1, WithinBlocks
    <3>3. PICK e \in Int : e = w[x + 1][slot]
      BY <1>2, <3>2, SummandOfWitness
    <3>4. PICK r \in Int : r = RowEntry(inner, i, slot)
      BY <1>1, RowEntryType
    <3>5. WeightOf(point, x, slot) \in Int /\ Congruent(WeightOf(point, x, slot), o * r)
      BY <1>1, <2>1, <3>1, <3>2, <3>4, WeightOfParts
    <3>6. block[i] = WeightOf(point, x, slot) * e
      <4>1. block[i] = h[x]
        BY <3>1 DEF BlockOf
      <4>2. h[x] = WeightOf(point, x, slot) * w[x + 1][slot]
        BY <1>2, <3>2, SummandOfWitness
      <4> QED BY <3>3, <4>1, <4>2
    <3>7. terms[i] = r * e
      BY <3>1, <3>3, <3>4 DEF ColumnTerms
    <3> HIDE DEF block, terms
    <3>8. PICK W \in Int : W = WeightOf(point, x, slot)
      BY <3>5
    <3>9. o * r \in Int /\ (o * r) * e = o * (r * e) /\ r * e \in Int /\ W * e \in Int
      BY Ints
    <3>10. Congruent(W * e, (o * r) * e)
      BY <3>5, <3>8, <3>9, CongruentProduct
    <3> QED BY <3>6, <3>7, <3>8, <3>9, <3>10
  <2>3. DOMAIN block = Below(b) /\ DOMAIN terms = Below(b)
    BY DEF BlockOf, ColumnTerms
  <2>4. ColumnOf(w, inner, c, slot) = SumOf(terms, Below(b))
    BY <1>2, <2>2, ColumnIs
  <2>5. c \in DOMAIN rows /\ rows[c] = RowEntry(outer, c, slot) * ColumnOf(w, inner, c, slot)
    BY DEF RowTerms
  <2> HIDE DEF a, b, block, terms, rows
  <2>6. Congruent(SumOf(block, Below(b)), o * SumOf(terms, Below(b)))
    BY <1>2, <2>2, <2>3, SumScales
  <2>7. SumOf(block, Below(b)) \in Int /\ SumOf(terms, Below(b)) \in Int
    BY <1>2, <2>2, <2>3, SumBelow
  <2>8. o * SumOf(terms, Below(b)) \in Int
    BY <2>7, Ints
  <2> QED BY <2>1, <2>4, <2>5, <2>6, <2>7, <2>8 DEF block
<1>6. /\ DOMAIN g = Below(a) /\ DOMAIN rows = Below(a)
      /\ \A c \in Below(a) : g[c] = SumOf(BlockOf(h, b, c), Below(b))
  BY DEF RowTerms
<1> HIDE DEF a, b, h, g, rows
<1>7. SumOf(h, Below(a * b)) = SumOf(g, Below(a)) /\ \A c \in Below(a) : g[c] \in Int
  BY <1>2, <1>3, <1>6, SumOfBlocks, SMTT(60)
<1>8. RowsOf(w, outer, inner, slot) = SumOf(rows, Below(a))
  BY <1>2, <1>5, RowsAre DEF a, k, rows
<1>9. PICK R \in Int : R = SumOf(rows, Below(a))
  BY <1>2, <1>5, <1>6, SumBelow
<1>10. PICK H \in Int : H = SumOf(g, Below(a))
  BY <1>2, <1>6, <1>7, SumBelow
<1>11. Congruent(H, 1 * R)
  <2>1. \A c \in Below(a) : Congruent(g[c], 1 * rows[c])
    <3>1. \A v \in Int : 1 * v = v
      OBVIOUS
    <3> QED BY <1>5, <1>6, <3>1
  <2>2. 1 \in Int
    OBVIOUS
  <2> QED BY <1>2, <1>5, <1>6, <1>7, <1>9, <1>10, <2>1, <2>2, SumScales
<1>12. 1 * R = R
  OBVIOUS
<1> QED BY <1>4, <1>7, <1>8, <1>9, <1>10, <1>11, <1>12, ReducedAlike

-----------------------------------------------------------------------------
(***************************************************************************)
(* The conjugate's evaluation, and how the point is cut.                   *)
(***************************************************************************)
Conjugates(p) == [k \in DOMAIN p |-> Conjugate(p[k])]

LEMMA ConjugatesType ==
    ASSUME NEW p \in Seq(Ring)
    PROVE  Conjugates(p) \in Seq(Ring) /\ Len(Conjugates(p)) = Len(p)
<1>1. \A k \in 1..Len(p) : Conjugate(p[k]) \in Ring
  BY ConjugateInRing
<1>2. Conjugates(p) = [k \in 1..Len(p) |-> Conjugate(p[k])] /\ Len(p) \in Nat
  BY DEF Conjugates
<1> QED BY <1>1, <1>2

\* Conjugation exchanges the slots.
LEMMA ConjugateSlots ==
    ASSUME NEW x, NEW slot \in 1..2
    PROVE  3 - slot \in 1..2 /\ Conjugate(x)[slot] = x[3 - slot] /\ Conjugate(x)[3 - slot] = x[slot]
<1>1. CASE slot = 1
  BY <1>1 DEF Conjugate
<1>2. CASE slot = 2
  BY <1>2 DEF Conjugate
<1> QED BY <1>1, <1>2

LEMMA ConjugateWeights ==
    ASSUME NEW p \in Seq(Ring), NEW slot \in 1..2, NEW c
    PROVE  WeightOf(Conjugates(p), c, slot) = WeightOf(p, c, 3 - slot)
<1>1. Conjugates(p) \in Seq(Ring) /\ Len(Conjugates(p)) = Len(p) /\ 3 - slot \in 1..2
      /\ DOMAIN Conjugates(p) = DOMAIN p
  BY ConjugatesType, ConjugateSlots DEF Conjugates
<1>2. \A k \in DOMAIN p : Conjugates(p)[k][slot] = p[k][3 - slot]
  BY ConjugateSlots DEF Conjugates
<1>3. Factors(Conjugates(p), c, slot) = Factors(p, c, 3 - slot)
  BY <1>1, <1>2 DEF Factors
<1> QED BY <1>1, <1>3, WeightIs

\* Evaluating the conjugate is conjugating the evaluation at the conjugate point.
LEMMA ConjugateEvaluation ==
    ASSUME NEW w, NEW p, HasBlock(p, w, 1), NEW slot \in 1..2
    PROVE  /\ HasBlock(Conjugates(p), w, 1)
           /\ SumAt(Conjugates(p), w, "witness", 1, slot) = SumAt(p, w, "conjugate", 1, 3 - slot)
<1>1. /\ p \in Seq(Ring) /\ Conjugates(p) \in Seq(Ring) /\ Len(Conjugates(p)) = Len(p)
      /\ 3 - slot \in 1..2
  BY ConjugatesType, ConjugateSlots DEF HasBlock
<1>2. HasBlock(Conjugates(p), w, 1)
  BY <1>1 DEF HasBlock
<1> DEFINE S == Below(2^Len(p))
           f == Summands(Conjugates(p), w, "witness", 1, slot)
           g == Summands(p, w, "conjugate", 1, 3 - slot)
<1>3. \A c \in S : f[c] = g[c]
  <2> TAKE c \in S
  <2>1. f[c] = WeightOf(Conjugates(p), c, slot) * EntryOf(w, "witness", 1, 2^Len(p), c)[slot]
    BY <1>1, <1>2, SummandsType
  <2>2. g[c] = WeightOf(p, c, 3 - slot) * EntryOf(w, "conjugate", 1, 2^Len(p), c)[3 - slot]
    BY <1>1, SummandsType
  <2>3. EntryOf(w, "conjugate", 1, 2^Len(p), c)[3 - slot] = EntryOf(w, "witness", 1, 2^Len(p), c)[slot]
    BY ConjugateSlots DEF EntryOf, Conjugated
  <2>4. WeightOf(Conjugates(p), c, slot) = WeightOf(p, c, 3 - slot)
    BY <1>1, ConjugateWeights
  <2> QED BY <2>1, <2>2, <2>3, <2>4
<1>4. f = [c \in S |-> f[c]] /\ g = [c \in S |-> g[c]]
  BY <1>1 DEF Summands
<1> HIDE DEF S, f, g
<1>5. f = g
  BY <1>3, <1>4
<1>6. SumAt(Conjugates(p), w, "witness", 1, slot) = SumOf(f, S)
  BY <1>1, <1>2, SumAtIs DEF f, S
<1>7. SumAt(p, w, "conjugate", 1, 3 - slot) = SumOf(g, S)
  BY <1>1, SumAtIs DEF g, S
<1> QED BY <1>2, <1>5, <1>6, <1>7

\* A point with its last coordinate first, cut anywhere.
LEMMA PartsOf ==
    ASSUME NEW p \in Seq(Ring), NEW q, q = [i \in DOMAIN p |-> p[Len(p) + 1 - i]],
           NEW k \in 0..Len(p)
    PROVE  /\ q \in Seq(Ring) /\ Len(q) = Len(p)
           /\ Parts(p, SubSeq(q, 1, k), SubSeq(q, k + 1, Len(q)))
<1> DEFINE n == Len(p)
           outer == SubSeq(q, 1, k)
           inner == SubSeq(q, k + 1, n)
<1>1. n \in Nat /\ k \in Nat /\ k <= n /\ DOMAIN p = 1..n
  OBVIOUS
<1>2. \A i \in 1..n : n + 1 - i \in 1..n /\ p[n + 1 - i] \in Ring
  <2> TAKE i \in 1..n
  <2>1. n + 1 - i \in 1..n
    OBVIOUS
  <2> QED BY <2>1
<1>3. q \in Seq(Ring) /\ Len(q) = n /\ \A i \in 1..n : q[i] = p[n + 1 - i]
  <2>1. q = [i \in 1..n |-> p[n + 1 - i]]
    OBVIOUS
  <2> HIDE DEF n
  <2> QED BY <1>1, <1>2, <2>1
<1> HIDE DEF n
<1>4. outer \in Seq(Ring) /\ Len(outer) = k /\ \A i \in 1..k : outer[i] = q[i]
  <2>1. \A i \in 1..k : q[i] \in Ring
    BY <1>1, <1>3
  <2>2. outer = [i \in 1..k |-> q[i]]
    BY <1>1, <1>3
  <2> HIDE DEF outer
  <2> QED BY <1>1, <2>1, <2>2
<1>5. inner \in Seq(Ring) /\ Len(inner) = n - k /\ \A i \in 1..(n - k) : inner[i] = q[k + i]
  <2>1. \A i \in 1..(n - k) : k + i \in 1..n
    BY <1>1
  <2>2. \A i \in 1..(n - k) : q[k + i] \in Ring
    BY <1>3, <2>1
  <2>3. inner = [i \in 1..(n - k) |-> q[k + i]]
    <3>1. inner = [i \in 1..(n - (k + 1) + 1) |-> q[(k + 1) + i - 1]]
      BY <1>1, <1>3
    <3>2. n - (k + 1) + 1 = n - k /\ \A i \in 1..(n - k) : (k + 1) + i - 1 = k + i
      BY <1>1
    <3> HIDE DEF inner
    <3> QED BY <3>1, <3>2
  <2>4. n - k \in Nat
    BY <1>1
  <2> HIDE DEF inner
  <2> QED BY <2>2, <2>3, <2>4
<1>6. \A j \in 1..(n - k) : inner[(n - k) + 1 - j] = p[j]
  <2> TAKE j \in 1..(n - k)
  <2>1. /\ (n - k) + 1 - j \in 1..(n - k) /\ k + ((n - k) + 1 - j) = n + 1 - j
        /\ n + 1 - j \in 1..n /\ n + 1 - (n + 1 - j) = j
    BY <1>1
  <2>2. PICK i \in 1..(n - k) : i = (n - k) + 1 - j
    BY <2>1
  <2>3. k + i = n + 1 - j
    BY <2>1, <2>2
  <2> HIDE DEF inner
  <2>4. inner[i] = q[k + i]
    BY <1>5
  <2>5. q[n + 1 - j] = p[n + 1 - (n + 1 - j)]
    BY <1>3, <2>1
  <2> QED BY <2>1, <2>2, <2>3, <2>4, <2>5
<1>7. \A j \in 1..k : outer[k + 1 - j] = p[(n - k) + j]
  <2> TAKE j \in 1..k
  <2>1. k + 1 - j \in 1..k /\ k + 1 - j \in 1..n /\ n + 1 - (k + 1 - j) = (n - k) + j
    BY <1>1
  <2> HIDE DEF outer
  <2> QED BY <1>3, <1>4, <2>1, ZenonT(60)
<1>8. n = (n - k) + k
  BY <1>1
<1> HIDE DEF outer, inner
<1>9. Parts(p, outer, inner)
  BY <1>4, <1>5, <1>6, <1>7, <1>8 DEF Parts, n
<1> QED BY <1>3, <1>9 DEF n, outer, inner

-----------------------------------------------------------------------------
(***************************************************************************)
(* What the chain of rounds is handed.                                     *)
(***************************************************************************)
\* A statement about a point, however it is cut, opens to the extension there.
LEMMA OpenedAt ==
    ASSUME NEW point, HasBlock(point, witness, 1), NEW statement,
           Parts(point, statement.outer, statement.inner)
    PROVE  Opened(statement) = ExtensionOf(point, witness, "witness", 1)
<1> DEFINE outer == statement.outer
           inner == statement.inner
<1>1. \A s \in 1..2 :
        RowsOf(witness, outer, inner, s) % Modulus = SumAt(point, witness, "witness", 1, s) % Modulus
  <2> HIDE DEF outer, inner
  <2>1. Parts(point, outer, inner)
    BY DEF outer, inner
  <2> QED BY <2>1, RowsOpen
<1> QED BY <1>1, OpenedIs DEF ExtensionOf

\* When every variable is challenged, every table's one entry is the extension.
LEMMA FinalIs ==
    ASSUME FoldInv, NeverPanics, Folded
    PROVE  /\ \A kind \in Kinds : tables[kind] # <<>> =>
                Final(kind) = ExtensionOf(points, witness, kind, 1)
           /\ tables["witness"] # <<>>
           /\ HasBlock(points, witness, 1)
           /\ FloorLog(Len(witness)) = Len(points)
<1>1. /\ witness \in Witnesses /\ Len(witness) \in Nat \ {0} /\ points \in Seq(Challenges)
      /\ points \in Seq(Ring) /\ Len(points) \in Nat
      /\ \A kind \in Kinds : tables[kind] \in Seq(Tables)
      /\ tables["witness"] # <<>>
  BY ChallengesAssumption, WitnessLength DEF FoldInv, ViewInv, TablesTyped
<1>2. Len(witness) = 2^Len(points) /\ Len(points) <= Len(witness)
  <2>1. PICK k \in 0..Len(witness) : Len(points) <= k
    BY DEF FoldInv, ViewInv, SizesInStep, Sizes
  <2> QED BY <1>1, <2>1 DEF Folded
<1>3. HasBlock(points, witness, 1)
  <2>1. 1 * Len(witness) <= Len(witness)
    BY <1>1
  <2> QED BY <1>1, <1>2, <2>1 DEF HasBlock
<1>4. FloorLog(Len(witness)) = Len(points)
  <2>1. Len(points) \in 0..Len(witness) /\ Len(witness) <= Len(witness)
    BY <1>1, <1>2
  <2> QED BY <1>1, <1>2, <2>1, LogOfPower
<1>5. ASSUME NEW kind \in Kinds, tables[kind] # <<>>
      PROVE  Final(kind) = ExtensionOf(points, witness, kind, 1)
  <2>1. 1 \in DOMAIN tables[kind]
    BY <1>1, <1>5
  <2>2. PICK t \in Tables : t = tables[kind][1]
    BY <1>1, <2>1, ElementOfSeq
  <2>3. t.memory = Own /\ ~t.mapped /\ Keeps(t, kind, points, witness)
    BY <2>1, <2>2 DEF FoldInv, NeverPanics, MemoryAlike, TablesKeep
  <2>4. t.data \in Seq(Ring) /\ t.mapped = FALSE
    BY <2>2, <2>3 DEF Tables
  <2>5. Entries(t) = t.data
    BY <2>4, EntriesPlain
  <2>6. Len(t.data) = 1
    <3>1. Len(t.data) * Len(witness) = Len(witness)
      BY <1>2, <2>3, <2>5 DEF Keeps, FoldsTo
    <3>2. PICK a \in Nat, b \in Nat \ {0} : a = Len(t.data) /\ b = Len(witness)
      BY <1>1, <2>4
    <3>3. a * b = b
      BY <3>1, <3>2
    <3>4. a # 0
      <4>1. 0 * b = 0
        OBVIOUS
      <4> QED BY <3>2, <3>3, <4>1
    <3>5. a < 2
      <4>1. a >= 2 => a * b >= 2 * b
        OBVIOUS
      <4> QED BY <3>2, <3>3, <4>1
    <3>6. a = 1
      BY <3>4, <3>5
    <3> QED BY <3>2, <3>6
  <2>7. t.data[1] = ExtensionOf(points, witness, kind, 1)
    BY <2>3, <2>5, <2>6 DEF Keeps, FoldsTo
  <2> QED BY <2>2, <2>7 DEF Final
<1> QED BY <1>1, <1>3, <1>4, <1>5

\* The two statements of chain_inputs.
Statement(p, width, value) ==
    [outer |-> SubSeq(p, 1, FloorLog(width)), inner |-> SubSeq(p, FloorLog(width) + 1, Len(p)),
     claim |-> value]
Reversed(p) == [i \in DOMAIN p |-> p[Len(p) + 1 - i]]

LEMMA ChainInputsAre ==
    ASSUME NEW width, points \in Seq(Ring),
           NEW one, one = Statement(Reversed(points), width, Final("witness")),
           NEW two, two = Statement(Reversed(Conjugates(points)), width, Conjugate(Final("conjugate")))
    PROVE  \A j \in DOMAIN ChainInputs(width) :
             \/ ChainInputs(width)[j] = one
             \/ tables["conjugate"] # <<>> /\ ChainInputs(width)[j] = two
<1>1. Len(points) \in Nat /\ DOMAIN points = 1..Len(points)
      /\ DOMAIN Conjugates(points) = 1..Len(points) /\ Len(Conjugates(points)) = Len(points)
  BY ConjugatesType DEF Conjugates
<1> DEFINE q == Reversed(points)
           r == [i \in DOMAIN q |-> Conjugate(q[i])]
<1>2. r = Reversed(Conjugates(points))
  <2>1. \A i \in 1..Len(points) : Len(points) + 1 - i \in 1..Len(points)
    BY <1>1
  <2>2. \A i \in 1..Len(points) :
          Conjugate(points[Len(points) + 1 - i]) = Conjugates(points)[Len(points) + 1 - i]
    BY <1>1, <2>1 DEF Conjugates
  <2>3. r = [i \in 1..Len(points) |-> Conjugate(points[Len(points) + 1 - i])]
    BY <1>1 DEF Reversed
  <2>4. Reversed(Conjugates(points)) = [i \in 1..Len(points) |-> Conjugates(points)[Len(points) + 1 - i]]
    BY <1>1 DEF Reversed
  <2> HIDE DEF r
  <2> QED BY <2>2, <2>3, <2>4
<1>3. ChainInputs(width) =
        <<Statement(q, width, Final("witness"))>>
          \o (IF tables["conjugate"] = <<>> THEN <<>>
              ELSE <<Statement(r, width, Conjugate(Final("conjugate")))>>)
  BY DEF ChainInputs, Statement, Reversed
<1>4. ChainInputs(width) = <<one>> \o (IF tables["conjugate"] = <<>> THEN <<>> ELSE <<two>>)
  <2> HIDE DEF q, r
  <2> QED BY <1>2, <1>3 DEF q
<1>5. /\ \A j \in DOMAIN (<<one>> \o <<>>) : (<<one>> \o <<>>)[j] = one
      /\ \A j \in DOMAIN (<<one>> \o <<two>>) : (<<one>> \o <<two>>)[j] \in {one, two}
  <2> DEFINE S == {one, two}
             both == <<one>> \o <<two>>
  <2>1. one \in S /\ two \in S
    OBVIOUS
  <2> HIDE DEF S, both
  <2>2. <<one>> \in Seq(S) /\ <<two>> \in Seq(S)
    BY <2>1
  <2>3. <<one>> \o <<>> = <<one>>
    BY <2>2, ConcatEmptySeq
  <2>4. both \in Seq(S)
    BY <2>2, ConcatProperties DEF both
  <2>5. \A j \in DOMAIN both : both[j] \in S
    BY <2>4, ElementOfSeq
  <2> QED BY <2>3, <2>5 DEF S, both
<1> QED BY <1>4, <1>5

\* lowering.rs, chain_inputs: when every variable is challenged, the statements the
\* chain of rounds is handed hold of the committed witness, whatever the number of
\* columns it is opened by: the point is cut where its bits say, and the conjugate's
\* evaluation is the witness's at the conjugate point, conjugated.
THEOREM ChainInputsHold == Spec => []ChainInputsAreTrue
<1>1. FoldInv /\ NeverPanics => ChainInputsAreTrue
  <2> SUFFICES ASSUME FoldInv, NeverPanics, Folded, NEW k \in 0..FloorLog(Len(witness)),
                      NEW j \in DOMAIN ChainInputs(2^k)
               PROVE  Opened(ChainInputs(2^k)[j]) = ChainInputs(2^k)[j].claim
    BY DEF ChainInputsAreTrue
  <2>1. /\ HasBlock(points, witness, 1) /\ points \in Seq(Ring) /\ witness \in Witnesses
        /\ Len(points) <= Len(witness) /\ Len(witness) = 2^Len(points)
        /\ Len(points) \in Nat /\ Len(witness) \in Nat /\ k \in 0..Len(points)
    BY FinalIs, WitnessLength DEF HasBlock, Folded
  <2>2. FloorLog(2^k) = k
    <3>1. k \in Nat /\ k \in 0..Len(witness) /\ k <= Len(points) /\ Len(points) <= Len(witness) + 1
      BY <2>1
    <3>2. 2^k \in Nat /\ 2^(k + 1) = 2 * 2^k
      BY <2>1, <3>1, PowersAssumption
    <3>3. 2^k <= Len(witness)
      <4>1. CASE k < Len(points)
        <5>1. 2^(k + 1) <= 2^Len(points)
          BY <2>1, <3>1, <4>1, PowersGrow
        <5> QED BY <2>1, <3>2, <5>1
      <4>2. CASE k = Len(points)
        BY <2>1, <4>2
      <4> QED BY <2>1, <3>1, <4>1, <4>2
    <3> QED BY <2>1, <3>1, <3>3, LogOfPower
  <2>3. PICK one : one = Statement(Reversed(points), 2^k, Final("witness"))
    OBVIOUS
  <2>4. PICK two : two = Statement(Reversed(Conjugates(points)), 2^k, Conjugate(Final("conjugate")))
    OBVIOUS
  <2>5. \/ ChainInputs(2^k)[j] = one
        \/ tables["conjugate"] # <<>> /\ ChainInputs(2^k)[j] = two
    BY <2>1, <2>3, <2>4, ChainInputsAre
  <2>6. Opened(one) = one.claim
    <3>1. Parts(points, one.outer, one.inner)
      BY <2>1, <2>2, <2>3, PartsOf DEF Statement, Reversed
    <3>2. one.claim = ExtensionOf(points, witness, "witness", 1)
      BY <2>3, FinalIs DEF Statement, Kinds
    <3> QED BY <2>1, <3>1, <3>2, OpenedAt
  <2>7. ASSUME tables["conjugate"] # <<>> PROVE Opened(two) = two.claim
    <3> DEFINE p == Conjugates(points)
    <3>1. p \in Seq(Ring) /\ Len(p) = Len(points) /\ k \in 0..Len(p)
      BY <2>1, ConjugatesType
    <3>2. HasBlock(p, witness, 1)
      <4>1. 1 \in 1..2
        OBVIOUS
      <4> QED BY <2>1, <4>1, ConjugateEvaluation
    <3>3. Parts(p, two.outer, two.inner)
      <4> HIDE DEF p
      <4>1. two = Statement(Reversed(p), 2^k, Conjugate(Final("conjugate")))
        BY <2>4 DEF p
      <4> QED BY <2>2, <3>1, <4>1, PartsOf DEF Statement, Reversed
    <3>4. Opened(two) = ExtensionOf(p, witness, "witness", 1)
      <4> HIDE DEF p
      <4> QED BY <3>2, <3>3, OpenedAt
    <3>5. two.claim = Conjugate(ExtensionOf(points, witness, "conjugate", 1))
      BY <2>4, <2>7, FinalIs DEF Statement, Kinds
    <3> DEFINE E == ExtensionOf(points, witness, "conjugate", 1)
               F == ExtensionOf(p, witness, "witness", 1)
    <3>6. \A s \in 1..2 : F[s] = E[3 - s]
      <4> TAKE s \in 1..2
      <4>1. 3 - s \in 1..2
        OBVIOUS
      <4>2. SumAt(p, witness, "witness", 1, s) = SumAt(points, witness, "conjugate", 1, 3 - s)
        BY <2>1, ConjugateEvaluation
      <4> QED BY <4>1, <4>2 DEF ExtensionOf
    <3>7. F = [s \in 1..2 |-> F[s]]
      BY DEF ExtensionOf
    <3> HIDE DEF E, F
    <3>8. F[1] = E[2] /\ F[2] = E[1]
      <4>1. F[1] = E[3 - 1] /\ F[2] = E[3 - 2]
        BY <3>6
      <4> QED BY <4>1
    <3>9. F = <<E[2], E[1]>>
      BY <3>7, <3>8
    <3> QED BY <3>4, <3>5, <3>9 DEF E, F, Conjugate
  <2> QED BY <2>5, <2>6, <2>7
<1> QED BY FoldInit, FoldNext, TablesNeverPanic, <1>1, PTL DEF Spec
=============================================================================

--------------------------- MODULE Layout_proofs ---------------------------
(***************************************************************************)
(* Four facts about the packed vector, for every set of rounds, whatever   *)
(* the sizes, the number of trees, levels and rows, and the order the      *)
(* blocks come in.                                                         *)
(*                                                                         *)
(* Components never share a position.  That only needs that used covers    *)
(* what has been placed and that a block is placed on a prefix free of it. *)
(*                                                                         *)
(* Every block finds a place.  First fit keeps the free space whole: of    *)
(* the free aligned blocks of a size all but the first are halves of free  *)
(* blocks of twice the size (Whole).  Then at most one block of every      *)
(* smaller size lies outside the free blocks of a size, and these cannot   *)
(* add up to it (LittleIsScattered): if no block of a size is free, fewer  *)
(* positions than its length are (WholeIsUsable).  What is free is as much *)
(* as the components still have to place, because the vector is no shorter *)
(* than their sizes together (SpaceIsAccounted).                           *)
(*                                                                         *)
(* Key rows meet what was committed, and digits are read back.  Both are   *)
(* about the packed vector, so they need that pasting left every           *)
(* component's data where its blocks are (PasteInv), and that the blocks   *)
(* of a size tile it (BlocksTile).  The rest is arithmetic: a row has a    *)
(* power of two of positions (RowIsPower), so a block of its planes is a   *)
(* power of two of planes and starts at a multiple of twice as many        *)
(* (BlockPlanes); and a position of a row has one part, one plane and one  *)
(* element (Joining, Splitting).                                           *)
(***************************************************************************)
EXTENDS Layout, FiniteSetTheorems, WellFoundedInduction, TLAPS

-----------------------------------------------------------------------------
(***************************************************************************)
(* Powers of two, and the position of a number between two of them.        *)
(***************************************************************************)
\* The exponents of the powers of two a size has.
Bits == 0..TopBit

\* Of natural numbers one is the least.
LEMMA LeastNatural ==
    ASSUME NEW T, T \subseteq Nat, T # {}
    PROVE  \E x \in T : \A y \in T : x <= y
<1>1. IsWellFoundedOn(OpToRel(<, Nat), Nat)
  BY NatLessThanWellFounded
<1>2. PICK x \in T : \A y \in T : ~ (<<y, x>> \in OpToRel(<, Nat))
  BY <1>1, WFMin
<1>3. \A y \in T : y \in Nat
  OBVIOUS
<1>4. \A y \in T : ~(y < x)
  BY <1>2, <1>3 DEF OpToRel
<1>. QED
  BY <1>3, <1>4

\* Exponents are natural numbers up to TopBit.
LEMMA BitsType ==
    /\ TopBit \in Nat /\ UsizeBits = TopBit + 1
    /\ \A b \in Bits : b \in Nat /\ b <= TopBit
BY BitsAssumption DEF TopBit, Bits

\* Powers of two are positive, twice the one before and ordered as their exponents.
LEMMA Doubles ==
    /\ 2^0 = 1
    /\ \A b \in Bits : 2^(b + 1) = 2 * 2^b
    /\ \A b \in 0..(TopBit + 1) : 2^b \in Nat /\ 2^b >= 1
<1>1. 2^0 = 1
  OBVIOUS
<1>2. \A b \in Bits : 2^b \in Nat /\ 2^(b + 1) = 2 * 2^b
  BY BitsAssumption DEF Bits
<1>. DEFINE Wrong == {b \in 0..(TopBit + 1) : ~(2^b \in Nat /\ 2^b >= 1)}
<1>3. ASSUME Wrong # {} PROVE FALSE
  <2>1. Wrong \subseteq Nat
    BY BitsType
  <2>. HIDE DEF Wrong
  <2>2. PICK b \in Wrong : \A a \in Wrong : b <= a
    BY <1>3, <2>1, LeastNatural
  <2>3. b \in 0..(TopBit + 1) /\ ~(2^b \in Nat /\ 2^b >= 1)
    BY <2>2 DEF Wrong
  <2>4. ASSUME b = 0 PROVE FALSE
    <3>1. 2^b = 1
      BY <1>1, <2>4
    <3>2. 1 \in Nat /\ 1 >= 1
      OBVIOUS
    <3>. QED BY <2>3, <3>1, <3>2
  <2>5. PICK a \in Bits : b = a + 1
    <3>1. b - 1 \in Bits /\ b = (b - 1) + 1
      BY <2>3, <2>4, BitsType DEF Bits
    <3>. QED BY <3>1
  <2>6. a \notin Wrong
    BY <2>1, <2>2, <2>5, BitsType
  <2>7. a \in 0..(TopBit + 1)
    BY <2>5, BitsType DEF Bits
  <2>8. 2^a \in Nat /\ 2^a >= 1
    BY <2>6, <2>7 DEF Wrong
  <2>9. 2^b = 2 * 2^a
    BY <1>2, <2>5
  <2>. DEFINE p == 2^a
  <2>10. p \in Nat /\ p >= 1 /\ 2^b = 2 * p
    BY <2>8, <2>9
  <2>. HIDE DEF p
  <2>11. 2 * p \in Nat /\ 2 * p >= 1
    BY <2>10
  <2>. QED BY <2>3, <2>10, <2>11
<1>. QED BY <1>1, <1>2, <1>3

\* A power is its exponent's parts' powers multiplied.
LEMMA PowersSplit ==
    \A b, a \in 0..(TopBit + 1) : a <= b => 2^b = 2^(b - a) * 2^a
<1>. DEFINE Top == 0..(TopBit + 1)
            Wrong == {b \in Top : \E a \in Top : a <= b /\ 2^b # 2^(b - a) * 2^a}
<1>1. ASSUME Wrong # {} PROVE FALSE
  <2>1. Wrong \subseteq Nat
    BY BitsType
  <2>. HIDE DEF Wrong
  <2>2. PICK b \in Wrong : \A c \in Wrong : b <= c
    BY <1>1, <2>1, LeastNatural
  <2>3. b \in Top /\ \E a \in Top : a <= b /\ 2^b # 2^(b - a) * 2^a
    BY <2>2 DEF Wrong
  <2>4. PICK a \in Top : a <= b /\ 2^b # 2^(b - a) * 2^a
    BY <2>3
  <2>5. a \in Nat /\ b \in Nat /\ b <= TopBit + 1
    BY <2>3, BitsType
  <2>6. ASSUME a = b PROVE FALSE
    <3>1. b - a = 0
      BY <2>5, <2>6
    <3>2. 2^(b - a) = 1
      BY <3>1, Doubles
    <3>3. 2^a \in Nat /\ 2^b = 2^a
      BY <2>4, <2>6, Doubles
    <3>. DEFINE p == 2^a
                d == 2^(b - a)
    <3>4. p \in Nat /\ 2^b = p /\ d = 1 /\ 2^b # d * p
      BY <2>4, <3>2, <3>3
    <3>. HIDE DEF p, d
    <3>. QED BY <3>4
  <2>7. PICK c \in Bits : b = c + 1
    <3>1. b - 1 \in Bits /\ b = (b - 1) + 1
      BY <2>4, <2>5, <2>6, BitsType DEF Bits
    <3>. QED BY <3>1
  <2>8. c \in Top /\ c < b /\ a <= c /\ c - a \in Bits /\ b - a = (c - a) + 1
    BY <2>4, <2>5, <2>6, <2>7, BitsType DEF Bits
  <2>9. 2^c = 2^(c - a) * 2^a
    <3>1. c \notin Wrong
      BY <2>1, <2>2, <2>5, <2>8
    <3>. QED BY <3>1, <2>8 DEF Wrong
  <2>10. 2^b = 2 * 2^c /\ 2^(b - a) = 2 * 2^(c - a)
    BY <2>7, <2>8, Doubles
  <2>11. 2^a \in Nat /\ 2^(c - a) \in Nat
    <3>1. c - a \in Top
      BY <2>8, BitsType DEF Bits
    <3>. QED BY <2>4, <3>1, Doubles
  <2>. DEFINE p == 2^a
              d == 2^(c - a)
  <2>12. \A x \in Nat, y \in Nat : 2 * (y * x) = (2 * y) * x
    OBVIOUS
  <2>13. p \in Nat /\ d \in Nat /\ 2^b = 2 * (d * p) /\ 2^(b - a) = 2 * d
    BY <2>9, <2>10, <2>11
  <2>. HIDE DEF p, d
  <2>14. 2^b = (2 * d) * p
    BY <2>12, <2>13
  <2>15. 2^b = 2^(b - a) * 2^a
    BY <2>13, <2>14 DEF p
  <2>. QED BY <2>4, <2>15
<1>. QED BY <1>1

\* Multiples of one number are ordered as their factors.
LEMMA Scaling ==
    \A a, b, s \in Nat : (a <= b => a * s <= b * s) /\ (a < b => a * s + s <= b * s)
<1>. TAKE a, b, s \in Nat
<1>1. ASSUME a <= b PROVE a * s <= b * s
  <2>1. PICK d \in Nat : b = a + d
    <3>1. b - a \in Nat /\ b = a + (b - a)
      BY <1>1
    <3>. QED BY <3>1
  <2>2. (a + d) * s = a * s + d * s /\ d * s \in Nat /\ a * s \in Nat
    OBVIOUS
  <2>. QED BY <2>1, <2>2
<1>2. ASSUME a < b PROVE a * s + s <= b * s
  <2>1. PICK d \in Nat : b = (a + 1) + d
    <3>1. b - (a + 1) \in Nat /\ b = (a + 1) + (b - (a + 1))
      BY <1>2
    <3>. QED BY <3>1
  <2>2. ((a + 1) + d) * s = (a * s + s) + d * s /\ d * s \in Nat /\ a * s \in Nat
    OBVIOUS
  <2>. QED BY <2>1, <2>2
<1>. QED BY <1>1, <1>2

\* Powers of two are ordered as their exponents, a larger one at least twice as large.
LEMMA PowersOrdered ==
    \A a, b \in 0..(TopBit + 1) : (a <= b => 2^a <= 2^b) /\ (a < b => 2 * 2^a <= 2^b)
<1>1. \A a, b \in 0..(TopBit + 1) : a <= b => 2^a <= 2^b
  <2>. TAKE a, b \in 0..(TopBit + 1)
  <2>. HAVE a <= b
  <2>1. b - a \in 0..(TopBit + 1) /\ a \in Nat /\ b \in Nat
    BY BitsType
  <2>2. 2^b = 2^(b - a) * 2^a /\ 2^a \in Nat /\ 2^(b - a) \in Nat /\ 2^(b - a) >= 1
    BY <2>1, PowersSplit, Doubles
  <2>. DEFINE p == 2^a
              d == 2^(b - a)
  <2>3. 2^b = d * p /\ p \in Nat /\ d \in Nat /\ 1 <= d
    BY <2>2
  <2>. HIDE DEF p, d
  <2>4. 1 * p <= d * p
    BY <2>3, Scaling
  <2>5. 1 * p = p
    BY <2>3
  <2>. QED BY <2>3, <2>4, <2>5 DEF p
<1>2. \A a, b \in 0..(TopBit + 1) : a < b => 2 * 2^a <= 2^b
  <2>. TAKE a, b \in 0..(TopBit + 1)
  <2>. HAVE a < b
  <2>1. a + 1 \in 0..(TopBit + 1) /\ a \in Bits /\ a + 1 <= b
    BY BitsType DEF Bits
  <2>. QED BY <1>1, <2>1, Doubles
<1>. QED BY <1>1, <1>2

\* A positive number of at most TopBit bits and one lies in one place between powers.
LEMMA Log2Is ==
    ASSUME NEW n \in Nat, n >= 1, n < 2^(TopBit + 1)
    PROVE  Log2(n) \in Bits /\ 2^Log2(n) <= n /\ n < 2^(Log2(n) + 1)
<1>. DEFINE Above == {b \in Bits : n < 2^(b + 1)}
<1>1. Above \subseteq Nat
  BY BitsType
<1>2. TopBit \in Above
  BY BitsType DEF Bits
<1>. HIDE DEF Above
<1>3. PICK b \in Above : \A a \in Above : b <= a
  BY <1>1, <1>2, LeastNatural
<1>4. b \in Bits /\ n < 2^(b + 1)
  BY <1>3 DEF Above
<1>5. 2^b <= n
  <2>1. CASE b = 0
    BY <2>1, Doubles
  <2>2. CASE b # 0
    <3>1. PICK a \in Bits : b = a + 1
      <4>1. b - 1 \in Bits /\ b = (b - 1) + 1
        BY <1>4, <2>2, BitsType DEF Bits
      <4>. QED BY <4>1
    <3>2. a \notin Above
      BY <1>1, <1>3, <3>1, BitsType
    <3>3. ~(n < 2^b)
      BY <3>1, <3>2 DEF Above
    <3>4. 2^b \in Nat
      BY <1>4, Doubles DEF Bits
    <3>. QED BY <3>3, <3>4
  <2>. QED BY <2>1, <2>2
<1>6. \E x \in 0..TopBit : 2^x <= n /\ n < 2^(x + 1)
  BY <1>4, <1>5 DEF Bits
<1>. QED BY <1>6 DEF Log2, Bits

\* Whatever lies in the right place is the logarithm.
LEMMA Log2Unique ==
    ASSUME NEW n \in Nat, n >= 1, n < 2^(TopBit + 1), NEW b \in Bits, 2^b <= n, n < 2^(b + 1)
    PROVE  Log2(n) = b
<1>1. Log2(n) \in Bits /\ 2^Log2(n) <= n /\ n < 2^(Log2(n) + 1)
  BY Log2Is
<1>. DEFINE c == Log2(n)
<1>2. c \in Bits /\ 2^c <= n /\ n < 2^(c + 1)
  BY <1>1
<1>. HIDE DEF c
<1>3. \A x, y \in Bits : x < y /\ 2^y <= n /\ n < 2^(x + 1) => FALSE
  <2>. TAKE x, y \in Bits
  <2>1. x \in Nat /\ y \in Nat /\ x + 1 \in 0..(TopBit + 1) /\ y \in 0..(TopBit + 1)
    BY BitsType DEF Bits
  <2>2. x < y => 2^(x + 1) <= 2^y
    BY <2>1, PowersOrdered
  <2>3. 2^(x + 1) \in Nat /\ 2^y \in Nat
    BY <2>1, Doubles
  <2>. QED BY <2>2, <2>3
<1>4. ~(b < c) /\ ~(c < b)
  BY <1>2, <1>3
<1>5. b \in Nat /\ c \in Nat
  BY <1>2, BitsType
<1>. QED BY <1>4, <1>5 DEF c

\* The logarithm of a power of two is its exponent.
LEMMA Log2Power ==
    ASSUME NEW b \in Bits
    PROVE  Log2(2^b) = b
<1>1. b \in 0..(TopBit + 1) /\ b + 1 \in 0..(TopBit + 1) /\ TopBit + 1 \in 0..(TopBit + 1)
  BY BitsType DEF Bits
<1>2. 2^b \in Nat /\ 2^b >= 1 /\ 2^(b + 1) = 2 * 2^b
  BY <1>1, Doubles
<1>3. 2^(b + 1) <= 2^(TopBit + 1) /\ 2^(TopBit + 1) \in Nat
  <2>1. b + 1 <= TopBit + 1
    BY BitsType
  <2>. QED BY <1>1, <2>1, PowersOrdered, Doubles
<1>. DEFINE p == 2^b
            q == 2^(b + 1)
            t == 2^(TopBit + 1)
<1>4. p \in Nat /\ p >= 1 /\ q = 2 * p /\ q <= t /\ t \in Nat
  BY <1>2, <1>3
<1>. HIDE DEF p, q, t
<1>5. p < q /\ p < t
  BY <1>4
<1>. QED BY <1>4, <1>5, Log2Unique DEF p, q, t

\* next_power_of_two.
LEMMA PaddedLengthIs ==
    ASSUME NEW n \in Nat, n >= 1, n <= 2^TopBit
    PROVE  \E b \in Bits : PaddedLength(n) = 2^b /\ n <= 2^b
<1>0. TopBit \in Bits /\ TopBit \in 0..(TopBit + 1) /\ TopBit + 1 \in 0..(TopBit + 1)
  BY BitsType DEF Bits
<1>1. 2^TopBit \in Nat /\ 2^TopBit >= 1 /\ 2^(TopBit + 1) = 2 * 2^TopBit
  BY <1>0, Doubles
<1>2. n < 2^(TopBit + 1)
  <2>. DEFINE t == 2^TopBit
  <2>1. t \in Nat /\ t >= 1 /\ n <= t /\ 2^(TopBit + 1) = 2 * t
    BY <1>1
  <2>. HIDE DEF t
  <2>2. n < 2 * t
    BY <2>1
  <2>. QED BY <2>1, <2>2
<1>3. Log2(n) \in Bits /\ 2^Log2(n) <= n /\ n < 2^(Log2(n) + 1)
  BY <1>2, Log2Is
<1>. DEFINE c == Log2(n)
<1>4. CASE 2^c = n
  BY <1>3, <1>4 DEF PaddedLength
<1>5. CASE 2^c # n
  <2>1. c \in Bits /\ 2^c <= n /\ n < 2^(c + 1) /\ PaddedLength(n) = 2^(c + 1)
    BY <1>3, <1>5 DEF PaddedLength
  <2>. HIDE DEF c
  <2>2. c # TopBit
    BY <1>1, <1>5, <2>1
  <2>3. c + 1 \in Bits
    BY <2>1, <2>2, BitsType DEF Bits
  <2>4. n <= 2^(c + 1)
    <3>1. 2^(c + 1) \in Nat
      <4>1. c + 1 \in 0..(TopBit + 1)
        BY <2>3, BitsType DEF Bits
      <4>. QED BY <4>1, Doubles
    <3>. QED BY <2>1, <3>1
  <2>. QED BY <2>1, <2>3, <2>4
<1>. QED BY <1>4, <1>5

-----------------------------------------------------------------------------
(***************************************************************************)
(* Dyadic blocks.                                                          *)
(***************************************************************************)
\* The p-th aligned block of 2^b positions.
Block(b, p) == Run(p * 2^b, 2^b)

\* The aligned blocks of 2^b positions, of the first 2^n, that lie outside U.
FreeAt(n, U, b) == {p \in Nat : p * 2^b + 2^b <= 2^n /\ Block(b, p) \cap U = {}}

\* The free space is as whole as can be: every free block but the first of its size
\* is a part of a free block of twice its size.
Whole(n, U) ==
    \A b \in 0..n : \A x, y \in FreeAt(n, U, b) :
      x < y => b < n /\ (y \div 2) \in FreeAt(n, U, b + 1)

\* A block of s positions and one of m * s either nest or are apart.
LEMMA Meeting ==
    ASSUME NEW s \in Nat, NEW m \in Nat, NEW i \in Nat, NEW lo \in Nat, NEW z \in Int,
           i * s <= z, z < i * s + s, lo * (m * s) <= z, z < lo * (m * s) + m * s
    PROVE  lo * m <= i /\ i < lo * m + m
<1>. DEFINE start == lo * m
<1>1. start \in Nat /\ m * s \in Nat /\ i * s \in Nat /\ start * s \in Nat
  OBVIOUS
<1>2. lo * (m * s) = start * s
  OBVIOUS
<1>3. (start + m) * s = start * s + m * s
  OBVIOUS
<1>4. start + m \in Nat
  BY <1>1
<1>5. start * s <= z /\ z < (start + m) * s
  BY <1>2, <1>3
<1>6. (start + m) * s \in Nat
  BY <1>1, <1>3
<1>. HIDE DEF start
<1>7. ASSUME i < start PROVE FALSE
  <2>1. i * s + s <= start * s
    BY <1>1, <1>7, Scaling
  <2>. QED BY <1>1, <1>5, <2>1
<1>8. ASSUME start + m <= i PROVE FALSE
  <2>1. (start + m) * s <= i * s
    BY <1>4, <1>8, Scaling
  <2>. QED BY <1>1, <1>5, <1>6, <2>1
<1>9. start <= i /\ i < start + m
  BY <1>1, <1>7, <1>8
<1>. QED BY <1>9 DEF start

\* Blocks of s whose numbers lie in a range of m lie in a block of m * s.
LEMMA Nesting ==
    ASSUME NEW s \in Nat, NEW m \in Nat, NEW i \in Nat, NEW lo \in Nat,
           lo * m <= i, i < lo * m + m
    PROVE  lo * (m * s) <= i * s /\ i * s + s <= lo * (m * s) + m * s
<1>. DEFINE start == lo * m
<1>1. start \in Nat /\ m * s \in Nat /\ i * s \in Nat /\ start * s \in Nat
  OBVIOUS
<1>2. lo * (m * s) = start * s
  OBVIOUS
<1>3. (start + m) * s = start * s + m * s
  OBVIOUS
<1>4. start + m \in Nat /\ start <= i /\ i < start + m
  BY <1>1
<1>. HIDE DEF start
<1>5. start * s <= i * s /\ i * s + s <= (start + m) * s
  BY <1>1, <1>4, Scaling
<1>. QED BY <1>2, <1>3, <1>5

\* A block is the block of half its number's two halves.
LEMMA TwoHalves ==
    ASSUME NEW r \in Nat, NEW y \in Nat
    PROVE  LET h == y \div 2
           IN /\ h \in Nat /\ (y = 2 * h \/ y = 2 * h + 1)
              /\ Run(h * (2 * r), 2 * r) = Run((2 * h) * r, r) \cup Run((2 * h + 1) * r, r)
<1>. DEFINE h == y \div 2
<1>1. h \in Nat /\ (y = 2 * h \/ y = 2 * h + 1)
  OBVIOUS
<1>. HIDE DEF h
<1>2. h * (2 * r) = 2 * (h * r) /\ (2 * h) * r = 2 * (h * r) /\ (2 * h + 1) * r = 2 * (h * r) + r
      /\ h * r \in Nat
  BY <1>1
<1>. DEFINE a == h * r
<1>3. Run(h * (2 * r), 2 * r) = (2 * a)..(2 * a + 2 * r - 1)
      /\ Run((2 * h) * r, r) = (2 * a)..(2 * a + r - 1)
      /\ Run((2 * h + 1) * r, r) = (2 * a + r)..(2 * a + r + r - 1)
      /\ a \in Nat
  BY <1>2 DEF Run
<1>. HIDE DEF a
<1>4. (2 * a)..(2 * a + 2 * r - 1) = ((2 * a)..(2 * a + r - 1)) \cup ((2 * a + r)..(2 * a + r + r - 1))
  BY <1>3
<1>. QED BY <1>1, <1>3, <1>4 DEF h

\* What a size up to 2^n is.
LEMMA Sizes ==
    ASSUME NEW n \in Bits, NEW b \in 0..n
    PROVE  /\ b \in Nat /\ n \in Nat /\ b \in Bits /\ b \in 0..(TopBit + 1)
           /\ 2^b \in Nat /\ 2^b >= 1 /\ 2^(b + 1) = 2 * 2^b /\ 2^n \in Nat
<1>1. b \in Nat /\ n \in Nat /\ b \in Bits /\ b \in 0..(TopBit + 1) /\ n \in 0..(TopBit + 1)
  BY BitsType DEF Bits
<1>. QED BY <1>1, Doubles

\* The blocks inside a free block are free.
LEMMA PartsAreFree ==
    ASSUME NEW n \in Bits, NEW U, NEW b \in 0..n, NEW k \in 0..n, k <= b,
           NEW y \in FreeAt(n, U, b), NEW i \in Nat,
           y * 2^(b - k) <= i, i < y * 2^(b - k) + 2^(b - k)
    PROVE  i \in FreeAt(n, U, k)
<1>. DEFINE m == 2^(b - k)
            s == 2^k
            t == 2^n
<1>1. 2^b = m * s /\ m \in Nat /\ s \in Nat /\ t \in Nat
  <2>1. b - k \in 0..n /\ b \in 0..(TopBit + 1) /\ k \in 0..(TopBit + 1)
    BY Sizes
  <2>. QED BY <2>1, Sizes, PowersSplit
<1>2. y \in Nat /\ y * 2^b + 2^b <= 2^n /\ Block(b, y) \cap U = {}
  BY DEF FreeAt
<1>3. y * (m * s) + m * s <= t /\ Run(y * (m * s), m * s) \cap U = {}
  BY <1>1, <1>2 DEF Block
<1>4. y * m <= i /\ i < y * m + m
  OBVIOUS
<1>. HIDE DEF m, s, t
<1>5. y * (m * s) <= i * s /\ i * s + s <= y * (m * s) + m * s
  BY <1>1, <1>2, <1>4, Nesting
<1>6. i * s \in Nat /\ m * s \in Nat /\ y * (m * s) \in Nat
  BY <1>1, <1>2
<1>. DEFINE a == i * s
            c == y * (m * s)
            d == m * s
<1>7. a \in Nat /\ c \in Nat /\ d \in Nat /\ c <= a /\ a + s <= c + d /\ c + d <= t
  BY <1>3, <1>5, <1>6
<1>8. Run(c, d) \cap U = {}
  BY <1>3
<1>. HIDE DEF a, c, d
<1>9. Run(a, s) \subseteq Run(c, d)
  BY <1>1, <1>7 DEF Run
<1>10. a + s <= t
  BY <1>1, <1>7
<1>11. i * s + s <= t /\ Run(i * s, s) \cap U = {}
  BY <1>8, <1>9, <1>10 DEF a
<1>. QED BY <1>11 DEF FreeAt, Block, s, t

\* A block's half is a block's half whichever half it is.
LEMMA HalfBlocks ==
    ASSUME NEW n \in Bits, NEW b \in 0..n, NEW y \in Nat
    PROVE  LET h == y \div 2
           IN /\ h \in Nat /\ (y = 2 * h \/ y = 2 * h + 1)
              /\ Block(b + 1, h) = Block(b, 2 * h) \cup Block(b, 2 * h + 1)
<1>. DEFINE r == 2^b
            h == y \div 2
<1>1. r \in Nat /\ 2^(b + 1) = 2 * r
  BY Sizes
<1>2. Block(b + 1, h) = Run(h * (2 * r), 2 * r)
  BY <1>1 DEF Block
<1>3. Block(b, 2 * h) = Run((2 * h) * r, r) /\ Block(b, 2 * h + 1) = Run((2 * h + 1) * r, r)
  BY DEF Block
<1>4. /\ h \in Nat /\ (y = 2 * h \/ y = 2 * h + 1)
      /\ Run(h * (2 * r), 2 * r) = Run((2 * h) * r, r) \cup Run((2 * h + 1) * r, r)
  <2>. HIDE DEF r
  <2>. QED BY <1>1, TwoHalves
<1>. QED BY <1>2, <1>3, <1>4

\* Where two blocks meet the smaller is in the larger.
LEMMA BlocksMeet ==
    ASSUME NEW n \in Bits, NEW b \in 0..n, NEW k \in 0..n, k <= b, NEW w \in Nat, NEW p \in Nat,
           NEW z \in Block(b, w) \cap Block(k, p)
    PROVE  w * 2^(b - k) <= p /\ p < w * 2^(b - k) + 2^(b - k)
<1>. DEFINE m == 2^(b - k)
            s == 2^k
<1>1. 2^b = m * s /\ m \in Nat /\ s \in Nat
  <2>1. b - k \in 0..n /\ b \in 0..(TopBit + 1) /\ k \in 0..(TopBit + 1)
    BY Sizes
  <2>. QED BY <2>1, Sizes, PowersSplit
<1>2. z \in Run(w * (m * s), m * s) /\ z \in Run(p * s, s)
  BY <1>1 DEF Block
<1>. HIDE DEF m, s
<1>3. w * (m * s) \in Nat /\ m * s \in Nat /\ p * s \in Nat
  BY <1>1
<1>. DEFINE c == w * (m * s)
            d == m * s
            a == p * s
<1>4. z \in c..(c + d - 1) /\ z \in a..(a + s - 1) /\ c \in Nat /\ d \in Nat /\ a \in Nat
  BY <1>2, <1>3 DEF Run
<1>5. z \in Int /\ c <= z /\ z < c + d /\ a <= z /\ z < a + s
  <2>. HIDE DEF a, c, d
  <2>. QED BY <1>1, <1>4
<1>6. w * m <= p /\ p < w * m + m
  BY <1>1, <1>5, Meeting
<1>. QED BY <1>6 DEF m

\* A block has positions.
LEMMA BlockStarts ==
    ASSUME NEW n \in Bits, NEW b \in 0..n, NEW y \in Nat
    PROVE  y * 2^b \in Block(b, y)
<1>1. 2^b \in Nat /\ 2^b >= 1
  BY Sizes
<1>. DEFINE s == 2^b
<1>2. y * s \in Nat /\ s \in Nat /\ s >= 1
  BY <1>1
<1>3. Block(b, y) = (y * s)..(y * s + s - 1)
  BY DEF Block, Run
<1>. HIDE DEF s
<1>. DEFINE a == y * s
<1>4. a \in a..(a + s - 1)
  <2>1. a \in Nat
    BY <1>2
  <2>. HIDE DEF a
  <2>. QED BY <1>2, <2>1
<1>. QED BY <1>3, <1>4 DEF s

\* At first everything is free.
LEMMA EmptyIsWhole ==
    ASSUME NEW n \in Bits
    PROVE  Whole(n, {})
<1>. SUFFICES ASSUME NEW b \in 0..n, NEW x \in FreeAt(n, {}, b), NEW y \in FreeAt(n, {}, b), x < y
     PROVE  b < n /\ (y \div 2) \in FreeAt(n, {}, b + 1)
  BY DEF Whole
<1>. DEFINE r == 2^b
            t == 2^n
            h == y \div 2
<1>1. r \in Nat /\ r >= 1 /\ t \in Nat /\ 2^(b + 1) = 2 * r /\ b \in Nat /\ n \in Nat
  BY Sizes
<1>2. x \in Nat /\ y \in Nat /\ y * r + r <= t
  BY DEF FreeAt
<1>3. b < n
  <2>1. ASSUME b = n PROVE FALSE
    <3>1. r = t
      BY <2>1
    <3>. HIDE DEF r, t
    <3>2. y * r + r <= r
      BY <1>2, <3>1
    <3>3. 0 * r + r <= y * r
      BY <1>1, <1>2, Scaling
    <3>4. 0 * r = 0 /\ y * r \in Nat
      BY <1>1, <1>2
    <3>. QED BY <1>1, <3>2, <3>3, <3>4
  <2>. QED BY <1>1, <2>1
<1>4. h * (2 * r) + 2 * r <= t
  <2>1. 2^n = 2^(n - b - 1) * 2^(b + 1) /\ 2^(n - b - 1) \in Nat
    <3>1. n \in 0..(TopBit + 1) /\ b + 1 \in 0..(TopBit + 1) /\ b + 1 <= n
      BY <1>3, Sizes, BitsType DEF Bits
    <3>2. n - (b + 1) \in 0..n /\ n - (b + 1) = n - b - 1
      BY <1>1, <3>1
    <3>3. 2^(n - (b + 1)) \in Nat /\ 2^n = 2^(n - (b + 1)) * 2^(b + 1)
      BY <3>1, <3>2, Sizes, PowersSplit
    <3>. QED BY <3>2, <3>3
  <2>. DEFINE m == 2^(n - b - 1)
              d == 2 * r
  <2>2. t = m * d /\ m \in Nat /\ d \in Nat
    BY <1>1, <2>1
  <2>3. h \in Nat /\ (y = 2 * h \/ y = 2 * h + 1)
    BY <1>2, TwoHalves, <1>1
  <2>. HIDE DEF m, h
  <2>4. ASSUME m <= h PROVE FALSE
    <3>1. m * d <= h * d
      BY <2>2, <2>3, <2>4, Scaling
    <3>2. h * d = (2 * h) * r
      BY <1>1, <2>3
    <3>3. (2 * h) * r <= y * r
      <4>1. 2 * h <= y /\ 2 * h \in Nat
        BY <1>2, <2>3
      <4>. QED BY <1>1, <1>2, <4>1, Scaling
    <3>4. y * r \in Nat /\ (2 * h) * r \in Nat
      BY <1>1, <1>2, <2>3
    <3>5. m * d <= y * r
      BY <3>1, <3>2, <3>3, <3>4, <2>2
    <3>. HIDE DEF r, t, d
    <3>. QED BY <1>1, <1>2, <2>2, <3>4, <3>5
  <2>5. h * d + d <= m * d
    BY <2>2, <2>3, <2>4, Scaling
  <2>. QED BY <2>2, <2>5
<1>5. h \in Nat
  BY <1>2
<1>6. h * 2^(b + 1) + 2^(b + 1) <= 2^n
  BY <1>1, <1>4
<1>. QED BY <1>3, <1>5, <1>6 DEF FreeAt

\* Taking the first free block of a size leaves the free space as whole as before:
\* its sibling, if it becomes the half of a block no longer free, is the first of
\* its size.
LEMMA FirstFitKeepsWhole ==
    ASSUME NEW n \in Bits, NEW U, Whole(n, U), NEW k \in 0..n, NEW p \in FreeAt(n, U, k),
           \A q \in FreeAt(n, U, k) : p <= q
    PROVE  Whole(n, U \cup Block(k, p))
<1>. DEFINE taken == U \cup Block(k, p)
<1>1. SUFFICES ASSUME NEW b \in 0..n, NEW x \in FreeAt(n, taken, b), NEW y \in FreeAt(n, taken, b),
                      x < y
               PROVE  b < n /\ (y \div 2) \in FreeAt(n, taken, b + 1)
  BY DEF Whole
<1>2. /\ x \in FreeAt(n, U, b) /\ y \in FreeAt(n, U, b)
      /\ x \in Nat /\ y \in Nat /\ p \in Nat
      /\ Block(b, x) \cap Block(k, p) = {} /\ Block(b, y) \cap Block(k, p) = {}
  BY DEF FreeAt
<1>. DEFINE h == y \div 2
<1>3. b < n /\ h \in FreeAt(n, U, b + 1)
  BY <1>1, <1>2 DEF Whole
<1>4. h \in Nat /\ h * 2^(b + 1) + 2^(b + 1) <= 2^n /\ Block(b + 1, h) \cap U = {}
  BY <1>3 DEF FreeAt
<1>5. /\ (y = 2 * h \/ y = 2 * h + 1)
      /\ Block(b + 1, h) = Block(b, 2 * h) \cup Block(b, 2 * h + 1)
  BY <1>2, HalfBlocks
<1>6. b \in Nat /\ k \in Nat /\ n \in Nat /\ b + 1 \in 0..n
  BY <1>3, Sizes
<1>. HIDE DEF h, taken
<1>7. ASSUME NEW z \in Block(b + 1, h) \cap Block(k, p) PROVE FALSE
  <2>1. CASE b + 1 <= k
    <3>. DEFINE m == 2^(k - (b + 1))
    <3>1. p * m <= h /\ h < p * m + m
      BY <1>2, <1>4, <1>6, <1>7, <2>1, BlocksMeet
    <3>2. Block(b + 1, h) \subseteq Block(k, p)
      <4>. DEFINE s == 2^(b + 1)
      <4>1. 2^k = m * s /\ m \in Nat /\ s \in Nat
        <5>1. k - (b + 1) \in 0..n /\ k \in 0..(TopBit + 1) /\ b + 1 \in 0..(TopBit + 1)
          BY <1>6, <2>1, Sizes
        <5>. QED BY <2>1, <5>1, <1>6, Sizes, PowersSplit
      <4>. HIDE DEF m, s
      <4>2. p * (m * s) <= h * s /\ h * s + s <= p * (m * s) + m * s
        BY <1>2, <1>4, <3>1, <4>1, Nesting
      <4>3. h * s \in Nat /\ p * (m * s) \in Nat /\ m * s \in Nat
        BY <1>2, <1>4, <4>1
      <4>. DEFINE a == h * s
                  c == p * (m * s)
                  d == m * s
      <4>4. a \in Nat /\ c \in Nat /\ d \in Nat /\ c <= a /\ a + s <= c + d
        BY <4>2, <4>3
      <4>5. Block(b + 1, h) = Run(a, s) /\ Block(k, p) = Run(c, d)
        BY <4>1 DEF Block, s
      <4>. HIDE DEF a, c, d
      <4>6. Run(a, s) \subseteq Run(c, d)
        BY <4>1, <4>4 DEF Run
      <4>. QED BY <4>5, <4>6
    <3>3. y * 2^b \in Block(b, y)
      BY <1>2, BlockStarts
    <3>4. Block(b, y) \subseteq Block(b + 1, h)
      BY <1>5
    <3>. QED BY <1>2, <3>2, <3>3, <3>4
  <2>2. CASE k <= b
    <3>. DEFINE m == 2^(b - k)
    <3>0. m \in Nat /\ m >= 1
      <4>1. b - k \in 0..n
        BY <1>6, <2>2
      <4>. QED BY <4>1, Sizes
    <3>1. PICK w \in Nat : w # y /\ (w = 2 * h \/ w = 2 * h + 1) /\ z \in Block(b, w)
      <4>1. z \notin Block(b, y)
        BY <1>2, <1>7
      <4>2. z \in Block(b, 2 * h) \/ z \in Block(b, 2 * h + 1)
        BY <1>5, <1>7
      <4>3. 2 * h \in Nat /\ 2 * h + 1 \in Nat
        BY <1>4
      <4>. QED BY <4>1, <4>2, <4>3
    <3>2. w * m <= p /\ p < w * m + m
      BY <1>2, <1>7, <2>2, <3>1, BlocksMeet
    <3>3. \A u \in Nat : u \in FreeAt(n, U, b) => p <= u * m
      <4>. SUFFICES ASSUME NEW u \in FreeAt(n, U, b), u \in Nat PROVE p <= u * m
        OBVIOUS
      <4>1. u * m \in Nat /\ u * m <= u * m /\ u * m < u * m + m
        <5>1. u * m \in Nat
          BY <3>0
        <5>. QED BY <3>0, <5>1
      <4>2. u * m \in FreeAt(n, U, k)
        BY <2>2, <4>1, PartsAreFree
      <4>. QED BY <4>2
    <3>. HIDE DEF m
    <3>4. \A u \in Nat : u < w => u * m + m <= w * m /\ u * m \in Nat
      BY <3>0, <3>1, Scaling
    <3>5. p <= y * m /\ p <= x * m
      BY <1>2, <3>3
    <3>6. w * m \in Nat
      BY <3>0, <3>1
    <3>7. ~(y < w) /\ ~(x < w)
      <4>1. \A u \in {x, y} : u < w => FALSE
        <5>. SUFFICES ASSUME NEW u \in {x, y}, u < w PROVE FALSE
          OBVIOUS
        <5>1. u * m + m <= w * m /\ u * m \in Nat /\ p <= u * m
          BY <1>2, <3>4, <3>5
        <5>. DEFINE c == w * m
                    e == u * m
        <5>2. c \in Nat /\ e \in Nat /\ e + m <= c /\ c <= p /\ p <= e
          BY <3>2, <3>6, <5>1
        <5>. HIDE DEF c, e
        <5>. QED BY <1>2, <3>0, <5>2
      <4>. QED BY <4>1
    <3>8. y = 2 * h + 1 /\ w = 2 * h /\ x = w
      BY <1>1, <1>2, <1>4, <1>5, <3>1, <3>7
    <3>. QED BY <1>2, <1>7, <3>1, <3>8
  <2>. QED BY <1>6, <2>1, <2>2
<1>8. Block(b + 1, h) \cap taken = {}
  BY <1>4, <1>7 DEF taken
<1>. QED BY <1>3, <1>4, <1>8 DEF FreeAt, h

\* The positions outside U that lie in a free block of 2^b.
InFree(n, U, b) == UNION {Block(b, p) : p \in FreeAt(n, U, b)}

\* Of the free positions fewer than 2^b lie in no free block of that size.
LEMMA LittleIsScattered ==
    ASSUME NEW n \in Bits, NEW U, Whole(n, U), NEW b \in 0..n
    PROVE  LET rest == (0..(2^n - 1)) \ (U \cup InFree(n, U, b))
           IN IsFiniteSet(rest) /\ Cardinality(rest) \in Nat /\ Cardinality(rest) < 2^b
<1>. DEFINE N == 0..(2^n - 1)
            rest(c) == N \ (U \cup InFree(n, U, c))
            Wrong == {c \in 0..n : ~(Cardinality(rest(c)) < 2^c)}
<1>1. IsFiniteSet(N) /\ 2^n \in Nat /\ n \in Nat
  BY Sizes, FS_Interval
<1>2. \A c : IsFiniteSet(rest(c)) /\ Cardinality(rest(c)) \in Nat
  <2>. TAKE c
  <2>. HIDE DEF N
  <2>1. rest(c) \in SUBSET N
    OBVIOUS
  <2>. HIDE DEF rest
  <2>. QED BY <1>1, <2>1, FS_Subset, FS_CardinalityType
<1>. HIDE DEF rest
<1>3. ASSUME Wrong # {} PROVE FALSE
  <2>1. Wrong \subseteq Nat
    BY <1>1
  <2>. HIDE DEF Wrong
  <2>2. PICK c \in Wrong : \A a \in Wrong : c <= a
    BY <1>3, <2>1, LeastNatural
  <2>3. c \in 0..n /\ c \in Nat /\ ~(Cardinality(rest(c)) < 2^c)
    BY <2>1, <2>2 DEF Wrong
  <2>4. ASSUME c = 0 PROVE FALSE
    <3>1. \A p \in N : p \notin U => p \in InFree(n, U, 0)
      <4>. SUFFICES ASSUME NEW p \in N, p \notin U PROVE p \in InFree(n, U, 0)
        OBVIOUS
      <4>1. p \in Nat /\ p + 1 <= 2^n
        BY <1>1
      <4>2. 2^0 = 1 /\ p * 1 = p
        BY <4>1
      <4>3. Block(0, p) = {p}
        <5>1. Block(0, p) = p..(p + 1 - 1)
          BY <4>2 DEF Block, Run
        <5>. QED BY <4>1, <5>1
      <4>4. p \in FreeAt(n, U, 0)
        BY <4>1, <4>2, <4>3 DEF FreeAt
      <4>. QED BY <4>3, <4>4 DEF InFree
    <3>2. rest(0) = {}
      <4>. HIDE DEF N
      <4>. QED BY <3>1 DEF rest
    <3>3. Cardinality(rest(0)) = 0 /\ 2^0 = 1
      BY <3>2, FS_EmptySet
    <3>. QED BY <2>3, <2>4, <3>3
  <2>5. PICK a \in Nat : c = a + 1
    <3>1. c - 1 \in Nat /\ c = (c - 1) + 1
      BY <2>3, <2>4
    <3>. QED BY <3>1
  <2>6. a \in 0..n /\ a < n
    BY <1>1, <2>3, <2>5
  <2>7. Cardinality(rest(a)) < 2^a
    <3>1. a \notin Wrong
      BY <2>2, <2>3, <2>5
    <3>. QED BY <2>6, <3>1 DEF Wrong
  <2>8. \E B : rest(c) \subseteq rest(a) \cup B /\ IsFiniteSet(B) /\ Cardinality(B) <= 2^a
               /\ Cardinality(B) \in Nat
    <3>1. CASE FreeAt(n, U, a) = {}
      <4>1. InFree(n, U, a) = {}
        BY <3>1 DEF InFree
      <4>2. rest(c) \subseteq rest(a) \cup {}
        BY <4>1 DEF rest
      <4>3. 2^a \in Nat /\ IsFiniteSet({}) /\ Cardinality({}) = 0
        BY <2>6, Sizes, FS_EmptySet
      <4>4. Cardinality({}) <= 2^a /\ Cardinality({}) \in Nat
        BY <4>3
      <4>. QED BY <4>2, <4>3, <4>4
    <3>2. CASE FreeAt(n, U, a) # {}
      <4>1. FreeAt(n, U, a) \subseteq Nat
        BY DEF FreeAt
      <4>2. PICK f \in FreeAt(n, U, a) : \A y \in FreeAt(n, U, a) : f <= y
        BY <3>2, <4>1, LeastNatural
      <4>3. \A y \in FreeAt(n, U, a) : y # f => Block(a, y) \subseteq InFree(n, U, c)
        <5>. SUFFICES ASSUME NEW y \in FreeAt(n, U, a), y # f
                      PROVE  Block(a, y) \subseteq InFree(n, U, c)
          OBVIOUS
        <5>1. f < y /\ y \in Nat
          BY <4>1, <4>2
        <5>2. (y \div 2) \in FreeAt(n, U, c)
          BY <5>1, <2>5, <2>6 DEF Whole
        <5>. DEFINE h == y \div 2
        <5>3. (y = 2 * h \/ y = 2 * h + 1) /\ Block(c, h) = Block(a, 2 * h) \cup Block(a, 2 * h + 1)
          BY <5>1, <2>5, <2>6, HalfBlocks
        <5>. HIDE DEF h
        <5>4. Block(a, y) \subseteq Block(c, h)
          BY <5>3
        <5>. QED BY <5>2, <5>4 DEF InFree, h
      <4>4. rest(c) \subseteq rest(a) \cup Block(a, f)
        <5>1. InFree(n, U, a) \subseteq InFree(n, U, c) \cup Block(a, f)
          BY <4>3 DEF InFree
        <5>. HIDE DEF N
        <5>. QED BY <5>1 DEF rest
      <4>5. 2^a \in Nat /\ f \in Nat /\ 2^a >= 1
        BY <2>6, <4>1, Sizes
      <4>6. IsFiniteSet(Block(a, f)) /\ Cardinality(Block(a, f)) = 2^a
        <5>. DEFINE s == 2^a
                    e == f * s
        <5>1. e \in Nat /\ s \in Nat /\ s >= 1
          BY <4>5
        <5>2. Block(a, f) = e..(e + s - 1)
          BY DEF Block, Run
        <5>. HIDE DEF s, e
        <5>3. e + s - 1 \in Int /\ ~(e > e + s - 1) /\ (e + s - 1) - e + 1 = s
          BY <5>1
        <5>4. IsFiniteSet(e..(e + s - 1)) /\ Cardinality(e..(e + s - 1)) = s
          BY <5>1, <5>3, FS_Interval
        <5>. QED BY <5>2, <5>4 DEF s
      <4>7. Cardinality(Block(a, f)) <= 2^a /\ Cardinality(Block(a, f)) \in Nat
        BY <4>5, <4>6
      <4>. QED BY <4>4, <4>6, <4>7
    <3>. QED BY <3>1, <3>2
  <2>9. PICK B : rest(c) \subseteq rest(a) \cup B /\ IsFiniteSet(B) /\ Cardinality(B) <= 2^a
               /\ Cardinality(B) \in Nat
    BY <2>8
  <2>. DEFINE S == rest(a)
  <2>10. IsFiniteSet(S) /\ Cardinality(S) \in Nat /\ Cardinality(S) < 2^a
    BY <1>2, <2>7
  <2>. HIDE DEF S
  <2>11. IsFiniteSet(S \cup B) /\ Cardinality(S \cup B) = Cardinality(S) + Cardinality(B) - Cardinality(S \cap B)
    BY <2>9, <2>10, FS_Union
  <2>12. Cardinality(S \cap B) \in Nat
    <3>1. IsFiniteSet(S \cap B)
      BY <2>10, FS_Intersection
    <3>. QED BY <3>1, FS_CardinalityType
  <2>13. Cardinality(rest(c)) <= Cardinality(S \cup B)
    <3>1. rest(c) \in SUBSET (S \cup B)
      BY <2>9 DEF S
    <3>. QED BY <2>11, <3>1, FS_Subset
  <2>14. 2^c = 2 * 2^a /\ 2^a \in Nat
    BY <2>5, <2>6, Sizes
  <2>. DEFINE u == Cardinality(S)
              v == Cardinality(B)
              w == Cardinality(S \cap B)
              q == Cardinality(rest(c))
              r == 2^a
  <2>15. /\ u \in Nat /\ v \in Nat /\ w \in Nat /\ q \in Nat /\ r \in Nat
         /\ u < r /\ v <= r /\ q <= u + v - w /\ 2^c = 2 * r
    BY <1>2, <2>9, <2>10, <2>11, <2>12, <2>13, <2>14
  <2>. HIDE DEF u, v, w, q, r
  <2>16. q < 2^c
    BY <2>15
  <2>. QED BY <2>3, <2>16 DEF q
<1>4. Cardinality(rest(b)) < 2^b
  BY <1>3
<1>. QED BY <1>2, <1>4 DEF rest

\* So whatever power of two is left in all, one free block has it.
LEMMA WholeIsUsable ==
    ASSUME NEW n \in Bits, NEW U, U \subseteq 0..(2^n - 1), Whole(n, U), NEW b \in 0..n,
           2^b <= 2^n - Cardinality(U)
    PROVE  FreeAt(n, U, b) # {}
<1>. DEFINE N == 0..(2^n - 1)
<1>0. 2^n \in Nat /\ 2^n >= 1 /\ 2^b \in Nat
  <2>1. n \in 0..n
    BY BitsType
  <2>. QED BY <2>1, Sizes
<1>1. IsFiniteSet(N) /\ Cardinality(N) = 2^n
  <2>. DEFINE t == 2^n
  <2>1. t \in Nat /\ t >= 1
    BY <1>0
  <2>. HIDE DEF t
  <2>2. t - 1 \in Int /\ ~(0 > t - 1) /\ t - 1 - 0 + 1 = t
    BY <2>1
  <2>3. IsFiniteSet(0..(t - 1)) /\ Cardinality(0..(t - 1)) = t
    BY <2>2, FS_Interval
  <2>. QED BY <2>3 DEF t
<1>. HIDE DEF N
<1>2. IsFiniteSet(N \ U) /\ Cardinality(N \ U) = Cardinality(N) - Cardinality(N \cap U)
  BY <1>1, FS_Difference
<1>3. N \cap U = U
  BY DEF N
<1>4. ASSUME FreeAt(n, U, b) = {} PROVE FALSE
  <2>1. InFree(n, U, b) = {}
    BY <1>4 DEF InFree
  <2>2. N \ (U \cup InFree(n, U, b)) = N \ U
    BY <2>1
  <2>3. Cardinality(N \ U) \in Nat /\ Cardinality(N \ U) < 2^b
    BY <2>2, LittleIsScattered DEF N
  <2>4. Cardinality(N \ U) = 2^n - Cardinality(U)
    BY <1>1, <1>2, <1>3
  <2>. DEFINE u == Cardinality(N \ U)
              r == 2^b
  <2>5. u \in Nat /\ r \in Nat /\ u < r /\ r <= u
    BY <1>0, <2>3, <2>4
  <2>. HIDE DEF u, r
  <2>. QED BY <2>5
<1>. QED BY <1>4

-----------------------------------------------------------------------------
(***************************************************************************)
(* The blocks of a size, largest first.                                    *)
(***************************************************************************)
\* Of exponents one is the largest.
LEMMA LargestBit ==
    ASSUME NEW T, T \subseteq Bits, T # {}
    PROVE  \E x \in T : \A y \in T : y <= x
<1>. DEFINE gaps == {TopBit - y : y \in T}
<1>1. gaps \subseteq Nat /\ gaps # {}
  BY BitsType
<1>. HIDE DEF gaps
<1>2. PICK g \in gaps : \A h \in gaps : g <= h
  BY <1>1, LeastNatural
<1>3. PICK x \in T : g = TopBit - x
  BY DEF gaps
<1>4. \A y \in T : y <= x
  <2>. TAKE y \in T
  <2>1. TopBit - y \in gaps
    BY DEF gaps
  <2>2. x \in Nat /\ y \in Nat /\ TopBit \in Nat
    BY BitsType
  <2>. QED BY <1>2, <1>3, <2>1, <2>2
<1>. QED BY <1>4

\* Sets of exponents are finite.
LEMMA BitsFinite ==
    ASSUME NEW T, T \subseteq Bits
    PROVE  IsFiniteSet(T) /\ Cardinality(T) \in Nat
<1>1. IsFiniteSet(Bits)
  BY BitsType, FS_Interval DEF Bits
<1>2. T \in SUBSET Bits
  OBVIOUS
<1>3. IsFiniteSet(T)
  BY <1>1, <1>2, FS_Subset
<1>. QED BY <1>3, FS_CardinalityType

\* The k-th largest exists.
LEMMA NthLargest ==
    ASSUME NEW S, S \subseteq Bits
    PROVE  \A k \in 1..Cardinality(S) : \E b \in S : Cardinality({a \in S : a > b}) = k - 1
<1>0. IsFiniteSet(S) /\ Cardinality(S) \in Nat /\ \A b \in S : b \in Nat
  BY BitsFinite, BitsType
<1>. DEFINE Larger(b) == {a \in S : a > b}
            Wrong == {k \in 1..Cardinality(S) : ~ \E b \in S : Cardinality(Larger(b)) = k - 1}
<1>1. ASSUME Wrong # {} PROVE FALSE
  <2>1. Wrong \subseteq Nat
    BY <1>0
  <2>. HIDE DEF Wrong
  <2>2. PICK k \in Wrong : \A j \in Wrong : k <= j
    BY <1>1, <2>1, LeastNatural
  <2>3. k \in 1..Cardinality(S) /\ k \in Nat /\ ~ \E b \in S : Cardinality(Larger(b)) = k - 1
    BY <2>1, <2>2 DEF Wrong
  <2>4. S # {}
    BY <1>0, <2>3, FS_EmptySet
  <2>5. ASSUME k = 1 PROVE FALSE
    <3>1. PICK b \in S : \A y \in S : y <= b
      BY <2>4, LargestBit
    <3>2. Larger(b) = {}
      BY <1>0, <3>1
    <3>3. Cardinality(Larger(b)) = 0
      BY <3>2, FS_EmptySet
    <3>4. Cardinality(Larger(b)) = k - 1
      BY <2>5, <3>3
    <3>. HIDE DEF Larger
    <3>. QED BY <2>3, <3>4
  <2>6. PICK j \in Nat : k = j + 1 /\ j >= 1
    <3>1. k - 1 \in Nat /\ k = (k - 1) + 1 /\ k - 1 >= 1
      BY <2>3, <2>5
    <3>. QED BY <3>1
  <2>7. PICK b \in S : Cardinality(Larger(b)) = j - 1
    <3>1. j \in 1..Cardinality(S) /\ j \notin Wrong
      BY <1>0, <2>2, <2>3, <2>6
    <3>. QED BY <3>1 DEF Wrong
  <2>8. IsFiniteSet(Larger(b)) /\ b \notin Larger(b) /\ b \in Nat
    <3>1. Larger(b) \subseteq Bits
      OBVIOUS
    <3>. QED BY <1>0, <3>1, BitsFinite
  <2>9. Cardinality(Larger(b) \cup {b}) = j
    <3>. DEFINE A == Larger(b)
    <3>1. IsFiniteSet(A) /\ b \notin A /\ Cardinality(A) = j - 1
      BY <2>7, <2>8
    <3>. HIDE DEF A
    <3>2. Cardinality(A \cup {b}) = Cardinality(A) + 1
      BY <3>1, FS_AddElement
    <3>. QED BY <2>6, <3>1, <3>2 DEF A
  <2>. DEFINE T == {a \in S : a < b}
  <2>10. T # {}
    <3>1. ASSUME T = {} PROVE FALSE
      <4>1. S = Larger(b) \cup {b}
        BY <1>0, <3>1
      <4>. HIDE DEF Larger
      <4>2. Cardinality(S) = j
        BY <2>9, <4>1
      <4>. QED BY <2>3, <2>6, <4>2
    <3>. QED BY <3>1
  <2>11. PICK c \in T : \A y \in T : y <= c
    BY <2>10, LargestBit
  <2>12. c \in S /\ c < b /\ c \in Nat
    BY <1>0, <2>11
  <2>13. Larger(c) = Larger(b) \cup {b}
    <3>1. \A a \in S : a > c <=> (a > b \/ a = b)
      <4>. TAKE a \in S
      <4>1. a \in Nat /\ (a < b => a <= c)
        BY <1>0, <2>11
      <4>. QED BY <2>8, <2>12, <4>1
    <3>. QED BY <2>8, <2>12, <3>1
  <2>. HIDE DEF T, Larger
  <2>. QED BY <2>3, <2>6, <2>9, <2>12, <2>13
<1>. QED BY <1>1

\* The exponent of the k-th block of a size.
BlockBit(n, k) == CHOOSE b \in SetBits(n) : Cardinality({a \in SetBits(n) : a > b}) = k - 1

\* The k-th block of a size is the power of its k-th largest bit.
LEMMA BlockBitIs ==
    ASSUME NEW n, NEW k \in 1..Cardinality(SetBits(n))
    PROVE  /\ BlockBit(n, k) \in SetBits(n) /\ BlockBit(n, k) \in Bits
           /\ Cardinality({a \in SetBits(n) : a > BlockBit(n, k)}) = k - 1
           /\ BlockSizes(n)[k] = 2^BlockBit(n, k)
<1>1. SetBits(n) \subseteq Bits
  BY DEF SetBits, Bits
<1>2. \E b \in SetBits(n) : Cardinality({a \in SetBits(n) : a > b}) = k - 1
  BY <1>1, NthLargest
<1>3. BlockBit(n, k) \in SetBits(n) /\ Cardinality({a \in SetBits(n) : a > BlockBit(n, k)}) = k - 1
  BY <1>2 DEF BlockBit
<1>4. BlockSizes(n)[k] = 2^BlockBit(n, k)
  BY DEF BlockSizes, BlockBit
<1>. QED BY <1>1, <1>3, <1>4

\* A later block has a smaller exponent.
LEMMA BlocksShrink ==
    ASSUME NEW n, NEW k \in Nat, k >= 1, k + 1 \in 1..Cardinality(SetBits(n))
    PROVE  BlockBit(n, k + 1) < BlockBit(n, k)
<1>. DEFINE S == SetBits(n)
            b == BlockBit(n, k)
            c == BlockBit(n, k + 1)
<1>0. S \subseteq Bits
  BY DEF SetBits, Bits
<1>00. Cardinality(S) \in Nat /\ \A a \in S : a \in Nat
  BY <1>0, BitsFinite, BitsType
<1>1. k \in 1..Cardinality(S)
  BY <1>00
<1>2. b \in S /\ c \in S /\ Cardinality({a \in S : a > b}) = k - 1
      /\ Cardinality({a \in S : a > c}) = k
  <2>1. Cardinality({a \in S : a > c}) = (k + 1) - 1 /\ c \in S
    BY BlockBitIs
  <2>2. Cardinality({a \in S : a > b}) = k - 1 /\ b \in S
    BY <1>1, BlockBitIs
  <2>. QED BY <2>1, <2>2
<1>. HIDE DEF S, b, c
<1>3. ASSUME b <= c PROVE FALSE
  <2>. DEFINE A == {a \in S : a > c}
              B == {a \in S : a > b}
  <2>1. A \in SUBSET B
    BY <1>00, <1>2, <1>3
  <2>2. IsFiniteSet(B)
    <3>1. B \subseteq Bits
      BY <1>0
    <3>. QED BY <3>1, BitsFinite
  <2>. HIDE DEF A, B
  <2>3. Cardinality(A) <= Cardinality(B)
    BY <2>1, <2>2, FS_Subset
  <2>. QED BY <1>2, <2>3 DEF A, B
<1>. QED BY <1>00, <1>2, <1>3 DEF b, c

\* What the bits of n from b on add up to.
High(n, b) == (n \div 2^b) * 2^b

\* The bits from b on are a natural number no larger than n.
LEMMA HighIs ==
    ASSUME NEW n \in Nat, NEW b \in 0..(TopBit + 1)
    PROVE  High(n, b) \in Nat /\ High(n, b) <= n
<1>. DEFINE r == 2^b
<1>1. r \in Nat /\ r >= 1
  BY Doubles
<1>. HIDE DEF r
<1>2. n \div r \in Nat /\ (n \div r) * r <= n
  BY <1>1
<1>3. (n \div r) * r \in Nat
  BY <1>1, <1>2
<1>. QED BY <1>2, <1>3 DEF High, r

\* One bit more: no less, and its power more if it is set.
LEMMA HighSteps ==
    ASSUME NEW n \in Nat, NEW b \in Bits
    PROVE  /\ High(n, b + 1) <= High(n, b)
           /\ b \in SetBits(n) => High(n, b + 1) + 2^b = High(n, b)
<1>. DEFINE r == 2^b
            q == n \div r
            h == q \div 2
<1>1. r \in Nat /\ r >= 1 /\ 2^(b + 1) = 2 * r
  <2>1. b \in 0..(TopBit + 1)
    BY BitsType DEF Bits
  <2>. QED BY <2>1, Doubles
<1>2. q \in Nat /\ n \div (2 * r) = h
  <2>. HIDE DEF r
  <2>. QED BY <1>1
<1>3. h \in Nat /\ (q = 2 * h \/ q = 2 * h + 1) /\ (q % 2 = 1 => q = 2 * h + 1)
  <2>. HIDE DEF q
  <2>. QED BY <1>2
<1>4. High(n, b) = q * r /\ High(n, b + 1) = h * (2 * r)
  BY <1>1, <1>2 DEF High
<1>5. b \in SetBits(n) => q % 2 = 1
  BY DEF SetBits
<1>. HIDE DEF r, q, h
<1>6. h * (2 * r) = (2 * h) * r /\ (2 * h + 1) * r = (2 * h) * r + r /\ (2 * h) * r \in Nat
  BY <1>1, <1>3
<1>. DEFINE c == (2 * h) * r
            u == High(n, b)
            v == High(n, b + 1)
<1>7. u = c \/ u = c + r
  <2>1. q * r = c \/ q * r = c + r
    BY <1>3, <1>6
  <2>. QED BY <1>4, <2>1
<1>8. v = c /\ c \in Nat
  BY <1>4, <1>6
<1>9. b \in SetBits(n) => u = c + r
  <2>1. b \in SetBits(n) => q = 2 * h + 1
    BY <1>3, <1>5
  <2>. QED BY <1>4, <1>6, <2>1
<1>. HIDE DEF c, u, v
<1>10. v <= u /\ (b \in SetBits(n) => v + r = u)
  BY <1>1, <1>7, <1>8, <1>9
<1>. QED BY <1>10 DEF u, v, r

\* The more bits, the more they add up to.
LEMMA HighOrdered ==
    ASSUME NEW n \in Nat
    PROVE  \A b, a \in 0..(TopBit + 1) : a <= b => High(n, b) <= High(n, a)
<1>. DEFINE Top == 0..(TopBit + 1)
            Wrong == {b \in Top : \E a \in Top : a <= b /\ ~(High(n, b) <= High(n, a))}
<1>1. ASSUME Wrong # {} PROVE FALSE
  <2>1. Wrong \subseteq Nat
    BY BitsType
  <2>. HIDE DEF Wrong
  <2>2. PICK b \in Wrong : \A c \in Wrong : b <= c
    BY <1>1, <2>1, LeastNatural
  <2>3. b \in Top /\ \E a \in Top : a <= b /\ ~(High(n, b) <= High(n, a))
    BY <2>2 DEF Wrong
  <2>4. PICK a \in Top : a <= b /\ ~(High(n, b) <= High(n, a))
    BY <2>3
  <2>5. a \in Nat /\ b \in Nat /\ b <= TopBit + 1
    BY <2>3, BitsType
  <2>6. High(n, a) \in Nat /\ High(n, b) \in Nat
    BY <2>3, <2>4, HighIs
  <2>7. a # b
    BY <2>4, <2>6
  <2>8. PICK c \in Bits : b = c + 1
    <3>1. b - 1 \in Bits /\ b = (b - 1) + 1
      BY <2>4, <2>5, <2>7, BitsType DEF Bits
    <3>. QED BY <3>1
  <2>9. c \in Top /\ c < b /\ a <= c
    BY <2>4, <2>5, <2>7, <2>8, BitsType DEF Bits
  <2>10. High(n, c) <= High(n, a)
    <3>1. c \notin Wrong
      BY <2>1, <2>2, <2>5, <2>9
    <3>. QED BY <2>4, <2>9, <3>1 DEF Wrong
  <2>11. High(n, b) <= High(n, c)
    BY <2>8, HighSteps
  <2>12. High(n, c) \in Nat
    BY <2>9, HighIs
  <2>. QED BY <2>4, <2>6, <2>10, <2>11, <2>12
<1>. QED BY <1>1

\* A bound on what the first k blocks of a component of n positions take.
Reach(n, k) == IF k = 0 THEN 0 ELSE High(n, BlockBit(n, k))

\* The bound grows by the next block at least and stays within the component.
LEMMA ReachGrows ==
    ASSUME NEW n \in Nat, NEW k \in Nat, k < Cardinality(SetBits(n))
    PROVE  /\ Reach(n, k) \in Nat /\ Reach(n, k + 1) \in Nat /\ BlockSizes(n)[k + 1] \in Nat
           /\ Reach(n, k) + BlockSizes(n)[k + 1] <= Reach(n, k + 1)
           /\ Reach(n, k + 1) <= n
<1>. DEFINE S == SetBits(n)
            c == BlockBit(n, k + 1)
<1>0. Cardinality(S) \in Nat
  <2>1. S \subseteq Bits
    BY DEF SetBits, Bits
  <2>. QED BY <2>1, BitsFinite
<1>1. k + 1 \in 1..Cardinality(S)
  BY <1>0
<1>2. c \in S /\ c \in Bits /\ BlockSizes(n)[k + 1] = 2^c
  BY <1>1, BlockBitIs
<1>3. c \in 0..(TopBit + 1) /\ c + 1 \in 0..(TopBit + 1) /\ 2^c \in Nat
  <2>1. c \in 0..(TopBit + 1) /\ c + 1 \in 0..(TopBit + 1)
    BY <1>2, BitsType DEF Bits
  <2>. QED BY <2>1, Doubles
<1>4. Reach(n, k + 1) = High(n, c) /\ High(n, c) \in Nat /\ High(n, c) <= n
  <2>1. k + 1 # 0
    OBVIOUS
  <2>. QED BY <1>3, <2>1, HighIs DEF Reach
<1>5. High(n, c + 1) + 2^c = High(n, c) /\ High(n, c + 1) \in Nat
  BY <1>2, <1>3, HighSteps, HighIs
<1>6. Reach(n, k) <= High(n, c + 1) /\ Reach(n, k) \in Nat
  <2>1. CASE k = 0
    BY <1>5, <2>1 DEF Reach
  <2>2. CASE k # 0
    <3>. DEFINE b == BlockBit(n, k)
    <3>1. k \in 1..Cardinality(S) /\ k >= 1
      BY <1>0, <2>2
    <3>2. b \in Bits /\ c < b
      BY <1>1, <3>1, BlockBitIs, BlocksShrink
    <3>3. b \in 0..(TopBit + 1) /\ c + 1 <= b
      <4>. HIDE DEF b, c
      <4>. QED BY <1>2, <3>2, BitsType DEF Bits
    <3>4. High(n, b) <= High(n, c + 1) /\ High(n, b) \in Nat
      BY <1>3, <3>3, HighOrdered, HighIs
    <3>5. Reach(n, k) = High(n, b)
      BY <2>2 DEF Reach
    <3>. QED BY <3>4, <3>5
  <2>. QED BY <2>1, <2>2
<1>. DEFINE u == Reach(n, k)
            v == High(n, c + 1)
            w == High(n, c)
            d == 2^c
<1>7. u \in Nat /\ v \in Nat /\ w \in Nat /\ d \in Nat /\ u <= v /\ v + d = w
  BY <1>3, <1>4, <1>5, <1>6
<1>. HIDE DEF u, v, w, d
<1>8. u + d <= w
  BY <1>7
<1>. QED BY <1>2, <1>3, <1>4, <1>6, <1>8 DEF u, w, d

\* A component that has positions has a block.
LEMMA SomeBlock ==
    ASSUME NEW n \in Nat, n >= 1, n < 2^(TopBit + 1)
    PROVE  Cardinality(SetBits(n)) >= 1 /\ Cardinality(SetBits(n)) \in Nat
<1>. DEFINE S == SetBits(n)
            b == Log2(n)
            r == 2^b
<1>1. S \subseteq Bits
  BY DEF SetBits, Bits
<1>2. IsFiniteSet(S) /\ Cardinality(S) \in Nat
  BY <1>1, BitsFinite
<1>3. b \in Bits /\ r <= n /\ n < 2^(b + 1)
  BY Log2Is
<1>4. r \in Nat /\ r >= 1 /\ 2^(b + 1) = 2 * r
  <2>1. b \in 0..(TopBit + 1)
    BY <1>3, BitsType DEF Bits
  <2>. QED BY <1>3, <2>1, Doubles
<1>5. n \div r = 1
  <2>. HIDE DEF r
  <2>1. n < 2 * r /\ r <= n
    BY <1>3, <1>4 DEF r
  <2>. QED BY <1>4, <2>1
<1>6. b \in S
  BY <1>3, <1>5 DEF SetBits, Bits
<1>. HIDE DEF S
<1>7. Cardinality(S) # 0
  BY <1>2, <1>6, FS_EmptySet
<1>. QED BY <1>2, <1>7 DEF S

-----------------------------------------------------------------------------
(***************************************************************************)
(* The sum of the sizes of a set of components, counted.                   *)
(***************************************************************************)
\* A finite set has finitely many values.
LEMMA FiniteImage ==
    ASSUME NEW S, IsFiniteSet(S), NEW f, DOMAIN f = S, f = [x \in S |-> f[x]]
    PROVE  IsFiniteSet({f[x] : x \in S})
<1>. DEFINE T == {f[x] : x \in S}
<1>1. f \in [S -> T]
  OBVIOUS
<1>2. \A t \in T : \E x \in S : f[x] = t
  OBVIOUS
<1>3. f \in Surjection(S, T)
  <2>. HIDE DEF T
  <2>. QED BY <1>1, <1>2 DEF Surjection
<1>. HIDE DEF T
<1>4. IsFiniteSet(T)
  BY <1>3, FS_Surjection
<1>. QED BY <1>4 DEF T

\* As many places for each element of S as h gives it.
Spots(h, S) == {x \in S \X Nat : x[2] < h[x[1]]}

\* m places for one element.
Places(x, m) == {x} \X (0..(m - 1))

\* There are m of them.
LEMMA PlacesCount ==
    ASSUME NEW x, NEW m \in Nat
    PROVE  IsFiniteSet(Places(x, m)) /\ Cardinality(Places(x, m)) = m
<1>1. IsFiniteSet({x}) /\ Cardinality({x}) = 1
  BY FS_Singleton
<1>2. IsFiniteSet(0..(m - 1)) /\ Cardinality(0..(m - 1)) = m
  <2>1. IsFiniteSet(0..(m - 1)) /\ Cardinality(0..(m - 1)) = IF 0 > m - 1 THEN 0 ELSE (m - 1) - 0 + 1
    BY FS_Interval
  <2>2. (IF 0 > m - 1 THEN 0 ELSE (m - 1) - 0 + 1) = m
    OBVIOUS
  <2>. QED BY <2>1, <2>2
<1>. DEFINE R == 0..(m - 1)
<1>3. IsFiniteSet(R) /\ Cardinality(R) = m
  BY <1>2
<1>. HIDE DEF R
<1>4. IsFiniteSet({x} \X R) /\ Cardinality({x} \X R) = Cardinality({x}) * Cardinality(R)
  BY <1>1, <1>3, FS_Product
<1>5. 1 * m = m
  OBVIOUS
<1>6. Places(x, m) = {x} \X R
  BY DEF Places, R
<1>. QED BY <1>1, <1>3, <1>4, <1>5, <1>6

\* Finitely many elements have finitely many places.
LEMMA SpotsFinite ==
    ASSUME NEW S, IsFiniteSet(S), NEW h, \A x \in S : h[x] \in Nat
    PROVE  IsFiniteSet(Spots(h, S)) /\ Cardinality(Spots(h, S)) \in Nat
<1>. DEFINE f == [x \in S |-> Places(x, h[x])]
            T == {f[x] : x \in S}
<1>1. IsFiniteSet(T)
  <2>1. DOMAIN f = S /\ f = [x \in S |-> f[x]]
    OBVIOUS
  <2>. HIDE DEF f
  <2>. QED BY <2>1, FiniteImage
<1>2. \A t \in T : IsFiniteSet(t)
  <2>. SUFFICES ASSUME NEW x \in S PROVE IsFiniteSet(f[x])
    OBVIOUS
  <2>. QED BY PlacesCount
<1>3. IsFiniteSet(UNION T)
  <2>. HIDE DEF T
  <2>. QED BY <1>1, <1>2, FS_UNION
<1>4. Spots(h, S) \subseteq UNION T
  <2>. SUFFICES ASSUME NEW z \in Spots(h, S) PROVE z \in UNION T
    OBVIOUS
  <2>1. PICK x \in S, i \in Nat : z = <<x, i>> /\ i < h[x]
    BY DEF Spots
  <2>2. h[x] \in Nat /\ i \in 0..(h[x] - 1)
    BY <2>1
  <2>3. z \in Places(x, h[x])
    BY <2>1, <2>2 DEF Places
  <2>4. f[x] \in T /\ f[x] = Places(x, h[x])
    OBVIOUS
  <2>. HIDE DEF T, f
  <2>. QED BY <2>3, <2>4
<1>5. Spots(h, S) \in SUBSET (UNION T)
  BY <1>4
<1>. HIDE DEF T
<1>6. IsFiniteSet(Spots(h, S))
  BY <1>3, <1>5, FS_Subset
<1>. QED BY <1>6, FS_CardinalityType

\* One element more.
LEMMA SpotsSplit ==
    ASSUME NEW S, IsFiniteSet(S), NEW h, \A x \in S : h[x] \in Nat, NEW y \in S
    PROVE  Cardinality(Spots(h, S)) = h[y] + Cardinality(Spots(h, S \ {y}))
<1>. DEFINE rest == Spots(h, S \ {y})
            m == h[y]
            own == Places(y, m)
<1>1. IsFiniteSet(rest) /\ Cardinality(rest) \in Nat
  <2>1. IsFiniteSet(S \ {y}) /\ \A x \in S \ {y} : h[x] \in Nat
    BY FS_RemoveElement
  <2>. QED BY <2>1, SpotsFinite
<1>2. IsFiniteSet(own) /\ Cardinality(own) = m /\ m \in Nat
  BY PlacesCount
<1>3. Spots(h, S) = rest \cup own
  <2>1. ASSUME NEW z \in Spots(h, S) PROVE z \in rest \cup own
    <3>1. PICK x \in S, i \in Nat : z = <<x, i>> /\ i < h[x]
      BY DEF Spots
    <3>2. CASE x = y
      <4>1. i \in 0..(m - 1)
        BY <1>2, <3>1, <3>2
      <4>2. z \in own
        BY <3>1, <3>2, <4>1 DEF Places
      <4>. QED BY <4>2
    <3>3. CASE x # y
      <4>1. z \in rest
        BY <3>1, <3>3 DEF Spots
      <4>. QED BY <4>1
    <3>. QED BY <3>2, <3>3
  <2>2. rest \subseteq Spots(h, S)
    BY DEF Spots
  <2>3. own \subseteq Spots(h, S)
    <3>. SUFFICES ASSUME NEW i \in 0..(m - 1) PROVE <<y, i>> \in Spots(h, S)
      BY DEF Places
    <3>1. i \in Nat /\ i < m
      BY <1>2
    <3>. QED BY <3>1 DEF Spots
  <2>. HIDE DEF rest, own
  <2>. QED BY <2>1, <2>2, <2>3
<1>4. rest \cap own = {}
  <2>. SUFFICES ASSUME NEW z \in rest, z \in own PROVE FALSE
    OBVIOUS
  <2>1. z[1] \in S \ {y}
    BY DEF Spots
  <2>2. z[1] = y
    BY DEF Places
  <2>. QED BY <2>1, <2>2
<1>. HIDE DEF rest, own, m
<1>5. Cardinality(rest \cup own) = Cardinality(rest) + Cardinality(own) - Cardinality(rest \cap own)
  BY <1>1, <1>2, FS_Union
<1>6. Cardinality(rest \cap own) = 0
  BY <1>4, FS_EmptySet
<1>7. Cardinality(rest) + m - 0 = m + Cardinality(rest)
  BY <1>1, <1>2
<1>8. Cardinality(Spots(h, S)) = m + Cardinality(rest)
  BY <1>2, <1>3, <1>5, <1>6, <1>7
<1>. QED BY <1>8 DEF m, rest

\* The element MapThenSumSet takes first.
Chosen(s) == CHOOSE x \in s : TRUE

\* The equation by which MapThenSumSet is defined, of a function h on S.
Summing(h, S, g) ==
    g = [s \in SUBSET S |-> IF s = {} THEN 0 ELSE h[Chosen(s)] + g[s \ {Chosen(s)}]]

\* It has a solution, and every solution counts.
LEMMA CountingSums ==
    ASSUME NEW S, IsFiniteSet(S), NEW h, \A x \in S : h[x] \in Nat
    PROVE  Summing(h, S, [s \in SUBSET S |-> Cardinality(Spots(h, s))])
<1>. DEFINE g == [s \in SUBSET S |-> Cardinality(Spots(h, s))]
<1>1. \A s \in SUBSET S : g[s] = IF s = {} THEN 0 ELSE h[Chosen(s)] + g[s \ {Chosen(s)}]
  <2>. TAKE s \in SUBSET S
  <2>1. IsFiniteSet(s) /\ \A x \in s : h[x] \in Nat
    BY FS_Subset
  <2>2. CASE s = {}
    <3>1. Spots(h, s) = {}
      BY <2>2 DEF Spots
    <3>2. g[s] = 0
      BY <3>1, FS_EmptySet
    <3>. QED BY <2>2, <3>2
  <2>3. CASE s # {}
    <3>1. Chosen(s) \in s
      BY <2>3 DEF Chosen
    <3>2. Cardinality(Spots(h, s)) = h[Chosen(s)] + Cardinality(Spots(h, s \ {Chosen(s)}))
      BY <2>1, <3>1, SpotsSplit
    <3>3. s \ {Chosen(s)} \in SUBSET S
      OBVIOUS
    <3>4. g[s] = h[Chosen(s)] + g[s \ {Chosen(s)}]
      BY <3>2, <3>3
    <3>. HIDE DEF g
    <3>. QED BY <2>3, <3>4
  <2>. QED BY <2>2, <2>3
<1>2. g = [s \in SUBSET S |-> g[s]]
  OBVIOUS
<1>. HIDE DEF g
<1>3. g = [s \in SUBSET S |-> IF s = {} THEN 0 ELSE h[Chosen(s)] + g[s \ {Chosen(s)}]]
  BY <1>1, <1>2
<1>4. Summing(h, S, g)
  BY <1>3 DEF Summing
<1>. QED BY <1>4 DEF g

\* Every solution is the number of places.
LEMMA SumsCount ==
    ASSUME NEW S, IsFiniteSet(S), NEW h, \A x \in S : h[x] \in Nat, NEW g, Summing(h, S, g)
    PROVE  g[S] = Cardinality(Spots(h, S))
<1>. DEFINE Right(s) == g[s] = Cardinality(Spots(h, s))
            Wrong == {k \in 0..Cardinality(S) : \E s \in SUBSET S : Cardinality(s) = k /\ ~ Right(s)}
<1>1. \A s \in SUBSET S : IsFiniteSet(s) /\ Cardinality(s) \in 0..Cardinality(S)
  <2>. TAKE s \in SUBSET S
  <2>1. IsFiniteSet(s) /\ Cardinality(s) <= Cardinality(S)
    BY FS_Subset
  <2>. QED BY <2>1, FS_CardinalityType
<1>. HIDE DEF Right
<1>2. ASSUME Wrong # {} PROVE FALSE
  <2>1. Wrong \subseteq Nat
    BY FS_CardinalityType
  <2>. HIDE DEF Wrong
  <2>2. PICK k \in Wrong : \A j \in Wrong : k <= j
    BY <1>2, <2>1, LeastNatural
  <2>3. PICK s \in SUBSET S : Cardinality(s) = k /\ ~ Right(s)
    BY <2>2 DEF Wrong
  <2>4. g[s] = IF s = {} THEN 0 ELSE h[Chosen(s)] + g[s \ {Chosen(s)}]
    BY DEF Summing
  <2>5. IsFiniteSet(s) /\ \A x \in s : h[x] \in Nat
    BY <1>1
  <2>6. CASE s = {}
    <3>1. Spots(h, s) = {}
      BY <2>6 DEF Spots
    <3>2. Cardinality(Spots(h, s)) = 0
      BY <3>1, FS_EmptySet
    <3>. QED BY <2>3, <2>4, <2>6, <3>2 DEF Right
  <2>7. CASE s # {}
    <3>. DEFINE t == s \ {Chosen(s)}
    <3>1. Chosen(s) \in s
      BY <2>7 DEF Chosen
    <3>2. Cardinality(t) = Cardinality(s) - 1 /\ t \in SUBSET S
      BY <2>5, <3>1, FS_RemoveElement
    <3>3. Cardinality(t) \in 0..Cardinality(S) /\ Cardinality(t) \in Nat
      BY <1>1, <3>2
    <3>. HIDE DEF t
    <3>4. Cardinality(t) \notin Wrong
      BY <2>1, <2>2, <2>3, <3>2, <3>3
    <3>5. Right(t)
      BY <3>2, <3>3, <3>4 DEF Wrong
    <3>6. Cardinality(Spots(h, s)) = h[Chosen(s)] + Cardinality(Spots(h, t))
      BY <2>5, <3>1, SpotsSplit DEF t
    <3>7. g[s] = h[Chosen(s)] + g[t]
      BY <2>4, <2>7 DEF t
    <3>. QED BY <2>3, <3>5, <3>6, <3>7 DEF Right
  <2>. QED BY <2>6, <2>7
<1>3. Right(S)
  <2>1. S \in SUBSET S /\ Cardinality(S) \in 0..Cardinality(S)
    BY <1>1
  <2>. QED BY <1>2, <2>1
<1>. QED BY <1>3 DEF Right

-----------------------------------------------------------------------------
(***************************************************************************)
(* The components of a round.                                              *)
(***************************************************************************)
\* The trees of a round, with the folded witness.
AllTrees == Trees \cup {"folded"}

\* The sizes of a round are positive.
LEMMA RoundParts ==
    ASSUME round \in Rounds
    PROVE  /\ round.height \in Nat /\ round.height >= 1 /\ round.width \in Nat /\ round.width >= 1
           /\ round.ratio \in Nat /\ round.ratio >= 1
           /\ round.basicRank \in Nat /\ round.basicRank >= 1
           /\ round.openings \in Nat /\ round.openings >= 1
           /\ round.chunks \in Nat /\ round.chunks >= 1
           /\ round.batches \in Nat /\ round.batches >= 1
           /\ round.tree \in [Trees -> Seq(Levels)]
           /\ round.tree["coarse"] # <<>> \/ round.tree["constantTerm"] # <<>>
                => round.ratio <= round.height
<1>1. round \in RoundSizes
  BY RoundsAssumption
<1>. QED BY <1>1 DEF RoundSizes

\* So are those of its levels.
LEMMA LevelsOf ==
    ASSUME round \in Rounds, NEW t \in AllTrees
    PROVE  /\ Len(TreeLevels(t)) \in Nat
           /\ \A l \in 1..Len(TreeLevels(t)) :
                /\ TreeLevels(t)[l].chunks \in Nat /\ TreeLevels(t)[l].chunks >= 1
                /\ TreeLevels(t)[l].rank \in Nat /\ TreeLevels(t)[l].rank >= 1
                /\ TreeLevels(t)[l].rank <= 2^TopBit
<1>0. TopBit \in Nat /\ 2^TopBit \in Nat /\ 2^TopBit >= 1
  <2>1. TopBit \in 0..(TopBit + 1) /\ TopBit \in Nat
    BY BitsType
  <2>. QED BY <2>1, Doubles
<1>1. CASE t = "folded"
  <2>. DEFINE level == [chunks |-> round.chunks, rank |-> 1]
  <2>1. TreeLevels(t) = <<level>>
    BY <1>1 DEF TreeLevels
  <2>2. level.chunks \in Nat /\ level.chunks >= 1 /\ level.rank = 1
    BY RoundParts
  <2>. HIDE DEF level
  <2>3. Len(<<level>>) = 1 /\ \A l \in 1..Len(<<level>>) : <<level>>[l] = level
    OBVIOUS
  <2>4. \A l \in 1..Len(TreeLevels(t)) : TreeLevels(t)[l] = level
    BY <2>1, <2>3
  <2>5. Len(TreeLevels(t)) \in Nat
    BY <2>1, <2>3
  <2>. QED BY <1>0, <2>2, <2>4, <2>5
<1>2. CASE t # "folded"
  <2>1. t \in Trees /\ TreeLevels(t) = round.tree[t]
    BY <1>2 DEF AllTrees, TreeLevels
  <2>2. TreeLevels(t) \in Seq(Levels)
    BY <2>1, RoundParts
  <2>. DEFINE q == TreeLevels(t)
  <2>3. q \in Seq(Levels)
    BY <2>2
  <2>. HIDE DEF q
  <2>4. Len(q) \in Nat /\ \A l \in 1..Len(q) : q[l] \in Levels
    BY <2>3
  <2>5. \A x \in Levels : x.chunks \in Nat /\ x.chunks >= 1 /\ x.rank \in 1..2^TopBit
    BY DEF Levels
  <2>6. \A l \in 1..Len(q) : q[l].chunks \in Nat /\ q[l].chunks >= 1 /\ q[l].rank \in 1..2^TopBit
    BY <2>4, <2>5
  <2>7. \A x \in 1..2^TopBit : x \in Nat /\ x >= 1 /\ x <= 2^TopBit
    BY <1>0
  <2>. QED BY <2>4, <2>6, <2>7 DEF q
<1>. QED BY <1>1, <1>2

\* A level has rows.
LEMMA RowsType ==
    ASSUME round \in Rounds, NEW t, NEW l \in Nat
    PROVE  Rows(t, l) \in Nat /\ Rows(t, l) >= 1 /\ BatchedRows \in Nat /\ BatchedRows >= 1
<1>1. BatchedRows \in Nat /\ BatchedRows >= 1
  BY RoundParts DEF BatchedRows
<1>. QED BY <1>1, RoundParts DEF Rows

\* A row of any level has a position.
LEMMA RowLenType ==
    ASSUME round \in Rounds, NEW t \in AllTrees, NEW l \in 1..Len(TreeLevels(t))
    PROVE  RowLen(t, l) \in Nat /\ RowLen(t, l) >= 1
<1>0. l \in Nat /\ l >= 1 /\ Len(TreeLevels(t)) \in Nat
  BY LevelsOf
<1>1. CASE l > 1
  <2>. DEFINE r == TreeLevels(t)[l - 1].rank
  <2>1. r \in Nat /\ r >= 1 /\ r <= 2^TopBit
    <3>1. l - 1 \in 1..Len(TreeLevels(t))
      BY <1>0, <1>1
    <3>. QED BY <3>1, LevelsOf
  <2>2. RowLen(t, l) = PaddedLength(r)
    BY <1>1 DEF RowLen
  <2>. HIDE DEF r
  <2>3. PICK b \in Bits : PaddedLength(r) = 2^b /\ r <= 2^b
    BY <2>1, PaddedLengthIs
  <2>4. 2^b \in Nat /\ 2^b >= 1
    <3>1. b \in 0..(TopBit + 1)
      BY BitsType DEF Bits
    <3>. QED BY <3>1, Doubles
  <2>. QED BY <2>2, <2>3, <2>4
<1>2. CASE l = 1
  <2>0. \A a, b \in Nat : a >= 1 /\ b >= 1 => a * b \in Nat /\ a * b >= a /\ a * b >= 1
    <3>. TAKE a, b \in Nat
    <3>. HAVE a >= 1 /\ b >= 1
    <3>1. PICK c \in Nat : b = c + 1
      <4>1. b - 1 \in Nat /\ b = (b - 1) + 1
        OBVIOUS
      <4>. QED BY <4>1
    <3>2. a * (c + 1) = a * c + a /\ a * c \in Nat
      OBVIOUS
    <3>. QED BY <3>1, <3>2
  <2>1. CASE t = "folded"
    BY <1>2, <2>1, RoundParts DEF RowLen
  <2>2. CASE t \in {"commitment", "opening"}
    BY <1>2, <2>2, RoundParts DEF RowLen
  <2>3. CASE t = "batched"
    <3>. DEFINE w == round.width
                n == round.batches
    <3>1. w \in Nat /\ w >= 1 /\ n \in Nat /\ n >= 1
      BY RoundParts
    <3>2. RowLen(t, l) = (w * n) \div BatchedRows
      BY <1>2, <2>3 DEF RowLen
    <3>3. BatchedRows = 1 \/ BatchedRows = n
      BY DEF BatchedRows
    <3>. HIDE DEF w, n
    <3>4. w * n \in Nat /\ w * n >= 1
      BY <2>0, <3>1
    <3>5. (w * n) \div 1 = w * n
      BY <3>4
    <3>6. (w * n) \div n = w
      BY <3>1
    <3>. QED BY <3>1, <3>2, <3>3, <3>4, <3>5, <3>6
  <2>4. CASE t \in {"coarse", "constantTerm"}
    <3>. DEFINE h == round.height
                w == round.width
                q == round.ratio
    <3>1. h \in Nat /\ h >= 1 /\ w \in Nat /\ w >= 1 /\ q \in Nat /\ q >= 1
      BY RoundParts
    <3>2. RowLen(t, l) = (h * w) \div q
      BY <1>2, <2>4 DEF RowLen
    <3>3. q <= h
      <4>1. TreeLevels(t) = round.tree[t]
        BY <2>4 DEF TreeLevels
      <4>2. round.tree[t] # <<>>
        <5>1. ASSUME round.tree[t] = <<>> PROVE FALSE
          <6>1. Len(TreeLevels(t)) = 0
            BY <4>1, <5>1
          <6>. QED BY <1>0, <6>1
        <5>. QED BY <5>1
      <4>. QED BY <2>4, <4>2, RoundParts
    <3>. HIDE DEF h, w, q
    <3>4. h * w \in Nat /\ h * w >= h
      BY <2>0, <3>1
    <3>. DEFINE n == h * w
    <3>5. n \in Nat /\ n >= q
      BY <3>1, <3>3, <3>4
    <3>6. RowLen(t, l) = n \div q
      BY <3>2
    <3>. HIDE DEF n
    <3>7. n \div q \in Nat /\ n \div q >= 1
      BY <3>1, <3>5
    <3>. QED BY <3>6, <3>7
  <2>. QED BY <2>1, <2>2, <2>3, <2>4 DEF AllTrees, Trees
<1>. QED BY <1>0, <1>1, <1>2

\* A component is one row of one level of one tree.
LEMMA ComponentParts ==
    ASSUME NEW c \in Components
    PROVE  /\ c = [tree |-> c.tree, level |-> c.level, row |-> c.row]
           /\ c.tree \in AllTrees /\ c.level \in 1..Len(TreeLevels(c.tree))
           /\ c.row \in 0..(Rows(c.tree, c.level) - 1)
<1>1. PICK t \in AllTrees :
         \E l \in 1..Len(TreeLevels(t)) : \E r \in 0..(Rows(t, l) - 1) :
            c = [tree |-> t, level |-> l, row |-> r]
  BY DEF Components, AllTrees
<1>2. PICK l \in 1..Len(TreeLevels(t)) :
         \E r \in 0..(Rows(t, l) - 1) : c = [tree |-> t, level |-> l, row |-> r]
  BY <1>1
<1>3. PICK r \in 0..(Rows(t, l) - 1) : c = [tree |-> t, level |-> l, row |-> r]
  BY <1>2
<1>. QED BY <1>3

\* A component has positions.
LEMMA SizeType ==
    ASSUME round \in Rounds, NEW c \in Components
    PROVE  SizeOf(c) \in Nat /\ SizeOf(c) >= 1
<1>1. c.tree \in AllTrees /\ c.level \in 1..Len(TreeLevels(c.tree))
  BY ComponentParts
<1>. DEFINE a == RowLen(c.tree, c.level)
            b == Chunks(c)
<1>2. a \in Nat /\ a >= 1
  BY <1>1, RowLenType
<1>3. b \in Nat /\ b >= 1
  BY <1>1, LevelsOf DEF Chunks
<1>4. SizeOf(c) = a * b
  BY DEF SizeOf
<1>. HIDE DEF a, b
<1>5. a * b \in Nat /\ a <= a * b
  <2>1. 1 * a <= b * a
    BY <1>2, <1>3, Scaling
  <2>2. 1 * a = a /\ b * a = a * b /\ a * b \in Nat
    BY <1>2, <1>3
  <2>. QED BY <2>1, <2>2
<1>. QED BY <1>2, <1>4, <1>5

\* There are finitely many.
LEMMA ComponentsFinite ==
    ASSUME round \in Rounds
    PROVE  IsFiniteSet(Components)
<1>. DEFINE name(t, l, r) == [tree |-> t, level |-> l, row |-> r]
            rows(t, l) == {name(t, l, r) : r \in 0..(Rows(t, l) - 1)}
            levels(t) == 1..Len(TreeLevels(t))
<1>1. \A t \in AllTrees : \A l \in levels(t) : IsFiniteSet(rows(t, l))
  <2>. TAKE t \in AllTrees
  <2>. TAKE l \in levels(t)
  <2>. DEFINE S == 0..(Rows(t, l) - 1)
              f == [r \in S |-> name(t, l, r)]
  <2>1. IsFiniteSet(S)
    <3>1. Rows(t, l) \in Nat
      <4>1. l \in Nat
        BY LevelsOf
      <4>. QED BY <4>1, RowsType
    <3>. QED BY <3>1, FS_Interval
  <2>. HIDE DEF S
  <2>2. DOMAIN f = S /\ f = [r \in S |-> f[r]]
    OBVIOUS
  <2>3. rows(t, l) = {f[r] : r \in S}
    BY DEF S
  <2>. HIDE DEF f, rows
  <2>. QED BY <2>1, <2>2, <2>3, FiniteImage
<1>2. \A t \in AllTrees : IsFiniteSet(UNION {rows(t, l) : l \in levels(t)})
  <2>. TAKE t \in AllTrees
  <2>. DEFINE S == levels(t)
              f == [l \in S |-> rows(t, l)]
              T == {f[l] : l \in S}
  <2>1. IsFiniteSet(S)
    <3>1. Len(TreeLevels(t)) \in Nat
      BY LevelsOf
    <3>. QED BY <3>1, FS_Interval
  <2>2. \A l \in S : IsFiniteSet(f[l])
    <3>. HIDE DEF rows
    <3>. QED BY <1>1
  <2>. HIDE DEF S, rows
  <2>3. DOMAIN f = S /\ f = [l \in S |-> f[l]]
    OBVIOUS
  <2>4. T = {rows(t, l) : l \in levels(t)}
    BY DEF S
  <2>. HIDE DEF f
  <2>5. IsFiniteSet(T)
    BY <2>1, <2>3, FiniteImage
  <2>6. \A x \in T : IsFiniteSet(x)
    BY <2>2
  <2>. HIDE DEF T
  <2>7. IsFiniteSet(UNION T)
    BY <2>5, <2>6, FS_UNION
  <2>. QED BY <2>4, <2>7
<1>. DEFINE f == [t \in AllTrees |-> UNION {rows(t, l) : l \in levels(t)}]
            T == {f[t] : t \in AllTrees}
<1>3. \A t \in AllTrees : IsFiniteSet(f[t])
  <2>. HIDE DEF rows, levels
  <2>. QED BY <1>2
<1>4. IsFiniteSet(AllTrees)
  <2>1. AllTrees = (((((({} \cup {"commitment"}) \cup {"opening"}) \cup {"coarse"})
                      \cup {"constantTerm"}) \cup {"batched"}) \cup {"folded"})
    BY DEF AllTrees, Trees
  <2>2. IsFiniteSet({})
    BY FS_EmptySet
  <2>. QED BY <2>1, <2>2, FS_AddElement
<1>5. Components = UNION T
  <2>1. Components = UNION {UNION {rows(t, l) : l \in levels(t)} : t \in AllTrees}
    BY DEF Components, AllTrees
  <2>. HIDE DEF rows, levels
  <2>. QED BY <2>1
<1>. HIDE DEF rows, levels
<1>6. DOMAIN f = AllTrees /\ f = [t \in AllTrees |-> f[t]]
  OBVIOUS
<1>. HIDE DEF f
<1>7. IsFiniteSet(T)
  BY <1>4, <1>6, FiniteImage
<1>8. \A x \in T : IsFiniteSet(x)
  BY <1>3
<1>. HIDE DEF T
<1>. QED BY <1>5, <1>7, <1>8, FS_UNION

\* The sizes by component.
SizesOf == [c \in Components |-> SizeOf(c)]

\* The total the vector is made for counts a place for each position of a component.
LEMMA TotalSizeCounts ==
    ASSUME round \in Rounds
    PROVE  TotalSize = Cardinality(Spots(SizesOf, Components)) /\ TotalSize \in Nat
<1>. DEFINE S == Components
            h == SizesOf
            Equation(g) == g = [s \in SUBSET S |->
                                  IF s = {} THEN 0
                                  ELSE SizeOf(CHOOSE x \in s : TRUE) + g[s \ {CHOOSE x \in s : TRUE}]]
            iter == CHOOSE g : Equation(g)
<1>1. IsFiniteSet(S) /\ \A x \in S : h[x] \in Nat
  BY ComponentsFinite, SizeType DEF SizesOf
<1>2. \A g : Equation(g) <=> Summing(h, S, g)
  <2>. TAKE g
  <2>1. \A s \in SUBSET S : s # {} => h[Chosen(s)] = SizeOf(Chosen(s))
    <3>1. \A s \in SUBSET S : s # {} => Chosen(s) \in S
      BY DEF Chosen
    <3>. QED BY <3>1 DEF SizesOf
  <2>. HIDE DEF h, S
  <2>2. [s \in SUBSET S |-> IF s = {} THEN 0 ELSE h[Chosen(s)] + g[s \ {Chosen(s)}]]
          = [s \in SUBSET S |-> IF s = {} THEN 0 ELSE SizeOf(Chosen(s)) + g[s \ {Chosen(s)}]]
    BY <2>1
  <2>. QED BY <2>2 DEF Summing, Chosen
<1>3. TotalSize = iter[S]
  BY DEF TotalSize, MapThenSumSet, MapThenFoldSet
<1>. HIDE DEF S, h, Equation
<1>4. Summing(h, S, [s \in SUBSET S |-> Cardinality(Spots(h, s))])
  BY <1>1, CountingSums
<1>5. Summing(h, S, iter)
  BY <1>2, <1>4
<1>. HIDE DEF iter
<1>6. iter[S] = Cardinality(Spots(h, S))
  BY <1>1, <1>5, SumsCount
<1>7. Cardinality(Spots(h, S)) \in Nat
  BY <1>1, SpotsFinite
<1>. QED BY <1>3, <1>6, <1>7 DEF S, h

\* The round fixes the components, their sizes and the length of the vector.
LEMMA RoundFixes ==
    ASSUME round' = round
    PROVE  /\ Components' = Components /\ SizesOf' = SizesOf
           /\ TotalSize' = TotalSize /\ ComposedLength' = ComposedLength
           /\ \A c : SizeOf(c)' = SizeOf(c)
<1>1. Components' = Components /\ \A c : SizeOf(c)' = SizeOf(c)
  BY DEF Components, SizeOf, RowLen, Rows, BatchedRows, TreeLevels, Chunks
<1>2. TotalSize' = TotalSize
  BY <1>1 DEF TotalSize, MapThenSumSet, MapThenFoldSet
<1>3. ComposedLength' = ComposedLength
  BY <1>2 DEF ComposedLength, PaddedLength
<1>4. SizesOf' = SizesOf
  BY <1>1 DEF SizesOf
<1>. QED BY <1>1, <1>2, <1>3, <1>4

\* No component is larger than all are together.
LEMMA SizesFit ==
    ASSUME round \in Rounds, NEW c \in Components
    PROVE  SizeOf(c) <= TotalSize
<1>1. IsFiniteSet(Components) /\ \A x \in Components : SizesOf[x] \in Nat
  BY ComponentsFinite, SizeType DEF SizesOf
<1>2. Cardinality(Spots(SizesOf, Components))
        = SizesOf[c] + Cardinality(Spots(SizesOf, Components \ {c}))
  BY <1>1, SpotsSplit
<1>3. Cardinality(Spots(SizesOf, Components \ {c})) \in Nat
  <2>1. IsFiniteSet(Components \ {c})
    BY <1>1, FS_RemoveElement
  <2>. QED BY <1>1, <2>1, SpotsFinite
<1>4. SizesOf[c] = SizeOf(c) /\ SizeOf(c) \in Nat
  BY SizeType DEF SizesOf
<1>. QED BY <1>2, <1>3, <1>4, TotalSizeCounts

\* The vector is a power of two long, and long enough.
Length == Log2(ComposedLength)

LEMMA LengthIs ==
    ASSUME round \in Rounds, TotalSize <= 2^TopBit
    PROVE  Length \in Bits /\ ComposedLength = 2^Length /\ TotalSize <= 2^Length
<1>. DEFINE c == [tree |-> "folded", level |-> 1, row |-> 0]
<1>1. c \in Components
  <2>1. "folded" \in AllTrees /\ 1 \in 1..Len(TreeLevels("folded")) /\ 0 \in 0..(Rows("folded", 1) - 1)
    <3>1. TreeLevels("folded") = <<[chunks |-> round.chunks, rank |-> 1]>>
      BY DEF TreeLevels
    <3>2. Len(TreeLevels("folded")) = 1
      BY <3>1
    <3>3. Rows("folded", 1) = 1
      BY DEF Rows
    <3>. QED BY <3>2, <3>3 DEF AllTrees
  <2>. QED BY <2>1 DEF Components, AllTrees
<1>. HIDE DEF c
<1>2. TotalSize \in Nat /\ TotalSize >= 1
  BY <1>1, SizesFit, SizeType, TotalSizeCounts
<1>3. PICK b \in Bits : PaddedLength(TotalSize) = 2^b /\ TotalSize <= 2^b
  BY <1>2, PaddedLengthIs
<1>4. Length = b
  BY <1>3, Log2Power DEF Length, ComposedLength
<1>. QED BY <1>3, <1>4 DEF ComposedLength

\* The prefixes generate_config_inner tries are the aligned blocks of the vector.
LEMMA PrefixesAreBlocks ==
    ASSUME round \in Rounds, TotalSize <= 2^TopBit, NEW b \in 0..Length
    PROVE  FreePrefixes(2^b) = FreeAt(Length, used, b)
<1>. DEFINE n == Length
            s == 2^b
            m == 2^(n - b)
<1>1. n \in Bits /\ ComposedLength = 2^n
  BY LengthIs
<1>2. b \in Bits /\ n - b \in 0..n /\ b <= n /\ b \in 0..(TopBit + 1) /\ n \in 0..(TopBit + 1)
  BY <1>1, Sizes, BitsType DEF Bits
<1>3. PrefixLength(s) = n - b
  BY <1>2, Log2Power DEF PrefixLength, Length
<1>4. 2^n = m * s /\ m \in Nat /\ m >= 1 /\ s \in Nat /\ s >= 1
  <2>1. 2^n = 2^(n - b) * 2^b
    BY <1>2, PowersSplit
  <2>2. n - b \in 0..(TopBit + 1)
    BY <1>2, BitsType DEF Bits
  <2>. QED BY <1>2, <2>1, <2>2, Doubles
<1>5. FreePrefixes(s) = {p \in 0..(m - 1) : Run(p * s, s) \cap used = {}}
  BY <1>3 DEF FreePrefixes
<1>6. FreeAt(n, used, b) = {p \in Nat : p * s + s <= m * s /\ Run(p * s, s) \cap used = {}}
  BY <1>4 DEF FreeAt, Block
<1>. HIDE DEF m, s, n
<1>7. \A p : p \in 0..(m - 1) <=> p \in Nat /\ p * s + s <= m * s
  <2>1. ASSUME NEW p \in 0..(m - 1) PROVE p \in Nat /\ p * s + s <= m * s
    <3>1. p \in Nat /\ p < m
      BY <1>4
    <3>. QED BY <1>4, <3>1, Scaling
  <2>2. ASSUME NEW p \in Nat, p * s + s <= m * s PROVE p \in 0..(m - 1)
    <3>1. ASSUME m <= p PROVE FALSE
      <4>1. m * s <= p * s
        BY <1>4, <3>1, Scaling
      <4>2. m * s \in Nat /\ p * s \in Nat
        BY <1>4
      <4>. QED BY <1>4, <2>2, <4>1, <4>2
    <3>. QED BY <1>4, <3>1
  <2>. QED BY <2>1, <2>2
<1>8. FreePrefixes(s) = FreeAt(n, used, b)
  BY <1>5, <1>6, <1>7
<1>. QED BY <1>8 DEF n, s

\* Of components some is placed before all others.
LEMMA SomeIsFirst ==
    ASSUME round \in Rounds, NEW S, S \subseteq Components, S # {}
    PROVE  First(S, PlacedBefore) \in S
<1>0. \A c \in S : SizeOf(c) \in Nat /\ SizeOf(c) <= TotalSize /\ TotalSize \in Nat
  BY SizesFit, SizeType, TotalSizeCounts
<1>00. \A c \in S : /\ c.tree \in AllTrees /\ c.level \in Nat /\ c.row \in Nat
                    /\ c = [tree |-> c.tree, level |-> c.level, row |-> c.row]
  <2>. TAKE c \in S
  <2>1. c \in Components
    OBVIOUS
  <2>2. c.tree \in AllTrees /\ c.level \in 1..Len(TreeLevels(c.tree))
    BY <2>1, ComponentParts
  <2>3. c.level \in Nat
    BY <2>2, LevelsOf
  <2>4. c.row \in 0..(Rows(c.tree, c.level) - 1)
    BY <2>1, ComponentParts
  <2>5. Rows(c.tree, c.level) \in Nat
    BY <2>3, RowsType
  <2>. QED BY <2>1, <2>2, <2>3, <2>4, <2>5, ComponentParts
<1>01. \A t, u \in AllTrees : /\ CollectRank[t] \in Nat
                              /\ CollectRank[t] = CollectRank[u] => t = u
  BY DEF CollectRank, AllTrees, Trees
<1>1. PICK S1 : /\ S1 \subseteq S /\ S1 # {}
                /\ \A c \in S1 : \A d \in S : SizeOf(d) <= SizeOf(c) /\ (d \notin S1 => SizeOf(d) < SizeOf(c))
  <2>. DEFINE gap(c) == TotalSize - SizeOf(c)
              gaps == {gap(c) : c \in S}
  <2>1. gaps \subseteq Nat /\ gaps # {}
    BY <1>0
  <2>. HIDE DEF gaps
  <2>2. PICK g \in gaps : \A x \in gaps : g <= x
    BY <2>1, LeastNatural
  <2>. DEFINE S1 == {c \in S : gap(c) = g}
  <2>3. S1 \subseteq S /\ S1 # {}
    BY <2>2 DEF gaps
  <2>4. \A c \in S1 : \A d \in S : SizeOf(d) <= SizeOf(c) /\ (d \notin S1 => SizeOf(d) < SizeOf(c))
    <3>. TAKE c \in S1
    <3>. TAKE d \in S
    <3>1. gap(c) = g /\ g <= gap(d) /\ (d \notin S1 => gap(d) # g)
      BY <2>2 DEF gaps
    <3>. QED BY <1>0, <3>1
  <2>. QED BY <2>3, <2>4
<1>2. PICK S2 : /\ S2 \subseteq S1 /\ S2 # {}
                /\ \A c \in S2 : \A d \in S1 : /\ CollectRank[c.tree] <= CollectRank[d.tree]
                                               /\ (d \notin S2 => CollectRank[c.tree] < CollectRank[d.tree])
  <2>. DEFINE rank(c) == CollectRank[c.tree]
              ranks == {rank(c) : c \in S1}
  <2>1. ranks \subseteq Nat /\ ranks # {}
    BY <1>00, <1>01, <1>1
  <2>. HIDE DEF ranks
  <2>2. PICK g \in ranks : \A x \in ranks : g <= x
    BY <2>1, LeastNatural
  <2>. DEFINE S2 == {c \in S1 : rank(c) = g}
  <2>3. S2 \subseteq S1 /\ S2 # {}
    BY <2>2 DEF ranks
  <2>4. \A c \in S2 : \A d \in S1 : rank(c) <= rank(d) /\ (d \notin S2 => rank(c) < rank(d))
    <3>. TAKE c \in S2
    <3>. TAKE d \in S1
    <3>1. rank(c) = g /\ g <= rank(d) /\ (d \notin S2 => rank(d) # g)
      BY <2>2 DEF ranks
    <3>2. rank(d) \in Nat /\ g \in Nat
      BY <1>00, <1>01, <1>1, <2>1
    <3>. QED BY <3>1, <3>2
  <2>. QED BY <2>3, <2>4
<1>3. PICK S3 : /\ S3 \subseteq S2 /\ S3 # {}
                /\ \A c \in S3 : \A d \in S2 : c.level <= d.level /\ (d \notin S3 => c.level < d.level)
  <2>. DEFINE ranks == {c.level : c \in S2}
  <2>1. ranks \subseteq Nat /\ ranks # {}
    BY <1>00, <1>1, <1>2
  <2>. HIDE DEF ranks
  <2>2. PICK g \in ranks : \A x \in ranks : g <= x
    BY <2>1, LeastNatural
  <2>. DEFINE S3 == {c \in S2 : c.level = g}
  <2>3. S3 \subseteq S2 /\ S3 # {}
    BY <2>2 DEF ranks
  <2>4. \A c \in S3 : \A d \in S2 : c.level <= d.level /\ (d \notin S3 => c.level < d.level)
    <3>. TAKE c \in S3
    <3>. TAKE d \in S2
    <3>1. c.level = g /\ g <= d.level /\ (d \notin S3 => d.level # g)
      BY <2>2 DEF ranks
    <3>2. d.level \in Nat /\ g \in Nat
      BY <1>00, <1>1, <1>2, <2>1
    <3>. QED BY <3>1, <3>2
  <2>. QED BY <2>3, <2>4
<1>4. PICK c \in S3 : \A d \in S3 : c.row <= d.row
  <2>. DEFINE ranks == {c.row : c \in S3}
  <2>1. ranks \subseteq Nat /\ ranks # {}
    BY <1>00, <1>1, <1>2, <1>3
  <2>. HIDE DEF ranks
  <2>2. PICK g \in ranks : \A x \in ranks : g <= x
    BY <2>1, LeastNatural
  <2>. QED BY <2>2 DEF ranks
<1>5. \A d \in S \ {c} : PlacedBefore(c, d)
  <2>. TAKE d \in S \ {c}
  <2>0. c \in S /\ c \in S1 /\ c \in S2 /\ d \in S /\ d # c
    BY <1>1, <1>2, <1>3
  <2>1. CASE d \notin S1
    BY <1>1, <2>0, <2>1 DEF PlacedBefore
  <2>2. CASE d \in S1
    <3>1. SizeOf(c) = SizeOf(d)
      <4>1. SizeOf(c) <= SizeOf(d) /\ SizeOf(d) <= SizeOf(c)
        BY <1>1, <2>0, <2>2
      <4>. QED BY <1>0, <2>0, <4>1
    <3>2. CollectedBefore(c, d)
      <4>1. CASE d \notin S2
        BY <1>2, <2>0, <2>2, <4>1 DEF CollectedBefore
      <4>2. CASE d \in S2
        <5>1. c.tree = d.tree
          <6>1. CollectRank[c.tree] <= CollectRank[d.tree] /\ CollectRank[d.tree] <= CollectRank[c.tree]
            BY <1>2, <2>0, <2>2, <4>2
          <6>. QED BY <1>00, <1>01, <2>0, <6>1
        <5>2. CASE d \notin S3
          BY <1>3, <4>2, <5>1, <5>2 DEF CollectedBefore
        <5>3. CASE d \in S3
          <6>1. c.level = d.level
            <7>1. c.level <= d.level /\ d.level <= c.level
              BY <1>3, <2>0, <4>2, <5>3
            <7>. QED BY <1>00, <2>0, <7>1
          <6>2. c.row <= d.row /\ c.row \in Nat /\ d.row \in Nat
            BY <1>00, <1>4, <2>0, <5>3
          <6>3. c.row # d.row
            BY <1>00, <2>0, <5>1, <6>1
          <6>. QED BY <5>1, <6>1, <6>2, <6>3 DEF CollectedBefore
        <5>. QED BY <5>2, <5>3
      <4>. QED BY <4>1, <4>2
    <3>. QED BY <3>1, <3>2 DEF PlacedBefore
  <2>. QED BY <2>1, <2>2
<1>6. \E x \in S : \A d \in S \ {x} : PlacedBefore(x, d)
  BY <1>1, <1>2, <1>3, <1>4, <1>5
<1>. QED BY <1>6 DEF First

-----------------------------------------------------------------------------
(***************************************************************************)
(* Components never share a position.                                      *)
(***************************************************************************)
\* What of the typing the argument needs: every component has a sequence.
PlacementIsSequences ==
    /\ DOMAIN placement = Components
    /\ \A c \in Components : \E S : placement[c] \in Seq(S)

\* A placement is a function, so that EXCEPT changes it where it should.
PlacementIsFunction == placement = [c \in Components |-> placement[c]]

\* used_prefixes covers every block that has been placed.
UsedCoversCells == \A c \in Components : Cells(c) \subseteq used

\* The invariant of the first fact.
PlacementInv ==
    /\ PlacementIsSequences
    /\ PlacementIsFunction
    /\ UsedCoversCells
    /\ PlacementsDisjoint

\* The components of a round and their sizes depend on the round only.
LEMMA ComponentsFixed ==
    ASSUME round' = round
    PROVE  /\ Components' = Components
           /\ \A c : SizeOf(c)' = SizeOf(c)
BY DEF Components, SizeOf, RowLen, Rows, BatchedRows, TreeLevels, Chunks

\* Cells depend on the round and the placement only.
LEMMA CellsFixed ==
    ASSUME round' = round, placement' = placement
    PROVE  \A c : Cells(c)' = Cells(c)
BY ComponentsFixed DEF Cells

\* Initially nothing is placed.
LEMMA PlacementInit == Init => PlacementInv
<1> SUFFICES ASSUME Init PROVE PlacementInv
  OBVIOUS
<1>1. placement = [c \in Components |-> <<>>]
  BY DEF Init
<1>2. PlacementIsSequences
  <2>1. <<>> \in Seq({})
    OBVIOUS
  <2> QED BY <1>1, <2>1 DEF PlacementIsSequences
<1>3. PlacementIsFunction
  BY <1>1 DEF PlacementIsFunction
<1>4. \A c \in Components : Cells(c) = {}
  <2> SUFFICES ASSUME NEW c \in Components PROVE Cells(c) = {}
    OBVIOUS
  <2>1. DOMAIN placement[c] = {}
    BY <1>1
  <2> QED BY <2>1 DEF Cells
<1> QED BY <1>2, <1>3, <1>4 DEF PlacementInv, UsedCoversCells, PlacementsDisjoint

\* Placing one block keeps the invariant: its positions were free.
LEMMA PlacedKeeps ==
    ASSUME PlacementInv, round' = round,
           NEW p \in FreePrefixes(NextBlock), Placed(p)
    PROVE  PlacementInv'
<1> DEFINE cur == Current
           run == Run(p * NextBlock, NextBlock)
           block == [prefix |-> p, length |-> PrefixLength(NextBlock)]
<1>1. run \cap used = {}
  BY DEF FreePrefixes
<1>2. /\ placement' = [placement EXCEPT ![cur] = Append(@, block)]
      /\ used' = used \cup run
  BY DEF Placed
<1>3. Components' = Components /\ \A c : SizeOf(c)' = SizeOf(c)
  BY ComponentsFixed
<1>4. DOMAIN placement = Components /\ placement = [c \in Components |-> placement[c]]
  BY DEF PlacementInv, PlacementIsSequences, PlacementIsFunction
<1>5. placement' = [c \in Components |->
                      IF c = cur THEN Append(placement[c], block) ELSE placement[c]]
  BY <1>2, <1>4, Zenon
<1>6. \A c \in Components : c # cur => Cells(c)' = Cells(c)
  <2> SUFFICES ASSUME NEW c \in Components, c # cur PROVE Cells(c)' = Cells(c)
    OBVIOUS
  <2>1. placement'[c] = placement[c]
    BY <1>5
  <2> QED BY <2>1, <1>3 DEF Cells
<1>7. \A c \in Components : c = cur => Cells(c)' = Cells(c) \cup run
  <2> SUFFICES ASSUME NEW c \in Components, c = cur PROVE Cells(c)' = Cells(c) \cup run
    OBVIOUS
  <2> DEFINE old == placement[c]
             size(k) == BlockSizes(SizeOf(c))[k]
             cells(k) == Run(old[k].prefix * size(k), size(k))
  <2>1. PICK S : old \in Seq(S)
    BY DEF PlacementInv, PlacementIsSequences
  <2>2. placement'[c] = Append(old, block)
    BY <1>5
  <2>3. /\ DOMAIN old = 1..Len(old) /\ Len(old) \in Nat
        /\ DOMAIN Append(old, block) = 1..(Len(old) + 1)
        /\ \A k \in 1..Len(old) : Append(old, block)[k] = old[k]
        /\ Append(old, block)[Len(old) + 1] = block
    BY <2>1
  <2>4. run = Run(p * size(Len(old) + 1), size(Len(old) + 1))
    BY DEF NextBlock
  <2>5. Cells(c)' = UNION {Run(Append(old, block)[k].prefix * size(k), size(k))
                               : k \in 1..(Len(old) + 1)}
    BY <1>3, <2>2, <2>3 DEF Cells
  <2>6. Cells(c) = UNION {cells(k) : k \in 1..Len(old)}
    BY <2>3 DEF Cells
  <2>7. \A k \in 1..Len(old) :
          Run(Append(old, block)[k].prefix * size(k), size(k)) = cells(k)
    BY <2>3
  <2>8. Run(Append(old, block)[Len(old) + 1].prefix * size(Len(old) + 1),
            size(Len(old) + 1)) = run
    BY <2>3, <2>4
  <2>9. \A k : k \in 1..(Len(old) + 1) <=> (k \in 1..Len(old) \/ k = Len(old) + 1)
    BY <2>3
  <2> HIDE DEF run, size, cells, old, block
  <2> QED BY <2>5, <2>6, <2>7, <2>8, <2>9, SMTT(30)
<1>8. PlacementIsSequences'
  <2>1. \A c \in Components : \E T : placement'[c] \in Seq(T)
    <3> SUFFICES ASSUME NEW c \in Components PROVE \E T : placement'[c] \in Seq(T)
      OBVIOUS
    <3>1. PICK S : placement[c] \in Seq(S)
      BY DEF PlacementInv, PlacementIsSequences
    <3> DEFINE T == S \cup {block}
    <3>2. placement[c] \in Seq(T) /\ block \in T
      BY <3>1
    <3>3. Append(placement[c], block) \in Seq(T)
      BY <3>2
    <3>4. placement'[c] = Append(placement[c], block) \/ placement'[c] = placement[c]
      BY <1>5
    <3> QED BY <3>2, <3>3, <3>4
  <2> QED BY <1>3, <1>5, <2>1 DEF PlacementIsSequences
<1>9. PlacementIsFunction'
  <2>1. \A c \in Components : placement'[c] =
           IF c = cur THEN Append(placement[c], block) ELSE placement[c]
    BY <1>5
  <2>2. placement' = [c \in Components |-> placement'[c]]
    <3> HIDE DEF cur, block
    <3> QED BY <1>5, <2>1
  <2> QED BY <1>3, <2>2 DEF PlacementIsFunction
<1>10. UsedCoversCells'
  <2>1. \A c \in Components : Cells(c)' \subseteq used'
    <3> HIDE DEF cur, run
    <3> QED BY <1>2, <1>6, <1>7 DEF PlacementInv, UsedCoversCells
  <2> QED BY <1>3, <2>1 DEF UsedCoversCells
<1>11. PlacementsDisjoint'
  <2>1. \A c, d \in Components : c # d => Cells(c)' \cap Cells(d)' = {}
    <3> HIDE DEF cur, run
    <3>1. \A c \in Components : Cells(c) \cap run = {}
      BY <1>1 DEF PlacementInv, UsedCoversCells
    <3>2. \A c, d \in Components : c # d => Cells(c) \cap Cells(d) = {}
      BY DEF PlacementInv, PlacementsDisjoint
    <3> SUFFICES ASSUME NEW c \in Components, NEW d \in Components, c # d
                 PROVE  Cells(c)' \cap Cells(d)' = {}
      OBVIOUS
    <3>3. CASE c = cur
      BY <3>3, <1>6, <1>7, <3>1, <3>2
    <3>4. CASE d = cur
      BY <3>4, <1>6, <1>7, <3>1, <3>2
    <3>5. CASE c # cur /\ d # cur
      BY <3>5, <1>6, <3>2
    <3> QED BY <3>3, <3>4, <3>5
  <2> QED BY <1>3, <2>1 DEF PlacementsDisjoint
<1> QED BY <1>8, <1>9, <1>10, <1>11 DEF PlacementInv

\* Every other step leaves the placements alone.
LEMMA OthersKeep ==
    ASSUME PlacementInv, UNCHANGED <<round, placement, used>>
    PROVE  PlacementInv'
<1>1. /\ Components' = Components
      /\ \A c : Cells(c)' = Cells(c)
  BY ComponentsFixed, CellsFixed
<1> QED BY <1>1 DEF PlacementInv, PlacementIsSequences, PlacementIsFunction,
                    UsedCoversCells, PlacementsDisjoint

\* One step per action.
LEMMA PlacementNext == PlacementInv /\ [Next]_vars => PlacementInv'
<1> SUFFICES ASSUME PlacementInv, [Next]_vars PROVE PlacementInv'
  OBVIOUS
<1>1. CASE PlaceBlock
  <2>1. CASE FreePrefixes(NextBlock) # {}
    <3>1. PICK p \in FirstFree(FreePrefixes(NextBlock)) : Placed(p)
      BY <1>1, <2>1 DEF PlaceBlock
    <3>2. p \in FreePrefixes(NextBlock) /\ round' = round
      BY <1>1, <3>1 DEF PlaceBlock, FirstFree
    <3> QED BY <3>1, <3>2, PlacedKeeps
  <2>2. CASE FreePrefixes(NextBlock) = {}
    BY <1>1, <2>2, OthersKeep DEF PlaceBlock
  <2> QED BY <2>1, <2>2
<1>2. CASE LayoutDone
  BY <1>2, OthersKeep DEF LayoutDone
<1>3. CASE Paste
  BY <1>3, OthersKeep DEF Paste
<1>4. CASE Packed
  BY <1>4, OthersKeep DEF Packed
<1>5. CASE Finished
  BY <1>5, OthersKeep DEF Finished, vars
<1>6. CASE UNCHANGED vars
  BY <1>6, OthersKeep DEF vars
<1> QED BY <1>1, <1>2, <1>3, <1>4, <1>5, <1>6 DEF Next

\* generate_config_inner: whatever the sizes of a round, no position of the
\* packed vector belongs to two components.
THEOREM ComponentsNeverOverlap == Spec => []PlacementsDisjoint
<1>1. PlacementInv => PlacementsDisjoint
  BY DEF PlacementInv
<1> QED BY PlacementInit, PlacementNext, <1>1, PTL DEF Spec

-----------------------------------------------------------------------------
(***************************************************************************)
(* First fit.                                                              *)
(***************************************************************************)
\* What the blocks a component has been given add up to, at most.
Reached == [c \in Components |-> Reach(SizeOf(c), Len(placement[c]))]

\* The blocks a component is given in all.
BlockCount(c) == Cardinality(SetBits(SizeOf(c)))

\* The vector can be addressed and its free space is whole.
SpaceIsWhole ==
    /\ round \in Rounds /\ TotalSize <= 2^TopBit
    /\ pc # "panicked"
    /\ used \subseteq 0..(ComposedLength - 1)
    /\ Whole(Length, used)

\* No more is used than the blocks placed have, and what is left has blocks to place.
SpaceIsAccounted ==
    /\ \A c \in Components : Len(placement[c]) <= BlockCount(c)
    /\ Cardinality(used) <= Cardinality(Spots(Reached, Components))
    /\ pc = "place" => /\ left \subseteq Components
                       /\ \A c \in left : Len(placement[c]) < BlockCount(c)

\* The invariant of the second fact.
SpaceInv == PlacementInv /\ SpaceIsWhole /\ SpaceIsAccounted

\* A placement has a length.
LEMMA PlacementLength ==
    ASSUME PlacementInv, NEW c \in Components
    PROVE  Len(placement[c]) \in Nat
<1>1. PICK S : placement[c] \in Seq(S)
  BY DEF PlacementInv, PlacementIsSequences
<1>. QED BY <1>1

\* A component has a block.
LEMMA ComponentBlocks ==
    ASSUME round \in Rounds, TotalSize <= 2^TopBit, NEW c \in Components
    PROVE  BlockCount(c) \in Nat /\ BlockCount(c) >= 1
<1>. DEFINE n == SizeOf(c)
            t == 2^TopBit
<1>1. n \in Nat /\ n >= 1 /\ n <= TotalSize /\ TotalSize \in Nat /\ TotalSize <= t
  BY SizeType, SizesFit, TotalSizeCounts
<1>2. t \in Nat /\ t >= 1 /\ 2^(TopBit + 1) = 2 * t
  <2>1. TopBit \in Bits /\ TopBit \in 0..(TopBit + 1)
    BY BitsType DEF Bits
  <2>. QED BY <2>1, Doubles
<1>. HIDE DEF n, t
<1>3. n < 2^(TopBit + 1)
  BY <1>1, <1>2
<1>4. Cardinality(SetBits(n)) \in Nat /\ Cardinality(SetBits(n)) >= 1
  BY <1>1, <1>3, SomeBlock
<1>. QED BY <1>4 DEF BlockCount, n

\* A component's blocks take no more than it has.
LEMMA ReachFits ==
    ASSUME NEW n \in Nat, NEW k \in Nat, k <= Cardinality(SetBits(n))
    PROVE  Reach(n, k) \in Nat /\ Reach(n, k) <= n
<1>1. CASE k = 0
  BY <1>1 DEF Reach
<1>2. CASE k # 0
  <2>1. PICK j \in Nat : k = j + 1
    <3>1. k - 1 \in Nat /\ k = (k - 1) + 1
      BY <1>2
    <3>. QED BY <3>1
  <2>2. Cardinality(SetBits(n)) \in Nat
    <3>1. SetBits(n) \subseteq Bits
      BY DEF SetBits, Bits
    <3>. QED BY <3>1, BitsFinite
  <2>3. j < Cardinality(SetBits(n))
    BY <2>1, <2>2
  <2>. QED BY <2>1, <2>3, ReachGrows
<1>. QED BY <1>1, <1>2

\* A free block for a size that is not in use yet, first fit, keeps the space whole.
LEMMA RoomForNext ==
    ASSUME SpaceInv, pc = "place", left # {}
    PROVE  /\ Current \in Components
           /\ FreePrefixes(NextBlock) # {}
           /\ \E b \in 0..Length : NextBlock = 2^b
           /\ Cardinality(used) + NextBlock <=
                Cardinality(Spots([Reached EXCEPT ![Current] =
                              Reach(SizeOf(Current), Len(placement[Current]) + 1)], Components))
           /\ Len(placement[Current]) < BlockCount(Current)
<1>. DEFINE c == Current
            n == SizeOf(c)
            k == Len(placement[c])
            b == BlockBit(n, k + 1)
<1>0. PlacementInv /\ SpaceIsWhole /\ SpaceIsAccounted
  BY DEF SpaceInv
<1>1. round \in Rounds /\ TotalSize <= 2^TopBit /\ left \subseteq Components
  BY <1>0 DEF SpaceIsWhole, SpaceIsAccounted
<1>2. c \in left /\ c \in Components
  BY <1>1, SomeIsFirst DEF Current
<1>3. n \in Nat /\ k \in Nat /\ k < BlockCount(c) /\ n <= TotalSize /\ TotalSize \in Nat
  BY <1>0, <1>1, <1>2, SizeType, SizesFit, TotalSizeCounts, PlacementLength DEF SpaceIsAccounted
<1>4. BlockCount(c) \in Nat /\ BlockCount(c) = Cardinality(SetBits(n))
  BY <1>1, <1>2, ComponentBlocks DEF BlockCount
<1>5. k + 1 \in 1..Cardinality(SetBits(n))
  BY <1>3, <1>4
<1>6. NextBlock = BlockSizes(n)[k + 1]
  BY DEF NextBlock
<1>. HIDE DEF n, k
<1>7. b \in Bits /\ NextBlock = 2^b
  BY <1>5, <1>6, BlockBitIs
<1>8. /\ Reach(n, k) \in Nat /\ Reach(n, k + 1) \in Nat /\ NextBlock \in Nat
      /\ Reach(n, k) + NextBlock <= Reach(n, k + 1) /\ Reach(n, k + 1) <= n
  BY <1>3, <1>4, <1>6, ReachGrows
<1>9. Length \in Bits /\ ComposedLength = 2^Length /\ TotalSize <= 2^Length
  BY <1>1, LengthIs
<1>10. b \in 0..Length
  <2>. HIDE DEF b
  <2>1. b \in 0..(TopBit + 1) /\ Length \in 0..(TopBit + 1) /\ b \in Nat /\ Length \in Nat
    BY <1>7, <1>9, BitsType DEF Bits
  <2>2. 2^b \in Nat /\ 2^Length \in Nat /\ 2^Length >= 1
    BY <2>1, Doubles
  <2>3. 2^b <= 2^Length
    BY <1>3, <1>7, <1>8, <1>9, <2>2
  <2>4. Length < b => 2 * 2^Length <= 2^b
    BY <2>1, PowersOrdered
  <2>5. ~(Length < b)
    <3>. DEFINE x == 2^b
                y == 2^Length
    <3>1. x \in Nat /\ y \in Nat /\ y >= 1 /\ x <= y /\ (Length < b => 2 * y <= x)
      BY <2>2, <2>3, <2>4
    <3>. HIDE DEF x, y
    <3>. QED BY <3>1
  <2>. QED BY <2>1, <2>5
<1>. DEFINE h == Reached
            g == [Reached EXCEPT ![c] = Reach(n, k + 1)]
            S == Components
            others == Cardinality(Spots(h, S \ {c}))
<1>11. IsFiniteSet(S) /\ IsFiniteSet(S \ {c})
  BY <1>1, ComponentsFinite, FS_RemoveElement
<1>12. \A d \in S : SizeOf(d) \in Nat /\ h[d] \in Nat /\ h[d] <= SizeOf(d)
  <2>. TAKE d \in S
  <2>1. SizeOf(d) \in Nat /\ Len(placement[d]) \in Nat
    BY <1>0, <1>1, SizeType, PlacementLength
  <2>2. Len(placement[d]) <= Cardinality(SetBits(SizeOf(d)))
    BY <1>0 DEF SpaceIsAccounted, BlockCount
  <2>. QED BY <2>1, <2>2, ReachFits DEF Reached
<1>13. /\ h[c] = Reach(n, k) /\ g[c] = Reach(n, k + 1)
       /\ \A d \in S : d # c => g[d] = h[d]
  BY <1>2 DEF Reached, n, k
<1>14. \A d \in S : g[d] \in Nat /\ g[d] <= SizeOf(d)
  <2>. TAKE d \in S
  <2>1. CASE d = c
    <3>1. SizeOf(d) = n
      BY <2>1 DEF n
    <3>. QED BY <1>8, <1>13, <2>1, <3>1
  <2>2. CASE d # c
    BY <1>12, <1>13, <2>2
  <2>. QED BY <2>1, <2>2
<1>. HIDE DEF h, g, S, b, c
<1>15. Spots(g, S \ {c}) = Spots(h, S \ {c})
  BY <1>13 DEF Spots
<1>16. Cardinality(Spots(h, S)) = Reach(n, k) + others
  BY <1>2, <1>11, <1>12, <1>13, SpotsSplit DEF S
<1>17. Cardinality(Spots(g, S)) = Reach(n, k + 1) + others
  BY <1>2, <1>11, <1>13, <1>14, <1>15, SpotsSplit DEF S
<1>18. others \in Nat
  BY <1>11, <1>12, SpotsFinite
<1>19. Cardinality(used) <= Cardinality(Spots(h, S)) /\ Cardinality(used) \in Nat
  <2>1. used \in SUBSET (0..(ComposedLength - 1))
    BY <1>0 DEF SpaceIsWhole
  <2>2. IsFiniteSet(0..(ComposedLength - 1))
    <3>1. ComposedLength \in Nat
      <4>1. Length \in 0..(TopBit + 1)
        BY <1>9, BitsType DEF Bits
      <4>. QED BY <1>9, <4>1, Doubles
    <3>. QED BY <3>1, FS_Interval
  <2>3. Cardinality(used) \in Nat
    BY <2>1, <2>2, FS_Subset, FS_CardinalityType
  <2>. QED BY <1>0, <2>3 DEF SpaceIsAccounted, h, S
<1>20. Cardinality(Spots(g, S)) <= TotalSize
  <2>1. Spots(g, S) \in SUBSET Spots(SizesOf, S)
    <3>. SUFFICES ASSUME NEW x \in Spots(g, S) PROVE x \in Spots(SizesOf, S)
      OBVIOUS
    <3>1. PICK d \in S, i \in Nat : x = <<d, i>> /\ i < g[d]
      BY DEF Spots
    <3>2. i < SizeOf(d) /\ SizesOf[d] = SizeOf(d)
      BY <1>12, <1>14, <3>1 DEF SizesOf, S
    <3>. QED BY <3>1, <3>2 DEF Spots
  <2>2. \A d \in S : SizesOf[d] \in Nat
    BY <1>12 DEF SizesOf, S
  <2>3. IsFiniteSet(Spots(SizesOf, S))
    BY <1>11, <2>2, SpotsFinite
  <2>4. Cardinality(Spots(g, S)) <= Cardinality(Spots(SizesOf, S))
    BY <2>1, <2>3, FS_Subset
  <2>. QED BY <1>1, <2>4, TotalSizeCounts DEF S
<1>. DEFINE u == Cardinality(used)
            a == Reach(n, k)
            e == Reach(n, k + 1)
            s == NextBlock
            w == Cardinality(Spots(g, S))
<1>21. u + s <= w
  <2>1. u \in Nat /\ a \in Nat /\ e \in Nat /\ s \in Nat /\ others \in Nat
        /\ u <= a + others /\ a + s <= e /\ w = e + others
    BY <1>8, <1>16, <1>17, <1>18, <1>19
  <2>. HIDE DEF u, a, e, s, w, others
  <2>. QED BY <2>1
<1>22. 2^b <= 2^Length - u
  <2>1. w \in Nat /\ w <= 2^Length /\ 2^Length \in Nat
    <3>1. w \in Nat
      BY <1>8, <1>17, <1>18
    <3>2. 2^Length \in Nat
      <4>1. Length \in 0..(TopBit + 1)
        BY <1>9, BitsType DEF Bits
      <4>. QED BY <4>1, Doubles
    <3>. QED BY <1>3, <1>9, <1>20, <3>1, <3>2
  <2>. DEFINE t == 2^Length
  <2>2. t \in Nat /\ w \in Nat /\ w <= t /\ u + s <= w /\ u \in Nat /\ s \in Nat /\ s = 2^b
    BY <1>7, <1>8, <1>19, <1>21, <2>1
  <2>. HIDE DEF u, s, w, t
  <2>3. s <= t - u
    BY <2>2
  <2>. QED BY <2>2, <2>3 DEF t
<1>23. FreePrefixes(NextBlock) # {}
  <2>1. FreeAt(Length, used, b) # {}
    <3>1. used \subseteq 0..(2^Length - 1) /\ Whole(Length, used)
      BY <1>0, <1>9 DEF SpaceIsWhole
    <3>. QED BY <1>9, <1>10, <1>22, <3>1, WholeIsUsable
  <2>. QED BY <1>1, <1>7, <1>10, <2>1, PrefixesAreBlocks
<1>24. c = Current /\ g = [Reached EXCEPT ![Current] = Reach(SizeOf(Current), Len(placement[Current]) + 1)]
       /\ k = Len(placement[Current])
  BY DEF c, g, n, k
<1>. HIDE DEF u, s, w
<1>25. Cardinality(used) + NextBlock <= Cardinality(Spots(g, Components))
  BY <1>21 DEF u, s, w, S
<1>. QED BY <1>2, <1>3, <1>7, <1>10, <1>23, <1>24, <1>25

\* Nothing is in use at first: the vector is one free block.
LEMMA SpaceInit == Init => SpaceInv
<1>. SUFFICES ASSUME Init PROVE SpaceInv
  OBVIOUS
<1>1. /\ round \in Rounds /\ TotalSize <= 2^TopBit /\ pc = "place" /\ left = Components
      /\ placement = [c \in Components |-> <<>>] /\ used = {}
  BY DEF Init
<1>2. \A c \in Components : Len(placement[c]) = 0
  BY <1>1
<1>3. \A c \in Components : BlockCount(c) \in Nat /\ BlockCount(c) >= 1
  BY <1>1, ComponentBlocks
<1>4. SpaceIsWhole
  <2>1. Whole(Length, {})
    BY <1>1, LengthIs, EmptyIsWhole
  <2>. QED BY <1>1, <2>1 DEF SpaceIsWhole
<1>5. Cardinality(used) <= Cardinality(Spots(Reached, Components))
  <2>1. \A c \in Components : Reached[c] \in Nat
    <3>. TAKE c \in Components
    <3>1. Reached[c] = 0
      BY <1>2 DEF Reached, Reach
    <3>. QED BY <3>1
  <2>2. Cardinality(Spots(Reached, Components)) \in Nat
    BY <1>1, <2>1, ComponentsFinite, SpotsFinite
  <2>3. Cardinality(used) = 0
    BY <1>1, FS_EmptySet
  <2>. QED BY <2>2, <2>3
<1>6. SpaceIsAccounted
  BY <1>1, <1>2, <1>3, <1>5 DEF SpaceIsAccounted
<1>. QED BY <1>4, <1>6, PlacementInit DEF SpaceInv

\* Lengths and block counts depend on the round and the placements only.
LEMMA ReachedFixed ==
    ASSUME round' = round, placement' = placement
    PROVE  /\ Reached' = Reached /\ Length' = Length
           /\ \A c : BlockCount(c)' = BlockCount(c)
<1>1. Components' = Components /\ ComposedLength' = ComposedLength /\ \A c : SizeOf(c)' = SizeOf(c)
  BY RoundFixes
<1>2. Reached' = Reached
  BY <1>1 DEF Reached
<1>. QED BY <1>1, <1>2 DEF Length, BlockCount

\* A step that places nothing.
LEMMA OthersKeepSpace ==
    ASSUME SpaceInv, UNCHANGED <<round, placement, used>>, pc' # "panicked",
           pc' = "place" => pc = "place" /\ left' = left
    PROVE  SpaceInv'
<1>0. PlacementInv /\ SpaceIsWhole /\ SpaceIsAccounted
  BY DEF SpaceInv
<1>1. /\ Components' = Components /\ TotalSize' = TotalSize /\ ComposedLength' = ComposedLength
      /\ Reached' = Reached /\ Length' = Length /\ \A c : BlockCount(c)' = BlockCount(c)
  BY RoundFixes, ReachedFixed
<1>2. PlacementInv'
  BY <1>0, OthersKeep
<1>3. SpaceIsWhole'
  BY <1>0, <1>1 DEF SpaceIsWhole
<1>4. SpaceIsAccounted'
  <2>1. \A c \in Components : Len(placement[c])' <= BlockCount(c)'
    BY <1>0, <1>1 DEF SpaceIsAccounted
  <2>2. (Cardinality(used) <= Cardinality(Spots(Reached, Components)))'
    BY <1>0, <1>1 DEF SpaceIsAccounted, Spots
  <2>3. ASSUME pc' = "place"
        PROVE  left' \subseteq Components /\ \A c \in left' : Len(placement[c])' < BlockCount(c)'
    BY <1>0, <1>1, <2>3 DEF SpaceIsAccounted
  <2>. QED BY <1>1, <2>1, <2>2, <2>3 DEF SpaceIsAccounted
<1>. QED BY <1>2, <1>3, <1>4 DEF SpaceInv

\* Placing a block at the first prefix that is free.
LEMMA PlacedKeepsSpace ==
    ASSUME SpaceInv, pc = "place", left # {}, round' = round,
           NEW p \in FirstFree(FreePrefixes(NextBlock)), Placed(p)
    PROVE  SpaceInv'
<1>. DEFINE c == Current
            s == NextBlock
            block == [prefix |-> p, length |-> PrefixLength(s)]
            k == Len(placement[c])
<1>0. PlacementInv /\ SpaceIsWhole /\ SpaceIsAccounted
  BY DEF SpaceInv
<1>1. /\ round \in Rounds /\ TotalSize <= 2^TopBit /\ used \subseteq 0..(ComposedLength - 1)
      /\ Whole(Length, used)
  BY <1>0 DEF SpaceIsWhole
<1>2. /\ c \in Components /\ k < BlockCount(c)
      /\ Cardinality(used) + s <=
           Cardinality(Spots([Reached EXCEPT ![c] = Reach(SizeOf(c), k + 1)], Components))
  BY RoomForNext
<1>3. PICK b \in 0..Length : s = 2^b
  BY RoomForNext
<1>4. /\ placement' = [placement EXCEPT ![c] = Append(@, block)]
      /\ used' = used \cup Run(p * s, s)
      /\ left' = IF k + 1 = Len(BlockSizes(SizeOf(c))) THEN left \ {c} ELSE left
      /\ pc' = pc
  BY DEF Placed
<1>5. /\ Components' = Components /\ TotalSize' = TotalSize /\ ComposedLength' = ComposedLength
      /\ Length' = Length
      /\ \A d : SizeOf(d)' = SizeOf(d) /\ BlockCount(d)' = BlockCount(d)
  <2>1. /\ Components' = Components /\ TotalSize' = TotalSize /\ ComposedLength' = ComposedLength
        /\ \A d : SizeOf(d)' = SizeOf(d)
    BY RoundFixes
  <2>. QED BY <2>1 DEF Length, BlockCount
<1>6. p \in FreePrefixes(s) /\ \A q \in FreePrefixes(s) : p <= q
  BY DEF FirstFree
<1>7. PlacementInv'
  BY <1>0, <1>6, PlacedKeeps
<1>8. Length \in Bits /\ ComposedLength = 2^Length /\ Length \in Nat /\ b \in Nat
  <2>1. Length \in Bits /\ ComposedLength = 2^Length
    BY <1>1, LengthIs
  <2>. QED BY <2>1, BitsType
<1>9. FreePrefixes(s) = FreeAt(Length, used, b)
  BY <1>1, <1>3, PrefixesAreBlocks
<1>10. used' = used \cup Block(b, p)
  BY <1>3, <1>4 DEF Block
<1>11. Whole(Length', used')
  <2>1. p \in FreeAt(Length, used, b) /\ \A q \in FreeAt(Length, used, b) : p <= q
    BY <1>6, <1>9
  <2>2. Whole(Length, used \cup Block(b, p))
    BY <1>1, <1>8, <2>1, FirstFitKeepsWhole
  <2>. QED BY <1>5, <1>10, <2>2
<1>12. p \in Nat /\ s \in Nat /\ s >= 1 /\ ComposedLength \in Nat /\ p * s + s <= ComposedLength
  <2>1. s \in Nat /\ s >= 1 /\ ComposedLength \in Nat
    BY <1>3, <1>8, Sizes
  <2>2. p \in Nat /\ p * 2^b + 2^b <= 2^Length
    BY <1>6, <1>9 DEF FreeAt
  <2>. QED BY <1>3, <1>8, <2>1, <2>2
<1>13. k \in Nat /\ BlockCount(c) \in Nat
  BY <1>0, <1>1, <1>2, PlacementLength, ComponentBlocks
<1>14. \A d \in Components :
          placement'[d] = IF d = c THEN Append(placement[d], block) ELSE placement[d]
  <2>. HIDE DEF c, block
  <2>. QED BY <1>0, <1>4 DEF PlacementInv, PlacementIsSequences
<1>15. /\ Len(placement'[c]) = k + 1
       /\ \A d \in Components : d # c => Len(placement'[d]) = Len(placement[d])
  <2>1. PICK S : placement[c] \in Seq(S)
    BY <1>0, <1>2 DEF PlacementInv, PlacementIsSequences
  <2>2. placement'[c] = Append(placement[c], block)
    BY <1>2, <1>14
  <2>3. Len(Append(placement[c], block)) = Len(placement[c]) + 1
    <3>. HIDE DEF c, block
    <3>. QED BY <2>1
  <2>. QED BY <1>14, <2>2, <2>3
<1>. DEFINE run == Run(p * s, s)
<1>. HIDE DEF c, k, block, s
<1>16. SpaceIsWhole'
  <2>1. used' \subseteq 0..(ComposedLength - 1)
    <3>1. \A z \in Run(p * s, s) : z \in 0..(ComposedLength - 1)
      <4>. DEFINE a == p * s
      <4>1. a \in Nat /\ a + s <= ComposedLength
        BY <1>12
      <4>. HIDE DEF a
      <4>. QED BY <1>12, <4>1 DEF Run
    <3>. QED BY <1>1, <1>4, <3>1
  <2>2. pc' # "panicked"
    BY <1>4
  <2>. QED BY <1>1, <1>5, <1>11, <2>1, <2>2 DEF SpaceIsWhole
<1>17. IsFiniteSet(used) /\ IsFiniteSet(run) /\ Cardinality(run) = s
  <2>. DEFINE a == p * s
              e == a + s - 1
  <2>1. a \in Nat
    BY <1>12
  <2>2. run = a..e /\ e \in Int /\ a \in Int /\ ComposedLength - 1 \in Int
    BY <1>12, <2>1 DEF Run
  <2>3. IsFiniteSet(0..(ComposedLength - 1))
    BY <2>2, FS_Interval
  <2>4. IsFiniteSet(used)
    <3>1. used \in SUBSET (0..(ComposedLength - 1))
      BY <1>1
    <3>. QED BY <2>3, <3>1, FS_Subset
  <2>5. IsFiniteSet(run) /\ Cardinality(run) = IF a > e THEN 0 ELSE e - a + 1
    <3>. HIDE DEF a, e, run
    <3>. QED BY <2>2, FS_Interval
  <2>6. (IF a > e THEN 0 ELSE e - a + 1) = s
    <3>. HIDE DEF a
    <3>. QED BY <1>12, <2>1
  <2>. QED BY <2>4, <2>5, <2>6
<1>18. Cardinality(used') <= Cardinality(used) + s
  <2>1. Cardinality(used \cup run) = Cardinality(used) + Cardinality(run) - Cardinality(used \cap run)
    BY <1>17, FS_Union
  <2>2. Cardinality(used) \in Nat /\ Cardinality(used \cap run) \in Nat
    <3>1. IsFiniteSet(used \cap run)
      BY <1>17, FS_Intersection
    <3>. QED BY <1>17, <3>1, FS_CardinalityType
  <2>3. Cardinality(used') = Cardinality(used) + s - Cardinality(used \cap run)
    BY <1>4, <1>17, <2>1
  <2>. QED BY <1>12, <2>2, <2>3
<1>19. Reached' = [Reached EXCEPT ![c] = Reach(SizeOf(c), k + 1)]
  <2>1. Reached' = [d \in Components |-> Reach(SizeOf(d), Len(placement'[d]))]
    BY <1>5 DEF Reached
  <2>2. \A d \in Components : Reach(SizeOf(d), Len(placement'[d])) =
          IF d = c THEN Reach(SizeOf(c), k + 1) ELSE Reached[d]
    BY <1>15 DEF Reached
  <2>3. Reached = [d \in Components |-> Reached[d]]
    BY DEF Reached
  <2>. HIDE DEF Reached
  <2>. QED BY <2>1, <2>2, <2>3
<1>20. SpaceIsAccounted'
  <2>1. \A d \in Components : Len(placement'[d]) <= BlockCount(d)
    <3>. TAKE d \in Components
    <3>1. CASE d = c
      BY <1>2, <1>13, <1>15, <3>1
    <3>2. CASE d # c
      BY <1>0, <1>15, <3>2 DEF SpaceIsAccounted
    <3>. QED BY <3>1, <3>2
  <2>2. Cardinality(used') <= Cardinality(Spots(Reached', Components))
    <3>1. Cardinality(Spots(Reached', Components)) \in Nat
      <4>1. \A d \in Components : Reached'[d] \in Nat
        <5>. TAKE d \in Components
        <5>1. SizeOf(d) \in Nat
          BY <1>1, SizeType
        <5>2. Len(placement'[d]) \in Nat
          <6>1. CASE d = c
            BY <1>13, <1>15, <6>1
          <6>2. CASE d # c
            BY <1>0, <1>15, <6>2, PlacementLength
          <6>. QED BY <6>1, <6>2
        <5>3. Reach(SizeOf(d), Len(placement'[d])) \in Nat
          BY <2>1, <5>1, <5>2, ReachFits DEF BlockCount
        <5>. QED BY <1>5, <5>3 DEF Reached
      <4>. QED BY <1>1, <4>1, ComponentsFinite, SpotsFinite
    <3>2. Cardinality(used) \in Nat /\ Cardinality(used') \in Nat
      <4>1. IsFiniteSet(used')
        BY <1>4, <1>17, FS_Union
      <4>. QED BY <1>17, <4>1, FS_CardinalityType
    <3>3. Cardinality(used) + s <= Cardinality(Spots(Reached', Components))
      BY <1>2, <1>19
    <3>. QED BY <1>12, <1>18, <3>1, <3>2, <3>3
  <2>3. left' \subseteq Components /\ \A d \in left' : Len(placement'[d]) < BlockCount(d)
    <3>1. left \subseteq Components /\ \A d \in left : Len(placement[d]) < BlockCount(d)
      BY <1>0 DEF SpaceIsAccounted
    <3>2. Len(BlockSizes(SizeOf(c))) = BlockCount(c)
      BY <1>13 DEF BlockSizes, BlockCount
    <3>3. left' \subseteq left
      BY <1>4
    <3>4. ASSUME NEW d \in left' PROVE Len(placement'[d]) < BlockCount(d)
      <4>1. CASE d = c
        <5>1. k + 1 # BlockCount(c)
          BY <1>4, <3>2, <3>4, <4>1
        <5>. QED BY <1>2, <1>13, <1>15, <4>1, <5>1
      <4>2. CASE d # c
        <5>1. d \in left /\ d \in Components
          BY <3>1, <3>3
        <5>. QED BY <1>15, <3>1, <4>2, <5>1
      <4>. QED BY <4>1, <4>2
    <3>. QED BY <3>1, <3>3, <3>4
  <2>4. (Cardinality(used) <= Cardinality(Spots(Reached, Components)))'
    BY <1>5, <2>2 DEF Spots
  <2>. QED BY <1>5, <2>1, <2>3, <2>4 DEF SpaceIsAccounted
<1>. QED BY <1>7, <1>16, <1>20 DEF SpaceInv

\* One step per action.
LEMMA SpaceNext == SpaceInv /\ [Next]_vars => SpaceInv'
<1>. SUFFICES ASSUME SpaceInv, [Next]_vars PROVE SpaceInv'
  OBVIOUS
<1>0. pc # "panicked"
  BY DEF SpaceInv, SpaceIsWhole
<1>1. CASE PlaceBlock
  <2>1. pc = "place" /\ left # {} /\ round' = round
    BY <1>1 DEF PlaceBlock
  <2>2. FreePrefixes(NextBlock) # {}
    BY <2>1, RoomForNext
  <2>3. PICK p \in FirstFree(FreePrefixes(NextBlock)) : Placed(p)
    BY <1>1, <2>2 DEF PlaceBlock
  <2>. QED BY <2>1, <2>3, PlacedKeepsSpace
<1>2. CASE LayoutDone
  BY <1>2, OthersKeepSpace DEF LayoutDone
<1>3. CASE Paste
  <2>1. UNCHANGED <<round, pc, placement, used>> /\ pc = "paste"
    BY <1>3 DEF Paste
  <2>. QED BY <2>1, OthersKeepSpace
<1>4. CASE Packed
  BY <1>4, OthersKeepSpace DEF Packed
<1>5. CASE Finished
  BY <1>0, <1>5, OthersKeepSpace DEF Finished, vars
<1>6. CASE UNCHANGED vars
  BY <1>0, <1>6, OthersKeepSpace DEF vars
<1>. QED BY <1>1, <1>2, <1>3, <1>4, <1>5, <1>6 DEF Next

\* What the invariant says of the blocks that are left.
LEMMA SpaceIsEnough == SpaceInv => PlacementNeverFails
<1>. SUFFICES ASSUME SpaceInv PROVE PlacementNeverFails
  OBVIOUS
<1>1. /\ round \in Rounds /\ TotalSize <= 2^TopBit /\ pc # "panicked"
      /\ used \subseteq 0..(ComposedLength - 1) /\ Whole(Length, used)
  BY DEF SpaceInv, SpaceIsWhole
<1>2. Length \in Bits /\ ComposedLength = 2^Length
  BY <1>1, LengthIs
<1>3. ASSUME NEW b \in 0..Length, 2^b <= ComposedLength - UsedCount
      PROVE  FreePrefixes(2^b) # {}
  <2>1. 2^b <= 2^Length - Cardinality(used)
    BY <1>2, <1>3 DEF UsedCount
  <2>2. used \subseteq 0..(2^Length - 1)
    BY <1>1, <1>2
  <2>3. FreeAt(Length, used, b) # {}
    BY <1>1, <1>2, <2>1, <2>2, WholeIsUsable
  <2>. QED BY <1>1, <2>3, PrefixesAreBlocks
<1>. QED BY <1>1, <1>3 DEF PlacementNeverFails, Length

\* generate_config_inner never panics for want of a free prefix: whatever the sizes
\* of a round, and in whatever order its blocks come, a block that the free
\* positions still add up to finds an aligned place.
THEOREM EveryBlockFindsAPlace == Spec => []PlacementNeverFails
BY SpaceInit, SpaceNext, SpaceIsEnough, PTL DEF Spec

-----------------------------------------------------------------------------
(***************************************************************************)
(* How the blocks of a size tile it, each at what the larger bits add up   *)
(* to.                                                                     *)
(***************************************************************************)
\* A quotient and a remainder determine what they are of.
LEMMA Dividing ==
    ASSUME NEW q \in Nat, NEW d \in Nat, NEW r \in Nat, r < d
    PROVE  (q * d + r) \div d = q /\ (q * d + r) % d = r
<1>. DEFINE a == q * d + r
            x == a \div d
            y == a % d
            u == q * d
<1>1. a \in Nat /\ d >= 1 /\ u \in Nat /\ a = u + r
  BY SMT
<1>2. x \in Nat /\ y \in Nat /\ y < d /\ a = x * d + y
  <2>. HIDE DEF a
  <2>. QED BY <1>1
<1>. DEFINE v == x * d
<1>3. v \in Nat /\ a = v + y
  <2>. HIDE DEF a, x, y
  <2>. QED BY <1>1, <1>2
<1>4. (x < q => v + d <= u) /\ (q < x => u + d <= v)
  <2>. HIDE DEF x, y, a
  <2>. QED BY <1>1, <1>2, Scaling
<1>5. x = q
  <2>. HIDE DEF a, x, y, u, v
  <2>. QED BY <1>1, <1>2, <1>3, <1>4
<1>6. y = r
  <2>1. u = v
    BY <1>5
  <2>. HIDE DEF a, x, y, u, v
  <2>. QED BY <1>1, <1>2, <1>3, <2>1
<1>. QED BY <1>5, <1>6

\* Powers multiply by adding exponents, as long as the product is a size.
LEMMA PowersProduct ==
    ASSUME NEW a \in Bits, NEW b \in Bits, 2^a * 2^b <= 2^TopBit
    PROVE  a + b \in Bits /\ 2^(a + b) = 2^a * 2^b
<1>0. a \in Nat /\ b \in Nat /\ TopBit \in Nat /\ a <= TopBit /\ b <= TopBit
      /\ a \in 0..(TopBit + 1) /\ b \in 0..(TopBit + 1) /\ TopBit \in 0..(TopBit + 1)
  BY BitsType DEF Bits
<1>1. 2^a \in Nat /\ 2^a >= 1 /\ 2^b \in Nat /\ 2^b >= 1 /\ 2^TopBit \in Nat /\ 2^TopBit >= 1
  BY <1>0, Doubles
<1>2. a + b <= TopBit
  <2>1. ASSUME TopBit < a + b PROVE FALSE
    <3>. DEFINE e == TopBit - a
    <3>1. e \in 0..(TopBit + 1) /\ e < b /\ e <= TopBit /\ TopBit - e = a
      BY <1>0, <2>1
    <3>2. 2^TopBit = 2^a * 2^e
      BY <1>0, <3>1, PowersSplit
    <3>3. 2 * 2^e <= 2^b /\ 2^e \in Nat /\ 2^e >= 1
      BY <1>0, <3>1, PowersOrdered, Doubles
    <3>. DEFINE p == 2^a
                q == 2^e
                s == 2^b
                t == 2^TopBit
    <3>4. p \in Nat /\ q \in Nat /\ s \in Nat /\ t \in Nat /\ t >= 1 /\ t = p * q /\ 2 * q <= s /\ p * s <= t
      BY <1>1, <3>2, <3>3
    <3>. HIDE DEF p, q, s, t
    <3>5. \A x, y \in Nat : (2 * y) * x = 2 * (x * y) /\ 2 * y \in Nat /\ x * y \in Nat /\ y * x = x * y
      OBVIOUS
    <3>6. (2 * q) * p <= s * p
      BY <3>4, <3>5, Scaling
    <3>7. 2 * t <= p * s
      BY <3>4, <3>5, <3>6
    <3>8. p * s \in Nat
      BY <3>4, <3>5
    <3>. QED BY <3>4, <3>7, <3>8
  <2>. QED BY <1>0, <2>1
<1>3. a + b \in Bits /\ a + b \in 0..(TopBit + 1) /\ b <= a + b /\ (a + b) - b = a
  BY <1>0, <1>2 DEF Bits
<1>. QED BY <1>0, <1>3, PowersSplit

\* The offset a block starts at is what the larger bits add up to.
LEMMA OffsetIs ==
    ASSUME NEW n \in Nat, NEW b \in Bits
    PROVE  OffsetOf(2^b, n) = High(n, b + 1)
<1>1. 2^(b + 1) = 2 * 2^b /\ 2^(b + 1) \in Nat /\ 2^(b + 1) >= 1
  <2>1. b + 1 \in 0..(TopBit + 1)
    BY BitsType DEF Bits
  <2>. QED BY <2>1, Doubles
<1>. DEFINE d == 2^(b + 1)
<1>2. OffsetOf(2^b, n) = n - (n % d) /\ High(n, b + 1) = (n \div d) * d /\ d \in Nat /\ d >= 1
  BY <1>1 DEF OffsetOf, High
<1>. HIDE DEF d
<1>3. n = (n \div d) * d + (n % d) /\ (n \div d) * d \in Nat /\ n % d \in Nat
  BY <1>2
<1>. QED BY <1>2, <1>3

\* A bit that is not set adds nothing.
LEMMA HighFlat ==
    ASSUME NEW n \in Nat, NEW b \in Bits, b \notin SetBits(n)
    PROVE  High(n, b + 1) = High(n, b)
<1>. DEFINE r == 2^b
            q == n \div r
            h == q \div 2
<1>1. r \in Nat /\ r >= 1 /\ 2^(b + 1) = 2 * r
  <2>1. b \in 0..(TopBit + 1)
    BY BitsType DEF Bits
  <2>. QED BY <2>1, Doubles
<1>2. q \in Nat /\ n \div (2 * r) = h
  <2>. HIDE DEF r
  <2>. QED BY <1>1
<1>3. q % 2 # 1
  BY DEF SetBits, Bits
<1>4. h \in Nat /\ q = 2 * h
  <2>. HIDE DEF q
  <2>. QED BY <1>2, <1>3
<1>5. High(n, b) = q * r /\ High(n, b + 1) = h * (2 * r)
  BY <1>1, <1>2 DEF High
<1>. HIDE DEF r, q, h
<1>6. h * (2 * r) = (2 * h) * r
  BY <1>1, <1>4
<1>. QED BY <1>4, <1>5, <1>6

\* Every bit of a size is some block's.
LEMMA BitHasBlock ==
    ASSUME NEW n, NEW b \in SetBits(n)
    PROVE  \E k \in 1..Cardinality(SetBits(n)) : BlockBit(n, k) = b
<1>. DEFINE S == SetBits(n)
            Larger(x) == {a \in S : a > x}
            k == Cardinality(Larger(b)) + 1
<1>1. S \subseteq Bits
  BY DEF SetBits, Bits
<1>2. IsFiniteSet(S) /\ Cardinality(S) \in Nat /\ \A x \in S : x \in Nat
  BY <1>1, BitsFinite, BitsType
<1>3. \A x : IsFiniteSet(Larger(x)) /\ Cardinality(Larger(x)) \in Nat
  <2>. TAKE x
  <2>1. Larger(x) \subseteq Bits
    BY <1>1
  <2>. QED BY <2>1, BitsFinite
<1>4. \A x, y \in S : x < y => Cardinality(Larger(y)) < Cardinality(Larger(x))
  <2>. TAKE x, y \in S
  <2>. HAVE x < y
  <2>. DEFINE A == Larger(y)
              B == Larger(x)
  <2>1. y \notin A /\ A \cup {y} \subseteq B
    BY <1>2
  <2>2. IsFiniteSet(A) /\ IsFiniteSet(B) /\ Cardinality(A) \in Nat /\ Cardinality(B) \in Nat
    BY <1>3
  <2>. HIDE DEF A, B
  <2>3. Cardinality(A \cup {y}) = Cardinality(A) + 1
    BY <2>1, <2>2, FS_AddElement
  <2>4. A \cup {y} \in SUBSET B
    BY <2>1
  <2>5. Cardinality(A \cup {y}) <= Cardinality(B)
    BY <2>2, <2>4, FS_Subset
  <2>6. Cardinality(A) < Cardinality(B)
    BY <2>2, <2>3, <2>5
  <2>. QED BY <2>6 DEF A, B
<1>5. k \in 1..Cardinality(S)
  <2>. DEFINE A == Larger(b)
  <2>1. b \notin A /\ A \cup {b} \subseteq S /\ IsFiniteSet(A) /\ Cardinality(A) \in Nat
    BY <1>2, <1>3
  <2>. HIDE DEF A
  <2>2. Cardinality(A \cup {b}) = Cardinality(A) + 1
    BY <2>1, FS_AddElement
  <2>3. A \cup {b} \in SUBSET S
    BY <2>1
  <2>4. Cardinality(A \cup {b}) <= Cardinality(S)
    BY <1>2, <2>3, FS_Subset
  <2>5. Cardinality(A) + 1 \in 1..Cardinality(S)
    <3>. HIDE DEF S
    <3>. QED BY <1>2, <2>1, <2>2, <2>4
  <2>. QED BY <2>5 DEF A
<1>6. BlockBit(n, k) \in S /\ Cardinality(Larger(BlockBit(n, k))) = k - 1
  <2>1. k \in 1..Cardinality(SetBits(n))
    BY <1>5
  <2>. HIDE DEF k
  <2>. QED BY <2>1, BlockBitIs
<1>7. Cardinality(Larger(b)) = k - 1
  <2>. DEFINE x == Cardinality(Larger(b))
  <2>1. x \in Nat
    BY <1>3
  <2>2. x = (x + 1) - 1
    <3>. HIDE DEF x
    <3>. QED BY <2>1
  <2>. QED BY <2>2
<1>. HIDE DEF k, Larger
<1>. DEFINE x == BlockBit(n, k)
<1>8. x \in S /\ b \in S /\ Cardinality(Larger(x)) = Cardinality(Larger(b))
  BY <1>6, <1>7
<1>. HIDE DEF x, S
<1>9. x \in Nat /\ b \in Nat /\ ~(x < b) /\ ~(b < x)
  <2>1. Cardinality(Larger(x)) \in Nat
    BY <1>3
  <2>. QED BY <1>2, <1>4, <1>8, <2>1
<1>10. x = b
  BY <1>9
<1>. QED BY <1>5, <1>10 DEF x, S

\* The k-th block of a size: its bit, where it starts and where it ends.
LEMMA BlockSpan ==
    ASSUME NEW n \in Nat, NEW k \in 1..Cardinality(SetBits(n)), NEW b, b = BlockBit(n, k)
    PROVE  /\ b \in Bits /\ BlockSizes(n)[k] = 2^b /\ 2^b \in Nat /\ 2^b >= 1
           /\ OffsetOf(2^b, n) = High(n, b + 1) /\ High(n, b + 1) \in Nat
           /\ High(n, b + 1) + 2^b = High(n, b) /\ High(n, b) <= n
<1>1. b \in SetBits(n) /\ b \in Bits /\ BlockSizes(n)[k] = 2^b
  BY BlockBitIs
<1>2. b \in 0..(TopBit + 1) /\ b + 1 \in 0..(TopBit + 1)
  BY <1>1, BitsType DEF Bits
<1>. QED BY <1>1, <1>2, Doubles, OffsetIs, HighIs, HighSteps

\* The blocks of a size cover it.
LEMMA BlocksTile ==
    ASSUME NEW n \in Nat, n < 2^(TopBit + 1), NEW m \in Nat, m < n
    PROVE  \E k \in 1..Cardinality(SetBits(n)) :
             High(n, BlockBit(n, k) + 1) <= m /\ m < High(n, BlockBit(n, k))
<1>. DEFINE Low == {e \in 0..(TopBit + 1) : High(n, e) <= m}
<1>1. TopBit + 1 \in Low
  <2>. DEFINE t == 2^(TopBit + 1)
  <2>1. TopBit + 1 \in 0..(TopBit + 1)
    BY BitsType
  <2>2. t \in Nat /\ t >= 1 /\ High(n, TopBit + 1) = (n \div t) * t
    BY <2>1, Doubles DEF High
  <2>3. n < t
    OBVIOUS
  <2>. HIDE DEF t
  <2>4. n \div t = 0
    BY <2>2, <2>3
  <2>5. High(n, TopBit + 1) = 0
    BY <2>2, <2>4
  <2>. QED BY <2>1, <2>5
<1>2. Low \subseteq Nat
  BY BitsType
<1>. HIDE DEF Low
<1>3. PICK e \in Low : \A x \in Low : e <= x
  BY <1>1, <1>2, LeastNatural
<1>4. e \in 0..(TopBit + 1) /\ High(n, e) <= m
  BY <1>3 DEF Low
<1>5. e # 0
  <2>1. High(n, 0) = n
    <3>1. n \div 1 = n /\ n * 1 = n
      OBVIOUS
    <3>. QED BY <3>1, Doubles DEF High
  <2>. QED BY <1>4, <2>1
<1>6. PICK b \in Bits : e = b + 1
  <2>1. e - 1 \in Bits /\ e = (e - 1) + 1
    BY <1>4, <1>5, BitsType DEF Bits
  <2>. QED BY <2>1
<1>7. b \in 0..(TopBit + 1) /\ b < e
  BY <1>6, BitsType DEF Bits
<1>8. m < High(n, b)
  <2>1. b \notin Low
    BY <1>2, <1>3, <1>7
  <2>2. High(n, b) \in Nat
    BY <1>7, HighIs
  <2>. QED BY <1>7, <2>1, <2>2 DEF Low
<1>9. b \in SetBits(n)
  <2>1. High(n, b + 1) # High(n, b)
    BY <1>4, <1>6, <1>7, <1>8, HighIs
  <2>. QED BY <2>1, HighFlat
<1>10. PICK k \in 1..Cardinality(SetBits(n)) : BlockBit(n, k) = b
  BY <1>9, BitHasBlock
<1>. QED BY <1>4, <1>6, <1>8, <1>10

-----------------------------------------------------------------------------
(***************************************************************************)
(* Pasting. A component is pasted where its blocks are, one component      *)
(* after another, and what one lays down no other disturbs.                *)
(***************************************************************************)
\* Of components some is pasted before all others.
LEMMA SomeIsPastedFirst ==
    ASSUME round \in Rounds, NEW S, S \subseteq Components, S # {}
    PROVE  First(S, PastedBefore) \in S
<1>00. \A c \in S : /\ c.tree \in AllTrees /\ c.level \in Nat /\ c.row \in Nat
                    /\ c = [tree |-> c.tree, level |-> c.level, row |-> c.row]
  <2>. TAKE c \in S
  <2>1. c \in Components
    OBVIOUS
  <2>2. c.tree \in AllTrees /\ c.level \in 1..Len(TreeLevels(c.tree))
    BY <2>1, ComponentParts
  <2>3. c.level \in Nat
    BY <2>2, LevelsOf
  <2>4. c.row \in 0..(Rows(c.tree, c.level) - 1)
    BY <2>1, ComponentParts
  <2>5. Rows(c.tree, c.level) \in Nat
    BY <2>3, RowsType
  <2>. QED BY <2>1, <2>2, <2>3, <2>4, <2>5, ComponentParts
<1>01. \A t, u \in AllTrees : /\ PasteRank[t] \in Nat
                              /\ PasteRank[t] = PasteRank[u] => t = u
  BY DEF PasteRank, AllTrees, Trees
<1>2. PICK S2 : /\ S2 \subseteq S /\ S2 # {}
                /\ \A c \in S2 : \A d \in S : /\ PasteRank[c.tree] <= PasteRank[d.tree]
                                              /\ (d \notin S2 => PasteRank[c.tree] < PasteRank[d.tree])
  <2>. DEFINE rank(c) == PasteRank[c.tree]
              ranks == {rank(c) : c \in S}
  <2>1. ranks \subseteq Nat /\ ranks # {}
    BY <1>00, <1>01
  <2>. HIDE DEF ranks
  <2>2. PICK g \in ranks : \A x \in ranks : g <= x
    BY <2>1, LeastNatural
  <2>. DEFINE S2 == {c \in S : rank(c) = g}
  <2>3. S2 \subseteq S /\ S2 # {}
    BY <2>2 DEF ranks
  <2>4. \A c \in S2 : \A d \in S : rank(c) <= rank(d) /\ (d \notin S2 => rank(c) < rank(d))
    <3>. TAKE c \in S2
    <3>. TAKE d \in S
    <3>1. rank(c) = g /\ g <= rank(d) /\ (d \notin S2 => rank(d) # g)
      BY <2>2 DEF ranks
    <3>2. rank(d) \in Nat /\ g \in Nat
      BY <1>00, <1>01, <2>1
    <3>. QED BY <3>1, <3>2
  <2>. QED BY <2>3, <2>4
<1>3. PICK S3 : /\ S3 \subseteq S2 /\ S3 # {}
                /\ \A c \in S3 : \A d \in S2 : c.level <= d.level /\ (d \notin S3 => c.level < d.level)
  <2>. DEFINE ranks == {c.level : c \in S2}
  <2>1. ranks \subseteq Nat /\ ranks # {}
    BY <1>00, <1>2
  <2>. HIDE DEF ranks
  <2>2. PICK g \in ranks : \A x \in ranks : g <= x
    BY <2>1, LeastNatural
  <2>. DEFINE S3 == {c \in S2 : c.level = g}
  <2>3. S3 \subseteq S2 /\ S3 # {}
    BY <2>2 DEF ranks
  <2>4. \A c \in S3 : \A d \in S2 : c.level <= d.level /\ (d \notin S3 => c.level < d.level)
    <3>. TAKE c \in S3
    <3>. TAKE d \in S2
    <3>1. c.level = g /\ g <= d.level /\ (d \notin S3 => d.level # g)
      BY <2>2 DEF ranks
    <3>2. d.level \in Nat /\ g \in Nat
      BY <1>00, <1>2, <2>1
    <3>. QED BY <3>1, <3>2
  <2>. QED BY <2>3, <2>4
<1>4. PICK c \in S3 : \A d \in S3 : c.row <= d.row
  <2>. DEFINE ranks == {c.row : c \in S3}
  <2>1. ranks \subseteq Nat /\ ranks # {}
    BY <1>00, <1>2, <1>3
  <2>. HIDE DEF ranks
  <2>2. PICK g \in ranks : \A x \in ranks : g <= x
    BY <2>1, LeastNatural
  <2>. QED BY <2>2 DEF ranks
<1>5. \A d \in S \ {c} : PastedBefore(c, d)
  <2>. TAKE d \in S \ {c}
  <2>0. c \in S /\ c \in S2 /\ d \in S /\ d # c
    BY <1>2, <1>3
  <2>1. CASE d \notin S2
    BY <1>2, <2>0, <2>1 DEF PastedBefore
  <2>2. CASE d \in S2
    <3>1. c.tree = d.tree
      <4>1. PasteRank[c.tree] <= PasteRank[d.tree] /\ PasteRank[d.tree] <= PasteRank[c.tree]
        BY <1>2, <2>0, <2>2
      <4>. QED BY <1>00, <1>01, <2>0, <4>1
    <3>2. CollectedBefore(c, d)
      <4>1. CASE d \notin S3
        BY <1>3, <2>2, <3>1, <4>1 DEF CollectedBefore
      <4>2. CASE d \in S3
        <5>1. c.level = d.level
          <6>1. c.level <= d.level /\ d.level <= c.level
            BY <1>3, <2>0, <2>2, <4>2
          <6>. QED BY <1>00, <2>0, <6>1
        <5>2. c.row <= d.row /\ c.row \in Nat /\ d.row \in Nat
          BY <1>00, <1>4, <2>0, <4>2
        <5>3. c.row # d.row
          BY <1>00, <2>0, <3>1, <5>1
        <5>. QED BY <3>1, <5>1, <5>2, <5>3 DEF CollectedBefore
      <4>. QED BY <4>1, <4>2
    <3>. QED BY <3>1, <3>2 DEF PastedBefore
  <2>. QED BY <2>1, <2>2
<1>6. \E x \in S : \A d \in S \ {x} : PastedBefore(x, d)
  BY <1>2, <1>3, <1>4, <1>5
<1>. QED BY <1>6 DEF First

-----------------------------------------------------------------------------
(***************************************************************************)
(* What is pasted.                                                         *)
(***************************************************************************)
\* The k-th block of a component: its length, where it starts, its positions, and
\* the entry of the level's input that its i-th position is pasted from.
SizeAt(c, k) == BlockSizes(SizeOf(c))[k]
StartAt(c, k) == placement[c][k].prefix * SizeAt(c, k)
SpanAt(c, k) == Run(StartAt(c, k), SizeAt(c, k))
SourceAt(c, k, i) == c.row * RowStride(c) + OffsetOf(SizeAt(c, k), SizeOf(c)) + i

\* A block is placed on a prefix of its length, away from the component's others.
BlocksFit ==
    \A c \in Components : \A k \in DOMAIN placement[c] :
      /\ placement[c][k].prefix \in Nat
      /\ placement[c][k].length = PrefixLength(SizeAt(c, k))
      /\ \A j \in DOMAIN placement[c] : j # k => SpanAt(c, k) \cap SpanAt(c, j) = {}

\* A component is pasted only when all have all of their blocks.
PlacedFirst ==
    /\ pc \in {"place", "paste", "packed"}
    /\ \A c \in Components : (pc = "place" /\ c \in left) \/ Len(placement[c]) = BlockCount(c)
    /\ pc = "packed" => left = {}
    /\ left \subseteq Components

\* A component's data is where its blocks are.
Laid(c) ==
    \A k \in DOMAIN placement[c] : \A i \in 0..(SizeAt(c, k) - 1) :
      data[StartAt(c, k) + i] = CommittedEntry(c, SourceAt(c, k, i))

PastedSoFar ==
    /\ data = [i \in 0..(ComposedLength - 1) |-> data[i]]
    /\ \A i \in 0..(ComposedLength - 1) : data[i] # Zero => i \in used
    /\ pc = "place" \/ \A c \in Components \ left : Laid(c)

\* The invariant of what is read back.
PasteInv ==
    /\ SpaceInv /\ ComposedLength % round.nextWidth = 0
    /\ BlocksFit /\ PlacedFirst /\ PastedSoFar

\* Initially there are no blocks and no data.
LEMMA PasteInit == Init => PasteInv
<1>. SUFFICES ASSUME Init PROVE PasteInv
  OBVIOUS
<1>1. /\ pc = "place" /\ left = Components /\ placement = [c \in Components |-> <<>>]
      /\ data = [i \in 0..(ComposedLength - 1) |-> Zero] /\ ComposedLength % round.nextWidth = 0
  BY DEF Init
<1>2. SpaceInv
  BY SpaceInit
<1>3. BlocksFit
  <2>1. \A c \in Components : DOMAIN placement[c] = {}
    BY <1>1
  <2>. QED BY <2>1 DEF BlocksFit
<1>4. PlacedFirst
  BY <1>1 DEF PlacedFirst
<1>5. PastedSoFar
  <2>1. \A i \in 0..(ComposedLength - 1) : data[i] = Zero
    BY <1>1
  <2>2. data = [i \in 0..(ComposedLength - 1) |-> data[i]]
    <3>. HIDE DEF Zero
    <3>. QED BY <1>1
  <2>. QED BY <1>1, <2>1, <2>2 DEF PastedSoFar
<1>. QED BY <1>1, <1>2, <1>3, <1>4, <1>5 DEF PasteInv

\* A placement has a block for each of its places.
LEMMA PlacementDomain ==
    ASSUME PlacementInv, NEW c \in Components
    PROVE  DOMAIN placement[c] = 1..Len(placement[c]) /\ Len(placement[c]) \in Nat
<1>1. PICK S : placement[c] \in Seq(S)
  BY DEF PlacementInv, PlacementIsSequences
<1>. QED BY <1>1

\* The positions of a component are those of its blocks.
LEMMA CellsAreSpans ==
    ASSUME NEW c
    PROVE  Cells(c) = UNION {SpanAt(c, k) : k \in DOMAIN placement[c]}
BY DEF Cells, SpanAt, StartAt, SizeAt

\* Blocks, and what they are pasted from, depend on the round and the placements only.
LEMMA SpansFixed ==
    ASSUME round' = round
    PROVE  /\ \A c, k : SizeAt(c, k)' = SizeAt(c, k)
           /\ \A c, k : placement'[c] = placement[c] =>
                          StartAt(c, k)' = StartAt(c, k) /\ SpanAt(c, k)' = SpanAt(c, k)
           /\ \A c, k, i : SourceAt(c, k, i)' = SourceAt(c, k, i)
           /\ \A c, i : CommittedEntry(c, i)' = CommittedEntry(c, i)
           /\ \A s : PrefixLength(s)' = PrefixLength(s)
<1>1. ComposedLength' = ComposedLength /\ \A c : SizeOf(c)' = SizeOf(c)
  BY RoundFixes
<1>2. /\ \A t, l : Rows(t, l)' = Rows(t, l) /\ RowLen(t, l)' = RowLen(t, l)
      /\ \A c : Chunks(c)' = Chunks(c)
  BY DEF Rows, RowLen, BatchedRows, TreeLevels, Chunks
<1>3. \A c, k : SizeAt(c, k)' = SizeAt(c, k)
  BY <1>1 DEF SizeAt
<1>4. \A c, k : placement'[c] = placement[c] =>
                  StartAt(c, k)' = StartAt(c, k) /\ SpanAt(c, k)' = SpanAt(c, k)
  BY <1>3 DEF StartAt, SpanAt
<1>5. \A c : RowLength(c)' = RowLength(c) /\ PaddedChunks(c)' = PaddedChunks(c)
  BY <1>2 DEF RowLength, PaddedChunks, PaddedLength
<1>6. \A c, k, i : SourceAt(c, k, i)' = SourceAt(c, k, i)
  BY <1>1, <1>3, <1>5 DEF SourceAt, RowStride
<1>7. \A c, i : CommittedEntry(c, i)' = CommittedEntry(c, i)
  BY <1>2, <1>5 DEF CommittedEntry
<1>. QED BY <1>1, <1>3, <1>4, <1>6, <1>7 DEF PrefixLength

\* A block that is placed was free, so it is apart from the component's others.
LEMMA PlacedKeepsBlocks ==
    ASSUME PasteInv, pc = "place", left # {}, UNCHANGED <<round, data>>,
           NEW p \in FirstFree(FreePrefixes(NextBlock)), Placed(p)
    PROVE  BlocksFit' /\ PlacedFirst' /\ PastedSoFar'
<1>01. PICK c : c = Current
  OBVIOUS
<1>02. PICK s : s = NextBlock
  OBVIOUS
<1>03. PICK block : block = [prefix |-> p, length |-> PrefixLength(s)]
  OBVIOUS
<1>04. PICK k : k = Len(placement[c])
  OBVIOUS
<1>0. SpaceInv /\ PlacementInv /\ SpaceIsWhole /\ SpaceIsAccounted /\ BlocksFit /\ PlacedFirst /\ PastedSoFar
  BY DEF PasteInv, SpaceInv
<1>1. c \in Components /\ k < BlockCount(c)
  BY <1>0, <1>01, <1>04, RoomForNext
<1>2. /\ placement' = [placement EXCEPT ![c] = Append(@, block)]
      /\ used' = used \cup Run(p * s, s)
      /\ left' = IF k + 1 = Len(BlockSizes(SizeOf(c))) THEN left \ {c} ELSE left
      /\ pc' = pc
  BY <1>01, <1>02, <1>03, <1>04 DEF Placed
<1>3. p \in FreePrefixes(s)
  BY <1>02 DEF FirstFree
<1>4. p \in Nat /\ Run(p * s, s) \cap used = {}
  <2>1. PICK b \in 0..Length : s = 2^b
    BY <1>0, <1>02, RoomForNext
  <2>2. FreePrefixes(s) = FreeAt(Length, used, b)
    BY <1>0, <2>1, PrefixesAreBlocks DEF SpaceIsWhole
  <2>. QED BY <1>3, <2>2 DEF FreeAt, FreePrefixes
<1>5. DOMAIN placement[c] = 1..k /\ k \in Nat
  BY <1>0, <1>1, <1>04, PlacementDomain
<1>6. s = SizeAt(c, k + 1)
  BY <1>01, <1>02, <1>04 DEF NextBlock, SizeAt
<1>7. BlockCount(c) \in Nat /\ Len(BlockSizes(SizeOf(c))) = BlockCount(c)
  <2>1. BlockCount(c) \in Nat
    BY <1>0, <1>1, ComponentBlocks DEF SpaceIsWhole
  <2>. QED BY <2>1 DEF BlockSizes, BlockCount
<1>8. \A d \in Components :
        placement'[d] = IF d = c THEN Append(placement[d], block) ELSE placement[d]
  <2>. QED BY <1>0, <1>2 DEF PlacementInv, PlacementIsSequences
<1>9. /\ DOMAIN placement'[c] = 1..(k + 1) /\ Len(placement'[c]) = k + 1
      /\ placement'[c][k + 1] = block
      /\ \A j \in 1..k : placement'[c][j] = placement[c][j]
  <2>1. PICK S : placement[c] \in Seq(S)
    BY <1>0, <1>1 DEF PlacementInv, PlacementIsSequences
  <2>2. placement'[c] = Append(placement[c], block)
    BY <1>1, <1>8
  <2>. DEFINE q == placement[c]
  <2>3. q \in Seq(S) /\ k = Len(q) /\ placement'[c] = Append(q, block)
    BY <1>04, <2>1, <2>2
  <2>. DEFINE T == S \cup {block}
  <2>4. q \in Seq(T) /\ block \in T /\ k = Len(q) /\ placement'[c] = Append(q, block)
    BY <2>3
  <2>. DEFINE r == placement'[c]
  <2>5. q \in Seq(T) /\ block \in T /\ k = Len(q) /\ r = Append(q, block)
    BY <2>4
  <2>. HIDE DEF q, r, T
  <2>6. Len(r) = k + 1 /\ r \in Seq(T)
    BY <2>5
  <2>7. DOMAIN r = 1..(k + 1)
    BY <2>6
  <2>8. r[k + 1] = block
    BY <2>5
  <2>9. \A j \in 1..k : r[j] = q[j]
    BY <2>5
  <2>. QED BY <2>6, <2>7, <2>8, <2>9 DEF r, q
<1>10. /\ Components' = Components /\ ComposedLength' = ComposedLength
       /\ \A d : BlockCount(d)' = BlockCount(d)
  <2>1. Components' = Components /\ ComposedLength' = ComposedLength /\ \A d : SizeOf(d)' = SizeOf(d)
    BY RoundFixes
  <2>. QED BY <2>1 DEF BlockCount
<1>11. /\ \A d, j : SizeAt(d, j)' = SizeAt(d, j)
       /\ \A d, j : placement'[d] = placement[d] =>
                      StartAt(d, j)' = StartAt(d, j) /\ SpanAt(d, j)' = SpanAt(d, j)
       /\ \A x : PrefixLength(x)' = PrefixLength(x)
  BY SpansFixed
<1>12. Cells(c) \subseteq used
  BY <1>0, <1>1 DEF PlacementInv, UsedCoversCells
<1>13. \A j \in 1..k : SpanAt(c, j)' = SpanAt(c, j)
  BY <1>9, <1>11 DEF SpanAt, StartAt
<1>14. SpanAt(c, k + 1)' = Run(p * s, s)
  <2>1. block.prefix = p
    BY <1>03
  <2>. QED BY <1>6, <1>9, <1>11, <2>1 DEF SpanAt, StartAt
<1>15. \A j \in 1..k : SpanAt(c, j) \subseteq used
  BY <1>5, <1>12, CellsAreSpans
<1>16. BlocksFit'
  <2>1. ASSUME NEW d \in Components, NEW i \in DOMAIN placement'[d]
        PROVE  /\ placement'[d][i].prefix \in Nat
               /\ placement'[d][i].length = PrefixLength(SizeAt(d, i))
               /\ \A j \in DOMAIN placement'[d] : j # i => SpanAt(d, i)' \cap SpanAt(d, j)' = {}
    <3>1. CASE d # c
      BY <1>0, <1>8, <1>11, <2>1, <3>1 DEF BlocksFit
    <3>2. CASE d = c /\ i \in 1..k
      <4>1. \A j \in 1..k : j # i => SpanAt(c, i)' \cap SpanAt(c, j)' = {}
        BY <1>0, <1>5, <1>1, <1>13, <3>2 DEF BlocksFit
      <4>2. SpanAt(c, i)' \cap SpanAt(c, k + 1)' = {}
        BY <1>4, <1>13, <1>14, <1>15, <3>2
      <4>3. placement'[c][i] = placement[c][i] /\ i \in DOMAIN placement[c]
        BY <1>5, <1>9, <3>2
      <4>4. \A j \in DOMAIN placement'[c] : j \in 1..k \/ j = k + 1
        BY <1>5, <1>9
      <4>. QED BY <1>0, <1>1, <3>2, <4>1, <4>2, <4>3, <4>4 DEF BlocksFit
    <3>3. CASE d = c /\ i = k + 1
      <4>1. \A j \in 1..k : SpanAt(c, i)' \cap SpanAt(c, j)' = {}
        BY <1>4, <1>13, <1>14, <1>15, <3>3
      <4>2. \A j \in DOMAIN placement'[c] : j \in 1..k \/ j = k + 1
        BY <1>5, <1>9
      <4>3. block.prefix = p /\ block.length = PrefixLength(s)
        BY <1>03
      <4>. QED BY <1>4, <1>6, <1>9, <3>3, <4>1, <4>2, <4>3
    <3>4. d = c => i \in 1..k \/ i = k + 1
      BY <1>5, <1>9, <2>1
    <3>. QED BY <3>1, <3>2, <3>3, <3>4
  <2>. QED BY <1>10, <1>11, <2>1 DEF BlocksFit
<1>17. PlacedFirst'
  <2>1. \A d \in Components : d \in left' \/ Len(placement'[d]) = BlockCount(d)
    <3>. TAKE d \in Components
    <3>1. CASE d # c
      BY <1>0, <1>2, <1>8, <3>1 DEF PlacedFirst
    <3>2. CASE d = c
      <4>1. CASE k + 1 = BlockCount(c)
        BY <1>9, <3>2, <4>1
      <4>2. CASE k + 1 # BlockCount(c)
        <5>1. left' = left
          BY <1>2, <1>7, <4>2
        <5>2. k # BlockCount(c) /\ k = Len(placement[c])
          <6>1. k = Len(placement[c])
            BY <1>04
          <6>. QED BY <1>1, <1>5, <1>7, <6>1
        <5>. QED BY <1>0, <1>1, <3>2, <5>1, <5>2 DEF PlacedFirst
      <4>. QED BY <4>1, <4>2
    <3>. QED BY <3>1, <3>2
  <2>2. left' \subseteq Components
    BY <1>0, <1>2 DEF PlacedFirst
  <2>. QED BY <1>2, <1>10, <2>1, <2>2 DEF PlacedFirst
<1>18. PastedSoFar'
  BY <1>0, <1>2, <1>10 DEF PastedSoFar, Zero
<1>. QED BY <1>16, <1>17, <1>18

\* Steps that place nothing.
LEMMA OthersKeepBlocks ==
    ASSUME PasteInv, UNCHANGED <<round, placement>>
    PROVE  /\ BlocksFit'
           /\ Components' = Components /\ ComposedLength' = ComposedLength
           /\ \A c : BlockCount(c)' = BlockCount(c)
           /\ \A c \in Components : data' = data /\ Laid(c) => Laid(c)'
<1>1. Components' = Components /\ ComposedLength' = ComposedLength /\ \A d : SizeOf(d)' = SizeOf(d)
  BY RoundFixes
<1>2. /\ \A d, j : SizeAt(d, j)' = SizeAt(d, j)
      /\ \A d, j : StartAt(d, j)' = StartAt(d, j) /\ SpanAt(d, j)' = SpanAt(d, j)
      /\ \A x : PrefixLength(x)' = PrefixLength(x)
      /\ \A d, j, i : SourceAt(d, j, i)' = SourceAt(d, j, i)
      /\ \A d, i : CommittedEntry(d, i)' = CommittedEntry(d, i)
  BY SpansFixed
<1>3. BlocksFit'
  BY <1>1, <1>2 DEF PasteInv, BlocksFit
<1>4. \A c \in Components : data' = data /\ Laid(c) => Laid(c)'
  BY <1>2 DEF Laid
<1>. QED BY <1>1, <1>3, <1>4 DEF BlockCount

\* A power of two of at most a power of two has at most its exponent.
LEMMA ExponentFits ==
    ASSUME NEW b \in Bits, NEW n \in Bits, 2^b <= 2^n
    PROVE  b <= n
<1>1. b \in 0..(TopBit + 1) /\ n \in 0..(TopBit + 1) /\ b \in Nat /\ n \in Nat
  BY BitsType DEF Bits
<1>2. n < b => 2 * 2^n <= 2^b
  BY <1>1, PowersOrdered
<1>. DEFINE x == 2^b
            y == 2^n
<1>3. x \in Nat /\ y \in Nat /\ y >= 1 /\ x <= y /\ (n < b => 2 * y <= x)
  BY <1>1, <1>2, Doubles
<1>. HIDE DEF x, y
<1>. QED BY <1>1, <1>3

\* What is known of a placed block: its length is a power of two, it starts where its
\* prefix says, it covers the positions from there on, and what is recomposed from it
\* starts at what the larger bits of the size add up to.
LEMMA BlockFacts ==
    ASSUME PasteInv, NEW c \in Components, NEW k \in DOMAIN placement[c],
           NEW b, b = BlockBit(SizeOf(c), k)
    PROVE  /\ k \in 1..Cardinality(SetBits(SizeOf(c)))
           /\ b \in 0..Length /\ b \in Bits
           /\ SizeAt(c, k) = 2^b /\ SizeAt(c, k) \in Nat /\ SizeAt(c, k) >= 1
           /\ OffsetOf(SizeAt(c, k), SizeOf(c)) = High(SizeOf(c), b + 1)
           /\ High(SizeOf(c), b + 1) \in Nat
           /\ High(SizeOf(c), b + 1) + SizeAt(c, k) = High(SizeOf(c), b)
           /\ High(SizeOf(c), b) <= SizeOf(c)
           /\ StartAt(c, k) \in Nat /\ StartAt(c, k) + SizeAt(c, k) <= ComposedLength
           /\ SpanAt(c, k) \subseteq used
           /\ Blocks(c)[k] = [offset |-> OffsetOf(SizeAt(c, k), SizeOf(c)), size |-> SizeAt(c, k),
                              start |-> StartAt(c, k)]
<1>. DEFINE n == SizeOf(c)
            s == SizeAt(c, k)
            p == placement[c][k].prefix
<1>0. PlacementInv /\ SpaceIsWhole /\ SpaceIsAccounted /\ BlocksFit
  BY DEF PasteInv, SpaceInv
<1>1. round \in Rounds /\ TotalSize <= 2^TopBit /\ used \subseteq 0..(ComposedLength - 1)
  BY <1>0 DEF SpaceIsWhole
<1>2. n \in Nat /\ n >= 1 /\ n <= TotalSize /\ TotalSize \in Nat
  BY <1>1, SizeType, SizesFit, TotalSizeCounts
<1>3. k \in 1..Cardinality(SetBits(n))
  <2>1. DOMAIN placement[c] = 1..Len(placement[c]) /\ Len(placement[c]) \in Nat
    BY <1>0, PlacementDomain
  <2>2. Len(placement[c]) <= BlockCount(c) /\ BlockCount(c) \in Nat
    BY <1>0, <1>1, ComponentBlocks DEF SpaceIsAccounted
  <2>3. BlockCount(c) = Cardinality(SetBits(n))
    BY DEF BlockCount
  <2>. QED BY <2>1, <2>2, <2>3
<1>4. /\ b \in Bits /\ s = 2^b /\ s \in Nat /\ s >= 1
      /\ OffsetOf(s, n) = High(n, b + 1) /\ High(n, b + 1) \in Nat
      /\ High(n, b + 1) + s = High(n, b) /\ High(n, b) <= n
  <2>1. s = BlockSizes(n)[k]
    BY DEF SizeAt
  <2>. HIDE DEF n, s
  <2>2. b = BlockBit(n, k)
    BY DEF n
  <2>. QED BY <1>2, <1>3, <2>1, <2>2, BlockSpan
<1>5. Length \in Bits /\ ComposedLength = 2^Length /\ TotalSize <= 2^Length /\ 2^Length \in Nat
  <2>1. Length \in Bits /\ ComposedLength = 2^Length /\ TotalSize <= 2^Length
    BY <1>1, LengthIs
  <2>2. Length \in 0..(TopBit + 1)
    BY <2>1, BitsType DEF Bits
  <2>. QED BY <2>1, <2>2, Doubles
<1>6. b \in 0..Length
  <2>1. s <= 2^Length
    <3>. DEFINE t == 2^Length
    <3>1. t \in Nat /\ TotalSize <= t /\ High(n, b) \in Nat
      <4>1. b \in 0..(TopBit + 1)
        BY <1>4, BitsType DEF Bits
      <4>. QED BY <1>2, <1>5, <4>1, HighIs
    <3>. HIDE DEF t, n, s
    <3>. QED BY <1>2, <1>4, <3>1 DEF t
  <2>2. b <= Length
    BY <1>4, <1>5, <2>1, ExponentFits
  <2>. QED BY <1>4, <1>5, <2>2, BitsType
<1>7. p \in Nat /\ placement[c][k].length = PrefixLength(s)
  BY <1>0 DEF BlocksFit
<1>8. StartAt(c, k) = p * s /\ StartAt(c, k) \in Nat
  <2>1. StartAt(c, k) = p * s
    BY DEF StartAt
  <2>. HIDE DEF p, s
  <2>. QED BY <1>4, <1>7, <2>1
<1>9. SpanAt(c, k) \subseteq used
  BY <1>0, CellsAreSpans DEF PlacementInv, UsedCoversCells
<1>10. StartAt(c, k) + SizeAt(c, k) <= ComposedLength
  <2>. DEFINE st == StartAt(c, k)
              cl == ComposedLength
              last == st + (s - 1)
  <2>1. cl \in Nat /\ st \in Nat
    BY <1>5, <1>8
  <2>2. last \in SpanAt(c, k)
    <3>1. SpanAt(c, k) = st..(st + s - 1)
      BY DEF SpanAt, Run
    <3>. HIDE DEF st, s
    <3>. QED BY <1>4, <2>1, <3>1
  <2>3. last \in 0..(cl - 1)
    BY <1>1, <1>9, <2>2
  <2>. HIDE DEF st, s, cl
  <2>4. st + s <= cl
    BY <1>4, <2>1, <2>3
  <2>. QED BY <2>4 DEF st, s, cl
<1>11. Blocks(c)[k] = [offset |-> OffsetOf(s, n), size |-> s, start |-> StartAt(c, k)]
  <2>1. BlockStart(placement[c][k]) = StartAt(c, k)
    <3>1. PrefixLength(s) = Length - Log2(s) /\ Log2(s) = b
      BY <1>4, Log2Power DEF PrefixLength, Length
    <3>2. Length - (Length - b) = b
      BY <1>4, <1>5, BitsType
    <3>3. BlockStart(placement[c][k]) = p * 2^(Length - (Length - b))
      BY <1>7, <3>1 DEF BlockStart, Length
    <3>. QED BY <1>4, <1>8, <3>2, <3>3
  <2>. QED BY <2>1 DEF Blocks, SizeAt
<1>. QED BY <1>3, <1>4, <1>6, <1>8, <1>9, <1>10, <1>11

\* Pasting a component puts its data where its blocks are and changes nothing else.
LEMMA PasteWrites ==
    ASSUME PasteInv, Paste, NEW c, c = First(left, PastedBefore)
    PROVE  /\ c \in left /\ c \in Components
           /\ DOMAIN data' = 0..(ComposedLength - 1)
           /\ data' = [i \in 0..(ComposedLength - 1) |-> data'[i]]
           /\ \A i \in 0..(ComposedLength - 1) : i \notin Cells(c) => data'[i] = data[i]
           /\ \A k \in DOMAIN placement[c] : \A j \in 0..(SizeAt(c, k) - 1) :
                data'[StartAt(c, k) + j] = CommittedEntry(c, SourceAt(c, k, j))
<1>. DEFINE blocks == Blocks(c)
            in(i) == {k \in DOMAIN blocks : i \in Run(blocks[k].start, blocks[k].size)}
            source(i, b) == c.row * RowStride(c) + b.offset + (i - b.start)
            new(i) == IF in(i) = {} THEN data[i]
                      ELSE CommittedEntry(c, source(i, blocks[CHOOSE k \in in(i) : TRUE]))
<1>0. /\ PlacementInv /\ SpaceIsWhole /\ BlocksFit /\ PlacedFirst
      /\ data = [i \in 0..(ComposedLength - 1) |-> data[i]]
  BY DEF PasteInv, SpaceInv, PastedSoFar
<1>1. round \in Rounds
  BY <1>0 DEF SpaceIsWhole
<1>2. c \in left /\ c \in Components
  <2>1. left \subseteq Components /\ left # {}
    BY <1>0 DEF PlacedFirst, Paste
  <2>. QED BY <1>1, <2>1, SomeIsPastedFirst
<1>3. data' = [i \in DOMAIN data |-> new(i)]
  BY DEF Paste
<1>4. DOMAIN data = 0..(ComposedLength - 1)
  BY <1>0
<1>. HIDE DEF new
<1>5. /\ DOMAIN data' = 0..(ComposedLength - 1)
      /\ data' = [i \in 0..(ComposedLength - 1) |-> data'[i]]
      /\ \A i \in 0..(ComposedLength - 1) : data'[i] = new(i)
  BY <1>3, <1>4
<1>6. \A k \in DOMAIN placement[c] :
        /\ blocks[k] = [offset |-> OffsetOf(SizeAt(c, k), SizeOf(c)), size |-> SizeAt(c, k),
                        start |-> StartAt(c, k)]
        /\ SizeAt(c, k) \in Nat /\ StartAt(c, k) \in Nat
        /\ StartAt(c, k) + SizeAt(c, k) <= ComposedLength
  BY <1>2, BlockFacts
<1>7. DOMAIN blocks = DOMAIN placement[c]
  BY DEF Blocks
<1>. HIDE DEF blocks
<1>71. \A k \in DOMAIN placement[c] :
         /\ blocks[k].offset = OffsetOf(SizeAt(c, k), SizeOf(c))
         /\ blocks[k].size = SizeAt(c, k)
         /\ blocks[k].start = StartAt(c, k)
  <2>. TAKE k \in DOMAIN placement[c]
  <2>. DEFINE o == OffsetOf(SizeAt(c, k), SizeOf(c))
              s == SizeAt(c, k)
              st == StartAt(c, k)
              block == blocks[k]
  <2>1. block = [offset |-> o, size |-> s, start |-> st]
    BY <1>6
  <2>. HIDE DEF o, s, st, block
  <2>2. block.offset = o /\ block.size = s /\ block.start = st
    BY <2>1
  <2>. QED BY <2>2 DEF o, s, st, block
<1>8. \A i : in(i) = {k \in DOMAIN placement[c] : i \in SpanAt(c, k)}
  BY <1>7, <1>71 DEF SpanAt
<1>. HIDE DEF in
<1>9. \A i \in 0..(ComposedLength - 1) : i \notin Cells(c) => data'[i] = data[i]
  <2>. TAKE i \in 0..(ComposedLength - 1)
  <2>. HAVE i \notin Cells(c)
  <2>1. in(i) = {}
    BY <1>8, CellsAreSpans
  <2>. QED BY <1>5, <2>1 DEF new
<1>10. ASSUME NEW k \in DOMAIN placement[c], NEW j \in 0..(SizeAt(c, k) - 1)
       PROVE  data'[StartAt(c, k) + j] = CommittedEntry(c, SourceAt(c, k, j))
  <2>. DEFINE i == StartAt(c, k) + j
  <2>1. ComposedLength \in Nat
    <3>1. Length \in Bits /\ ComposedLength = 2^Length
      BY <1>0, LengthIs DEF SpaceIsWhole
    <3>2. Length \in 0..(TopBit + 1)
      BY <3>1, BitsType DEF Bits
    <3>. QED BY <3>1, <3>2, Doubles
  <2>2. i \in SpanAt(c, k) /\ i \in 0..(ComposedLength - 1) /\ i - StartAt(c, k) = j
    <3>. DEFINE st == StartAt(c, k)
                s == SizeAt(c, k)
                cl == ComposedLength
    <3>1. SpanAt(c, k) = st..(st + s - 1)
      BY DEF SpanAt, Run
    <3>2. st \in Nat /\ s \in Nat /\ cl \in Nat /\ st + s <= cl /\ j \in 0..(s - 1)
      BY <1>6, <1>10, <2>1
    <3>. HIDE DEF st, s, cl
    <3>3. (st + j) \in st..(st + s - 1) /\ (st + j) \in 0..(cl - 1) /\ (st + j) - st = j
      BY <3>2
    <3>. QED BY <3>1, <3>3 DEF st, s, cl
  <2>. HIDE DEF i
  <2>3. in(i) = {k}
    BY <1>0, <1>2, <1>8, <1>10, <2>2 DEF BlocksFit
  <2>4. (CHOOSE l \in in(i) : TRUE) = k
    BY <2>3
  <2>5. data'[i] = CommittedEntry(c, source(i, blocks[k]))
    BY <1>5, <2>2, <2>3, <2>4 DEF new
  <2>6. blocks[k].offset = OffsetOf(SizeAt(c, k), SizeOf(c)) /\ blocks[k].start = StartAt(c, k)
    BY <1>71, <1>10
  <2>7. source(i, blocks[k]) = SourceAt(c, k, j)
    BY <2>2, <2>6 DEF SourceAt
  <2>. QED BY <2>5, <2>7 DEF i
<1>. QED BY <1>2, <1>5, <1>9, <1>10

\* Pasting a component leaves the others' data where it is.
LEMMA PasteKeepsLaid ==
    ASSUME PasteInv, Paste
    PROVE  PastedSoFar' /\ PlacedFirst' /\ BlocksFit'
<1>0. /\ PlacementInv /\ PlacedFirst /\ PastedSoFar
  BY DEF PasteInv, SpaceInv
<1>1. PICK c : c = First(left, PastedBefore)
  OBVIOUS
<1>2. /\ c \in left /\ c \in Components
      /\ data' = [i \in 0..(ComposedLength - 1) |-> data'[i]]
      /\ \A i \in 0..(ComposedLength - 1) : i \notin Cells(c) => data'[i] = data[i]
      /\ \A k \in DOMAIN placement[c] : \A j \in 0..(SizeAt(c, k) - 1) :
           data'[StartAt(c, k) + j] = CommittedEntry(c, SourceAt(c, k, j))
  BY <1>1, PasteWrites
<1>3. round' = round /\ placement' = placement /\ pc' = pc /\ used' = used /\ left' = left \ {c} /\ pc = "paste"
  BY <1>1 DEF Paste
<1>4. /\ BlocksFit' /\ Components' = Components /\ ComposedLength' = ComposedLength
      /\ \A d : BlockCount(d)' = BlockCount(d)
  BY <1>3, OthersKeepBlocks
<1>5. /\ \A d, k : SizeAt(d, k)' = SizeAt(d, k)
      /\ \A d, k : StartAt(d, k)' = StartAt(d, k) /\ SpanAt(d, k)' = SpanAt(d, k)
      /\ \A d, k, i : SourceAt(d, k, i)' = SourceAt(d, k, i)
      /\ \A d, i : CommittedEntry(d, i)' = CommittedEntry(d, i)
  BY <1>3, SpansFixed
<1>6. \A d \in Components \ left : Laid(d) /\ d # c
  BY <1>0, <1>2, <1>3 DEF PastedSoFar
<1>7. \A d \in Components : \A k \in DOMAIN placement[d] : \A j \in 0..(SizeAt(d, k) - 1) :
        /\ StartAt(d, k) + j \in 0..(ComposedLength - 1)
        /\ StartAt(d, k) + j \in Cells(d)
  <2>. TAKE d \in Components
  <2>. TAKE k \in DOMAIN placement[d]
  <2>. TAKE j \in 0..(SizeAt(d, k) - 1)
  <2>. DEFINE st == StartAt(d, k)
              s == SizeAt(d, k)
              cl == ComposedLength
  <2>1. st \in Nat /\ s \in Nat /\ st + s <= cl
    BY BlockFacts
  <2>2. cl \in Nat
    <3>1. Length \in Bits /\ ComposedLength = 2^Length
      BY LengthIs DEF SpaceIsWhole, PasteInv, SpaceInv
    <3>2. Length \in 0..(TopBit + 1)
      BY <3>1, BitsType DEF Bits
    <3>. QED BY <3>1, <3>2, Doubles
  <2>3. SpanAt(d, k) = st..(st + s - 1)
    BY DEF SpanAt, Run
  <2>. HIDE DEF st, s, cl
  <2>4. (st + j) \in 0..(cl - 1) /\ (st + j) \in st..(st + s - 1)
    <3>1. j \in 0..(s - 1)
      BY DEF s
    <3>. QED BY <2>1, <2>2, <3>1
  <2>5. (st + j) \in Cells(d)
    BY <2>3, <2>4, CellsAreSpans
  <2>. QED BY <2>4, <2>5 DEF st, cl
<1>8. ASSUME NEW d \in Components \ left'
      PROVE  Laid(d)'
  <2>1. CASE d = c
    <3>1. \A k \in DOMAIN placement'[d] : \A i \in 0..(SizeAt(d, k)' - 1) :
            data'[StartAt(d, k)' + i] = CommittedEntry(d, SourceAt(d, k, i))'
      BY <1>2, <1>3, <1>5, <2>1
    <3>. QED BY <3>1 DEF Laid
  <2>2. CASE d # c
    <3>1. Laid(d) /\ d \in Components /\ Cells(d) \cap Cells(c) = {}
      BY <1>0, <1>2, <1>3, <1>6, <1>8, <2>2 DEF PlacementInv, PlacementsDisjoint
    <3>2. \A k \in DOMAIN placement[d] : \A i \in 0..(SizeAt(d, k) - 1) :
            data'[StartAt(d, k) + i] = data[StartAt(d, k) + i]
      BY <1>2, <1>7, <3>1
    <3>3. \A k \in DOMAIN placement[d] : \A i \in 0..(SizeAt(d, k) - 1) :
            data'[StartAt(d, k) + i] = CommittedEntry(d, SourceAt(d, k, i))
      BY <3>1, <3>2 DEF Laid
    <3>4. \A k \in DOMAIN placement'[d] : \A i \in 0..(SizeAt(d, k)' - 1) :
            data'[StartAt(d, k)' + i] = CommittedEntry(d, SourceAt(d, k, i))'
      BY <1>3, <1>5, <3>3
    <3>. QED BY <3>4 DEF Laid
  <2>. QED BY <2>1, <2>2
<1>9. \A i \in 0..(ComposedLength - 1) : data'[i] # Zero => i \in used
  <2>1. Cells(c) \subseteq used
    BY <1>0, <1>2 DEF PlacementInv, UsedCoversCells
  <2>. QED BY <1>0, <1>2, <2>1 DEF PastedSoFar
<1>10. PastedSoFar'
  <2>1. data' = [i \in 0..(ComposedLength' - 1) |-> data'[i]]
    BY <1>2, <1>4
  <2>2. \A i \in 0..(ComposedLength' - 1) : data'[i] # Zero' => i \in used'
    BY <1>3, <1>4, <1>9 DEF Zero
  <2>3. \A d \in Components' \ left' : Laid(d)'
    BY <1>4, <1>8
  <2>. QED BY <2>1, <2>2, <2>3 DEF PastedSoFar
<1>11. PlacedFirst'
  <2>1. left' \subseteq Components
    BY <1>0, <1>3 DEF PlacedFirst
  <2>2. \A d \in Components : Len(placement[d]) = BlockCount(d)
    BY <1>0, <1>3 DEF PlacedFirst
  <2>. QED BY <1>3, <1>4, <2>1, <2>2 DEF PlacedFirst
<1>. QED BY <1>4, <1>10, <1>11

\* Steps keep the invariant of what is read back.
LEMMA PasteNext == PasteInv /\ [Next]_vars => PasteInv'
<1>. SUFFICES ASSUME PasteInv, [Next]_vars PROVE PasteInv'
  OBVIOUS
<1>0. SpaceInv /\ BlocksFit /\ PlacedFirst /\ PastedSoFar /\ ComposedLength % round.nextWidth = 0
  BY DEF PasteInv
<1>1. SpaceInv'
  BY <1>0, SpaceNext
<1>2. round' = round
  BY DEF Next, vars, PlaceBlock, LayoutDone, Paste, Packed, Finished
<1>3. ComposedLength' % round'.nextWidth = 0
  BY <1>0, <1>2, RoundFixes
<1>4. BlocksFit' /\ PlacedFirst' /\ PastedSoFar'
  <2>1. CASE PlaceBlock
    <3>1. pc' # "panicked"
      BY <1>1 DEF SpaceInv, SpaceIsWhole
    <3>2. PICK p \in FirstFree(FreePrefixes(NextBlock)) : Placed(p)
      BY <2>1, <3>1 DEF PlaceBlock
    <3>3. pc = "place" /\ left # {} /\ UNCHANGED <<round, data>>
      BY <2>1 DEF PlaceBlock
    <3>. QED BY <3>2, <3>3, PlacedKeepsBlocks
  <2>2. CASE LayoutDone
    <3>1. /\ pc = "place" /\ left = {} /\ pc' = "paste" /\ left' = Components
          /\ placement' = placement /\ used' = used /\ data' = data
      BY <2>2 DEF LayoutDone
    <3>2. /\ BlocksFit' /\ Components' = Components /\ ComposedLength' = ComposedLength
          /\ \A c : BlockCount(c)' = BlockCount(c)
      BY <1>2, <3>1, OthersKeepBlocks
    <3>3. PlacedFirst'
      BY <1>0, <3>1, <3>2 DEF PlacedFirst
    <3>4. PastedSoFar'
      <4>1. Components' \ left' = {}
        BY <3>1, <3>2
      <4>. QED BY <1>0, <3>1, <3>2, <4>1 DEF PastedSoFar, Zero
    <3>. QED BY <3>2, <3>3, <3>4
  <2>3. CASE Paste
    BY <2>3, PasteKeepsLaid
  <2>4. CASE Packed \/ Finished \/ UNCHANGED vars
    <3>1. /\ pc' = pc \/ (pc' = "packed" /\ pc = "paste" /\ left = {})
          /\ left' = left /\ placement' = placement /\ used' = used /\ data' = data
      BY <2>4 DEF Packed, Finished, vars
    <3>2. /\ BlocksFit' /\ Components' = Components /\ ComposedLength' = ComposedLength
          /\ \A c : BlockCount(c)' = BlockCount(c)
          /\ \A c \in Components : Laid(c) => Laid(c)'
      BY <1>2, <3>1, OthersKeepBlocks
    <3>3. PlacedFirst'
      BY <1>0, <3>1, <3>2 DEF PlacedFirst
    <3>4. PastedSoFar'
      BY <1>0, <3>1, <3>2 DEF PastedSoFar, Zero
    <3>. QED BY <3>2, <3>3, <3>4
  <2>. QED BY <2>1, <2>2, <2>3, <2>4 DEF Next
<1>. QED BY <1>1, <1>3, <1>4 DEF PasteInv

-----------------------------------------------------------------------------
(***************************************************************************)
(* The sizes of a level: the length of a row is a power of two, and        *)
(* chunks and rows are no more than a size can count.                      *)
(***************************************************************************)
\* A component's siblings are the rows of its level.
LEMMA SiblingsAre ==
    ASSUME NEW c \in Components, NEW r \in 0..(Rows(c.tree, c.level) - 1)
    PROVE  /\ [c EXCEPT !.row = r] = [tree |-> c.tree, level |-> c.level, row |-> r]
           /\ [c EXCEPT !.row = r] \in Components
<1>1. /\ c = [tree |-> c.tree, level |-> c.level, row |-> c.row]
      /\ c.tree \in AllTrees /\ c.level \in 1..Len(TreeLevels(c.tree))
  BY ComponentParts
<1>2. [c EXCEPT !.row = r] = [tree |-> c.tree, level |-> c.level, row |-> r]
  <2>. DEFINE t == c.tree
              l == c.level
              o == c.row
  <2>1. c = [tree |-> t, level |-> l, row |-> o]
    BY <1>1
  <2>. HIDE DEF t, l, o
  <2>2. [c EXCEPT !.row = r] = [tree |-> t, level |-> l, row |-> r]
    BY <2>1
  <2>. QED BY <2>2 DEF t, l
<1>3. [tree |-> c.tree, level |-> c.level, row |-> r] \in Components
  BY <1>1 DEF Components, AllTrees
<1>. QED BY <1>2, <1>3

\* A level has no more rows than a size has numbers: each row has a position.
LEMMA RowsFit ==
    ASSUME round \in Rounds, TotalSize <= 2^TopBit, NEW c \in Components
    PROVE  Rows(c.tree, c.level) \in Nat /\ Rows(c.tree, c.level) >= 1
           /\ Rows(c.tree, c.level) <= 2^TopBit
<1>. DEFINE n == Rows(c.tree, c.level)
            S == 0..(n - 1)
            T == Spots(SizesOf, Components)
            f == [r \in S |-> <<[tree |-> c.tree, level |-> c.level, row |-> r], 0>>]
<1>1. n \in Nat /\ n >= 1
  <2>1. c.level \in Nat
    BY ComponentParts, LevelsOf
  <2>. QED BY <2>1, RowsType
<1>2. TotalSize = Cardinality(T) /\ TotalSize \in Nat
  BY TotalSizeCounts
<1>3. IsFiniteSet(T)
  <2>1. \A x \in Components : SizesOf[x] \in Nat
    BY SizeType DEF SizesOf
  <2>. QED BY <2>1, ComponentsFinite, SpotsFinite
<1>4. \A r \in S : f[r] \in T
  <2>. TAKE r \in S
  <2>. DEFINE d == [tree |-> c.tree, level |-> c.level, row |-> r]
  <2>1. d \in Components
    BY SiblingsAre
  <2>2. SizesOf[d] \in Nat /\ SizesOf[d] >= 1
    BY <2>1, SizeType DEF SizesOf
  <2>. HIDE DEF d
  <2>3. <<d, 0>> \in T
    BY <2>1, <2>2 DEF Spots
  <2>. QED BY <2>3 DEF d
<1>5. f \in Injection(S, T)
  <2>. HIDE DEF T, S
  <2>1. f \in [S -> T]
    BY <1>4
  <2>2. \A a, b \in S : f[a] = f[b] => a = b
    OBVIOUS
  <2>. HIDE DEF f
  <2>. QED BY <2>1, <2>2 DEF Injection, IsInjective
<1>. HIDE DEF T, f
<1>6. Cardinality(S) <= Cardinality(T)
  <2>. HIDE DEF S
  <2>. QED BY <1>3, <1>5, FS_Injection
<1>7. Cardinality(S) = n
  <2>. HIDE DEF n
  <2>1. n - 1 \in Int /\ 0 \in Int
    BY <1>1
  <2>2. Cardinality(S) = IF 0 > n - 1 THEN 0 ELSE (n - 1) - 0 + 1
    BY <2>1, FS_Interval
  <2>. QED BY <1>1, <2>2
<1>8. 2^TopBit \in Nat
  <2>1. TopBit \in 0..(TopBit + 1)
    BY BitsType
  <2>. QED BY <2>1, Doubles
<1>9. n <= 2^TopBit
  <2>. DEFINE t == 2^TopBit
              u == Cardinality(T)
  <2>1. n <= u /\ u <= t /\ u \in Nat /\ t \in Nat
    BY <1>2, <1>6, <1>7, <1>8
  <2>. HIDE DEF t, u, n
  <2>2. n <= t
    BY <1>1, <2>1
  <2>. QED BY <2>2 DEF t
<1>. QED BY <1>1, <1>9

\* The part of a size one chunk has is no larger than the size.
LEMMA PartsFit ==
    ASSUME round \in Rounds, TotalSize <= 2^TopBit, NEW c \in Components
    PROVE  /\ RowLength(c) \in Nat /\ RowLength(c) >= 1 /\ RowLength(c) <= 2^TopBit
           /\ Chunks(c) \in Nat /\ Chunks(c) >= 1 /\ Chunks(c) <= 2^TopBit
           /\ SizeOf(c) = RowLength(c) * Chunks(c)
           /\ SizeOf(c) \in Nat /\ SizeOf(c) >= 1 /\ SizeOf(c) <= 2^TopBit
<1>1. c.tree \in AllTrees /\ c.level \in 1..Len(TreeLevels(c.tree))
  BY ComponentParts
<1>. DEFINE a == RowLength(c)
            b == Chunks(c)
            n == SizeOf(c)
            t == 2^TopBit
<1>2. a \in Nat /\ a >= 1 /\ b \in Nat /\ b >= 1 /\ n = a * b
  BY <1>1, RowLenType, LevelsOf DEF Chunks, SizeOf, RowLength
<1>3. n \in Nat /\ n >= 1 /\ n <= TotalSize /\ TotalSize \in Nat /\ TotalSize <= t
  BY SizeType, SizesFit, TotalSizeCounts
<1>4. t \in Nat
  <2>1. TopBit \in 0..(TopBit + 1)
    BY BitsType
  <2>. QED BY <2>1, Doubles
<1>. HIDE DEF a, b, n, t
<1>5. a <= n /\ b <= n
  <2>1. 1 * a <= b * a /\ 1 * b <= a * b
    BY <1>2, Scaling
  <2>2. 1 * a = a /\ 1 * b = b /\ b * a = a * b
    BY <1>2
  <2>. QED BY <1>2, <2>1, <2>2
<1>6. a <= t /\ b <= t /\ n <= t
  BY <1>2, <1>3, <1>4, <1>5
<1>. QED BY <1>2, <1>3, <1>6 DEF a, b, n, t

\* A row's length is a power of two.
LEMMA RowIsPower ==
    ASSUME round \in Rounds, TotalSize <= 2^TopBit, NEW c \in Components
    PROVE  \E q \in Bits : RowLength(c) = 2^q
<1>. DEFINE t == c.tree
            l == c.level
<1>1. t \in AllTrees /\ l \in 1..Len(TreeLevels(t)) /\ Len(TreeLevels(t)) \in Nat /\ l \in Nat /\ l >= 1
  BY ComponentParts, LevelsOf
<1>2. /\ RowLength(c) = RowLen(t, l) /\ RowLen(t, l) <= 2^TopBit
  BY PartsFit DEF RowLength
<1>3. /\ \E b \in Bits : round.height = 2^b
      /\ \E b \in Bits : round.width = 2^b
      /\ (round.tree["coarse"] # <<>> \/ round.tree["constantTerm"] # <<>>) =>
           \E b \in Bits : round.ratio = 2^b
  BY DyadicAssumption DEF IsPower, Bits
<1>. HIDE DEF t, l
<1>4. CASE l > 1
  <2>. DEFINE r == TreeLevels(t)[l - 1].rank
  <2>1. r \in Nat /\ r >= 1 /\ r <= 2^TopBit
    <3>1. l - 1 \in 1..Len(TreeLevels(t))
      BY <1>1, <1>4
    <3>. QED BY <1>1, <3>1, LevelsOf
  <2>2. RowLen(t, l) = PaddedLength(r)
    BY <1>4 DEF RowLen
  <2>. HIDE DEF r
  <2>. QED BY <1>2, <2>1, <2>2, PaddedLengthIs
<1>5. CASE l = 1
  <2>1. CASE t = "folded"
    BY <1>2, <1>3, <1>5, <2>1 DEF RowLen
  <2>2. CASE t \in {"commitment", "opening"}
    BY <1>2, <1>3, <1>5, <2>2 DEF RowLen
  <2>3. CASE t = "batched"
    <3>. DEFINE w == round.width
                n == round.batches
                k == BatchedRows
    <3>1. w \in Nat /\ w >= 1 /\ n \in Nat /\ n >= 1
      BY RoundParts
    <3>2. RowLen(t, l) = (w * n) \div k
      BY <1>5, <2>3 DEF RowLen
    <3>3. PICK a \in Bits : w = 2^a
      BY <1>3
    <3>4. CASE PaddedLength(n) = n
      <4>1. k = 1
        BY <3>4 DEF BatchedRows
      <4>. HIDE DEF w, n, k
      <4>2. w * n \in Nat /\ (w * n) \div k = w * n
        <5>1. w * n \in Nat
          BY <3>1
        <5>2. \A x \in Nat : x \div 1 = x
          OBVIOUS
        <5>. QED BY <4>1, <5>1, <5>2
      <4>3. w * n <= 2^TopBit
        BY <1>2, <3>2, <4>2
      <4>4. n <= 2^TopBit
        <5>1. 1 * n <= w * n /\ 1 * n = n
          BY <3>1, Scaling
        <5>. DEFINE x == w * n
                    y == 2^TopBit
        <5>2. x \in Nat /\ y \in Nat /\ n <= x /\ x <= y
          <6>1. TopBit \in 0..(TopBit + 1)
            BY BitsType
          <6>. QED BY <4>2, <4>3, <5>1, <6>1, Doubles
        <5>. HIDE DEF x, y
        <5>3. n <= y
          BY <3>1, <5>2
        <5>. QED BY <5>3 DEF y
      <4>5. PICK b \in Bits : n = 2^b
        BY <3>1, <3>4, <4>4, PaddedLengthIs
      <4>6. 2^a * 2^b <= 2^TopBit
        BY <3>3, <4>3, <4>5
      <4>7. a + b \in Bits /\ 2^(a + b) = 2^a * 2^b
        BY <4>6, PowersProduct
      <4>8. RowLength(c) = 2^(a + b)
        BY <1>2, <3>2, <3>3, <4>2, <4>5, <4>7
      <4>. QED BY <4>7, <4>8
    <3>5. CASE PaddedLength(n) # n
      <4>1. k = n
        BY <3>5 DEF BatchedRows
      <4>. HIDE DEF w, n, k
      <4>2. (w * n) \div n = w
        <5>1. (w * n + 0) \div n = w
          BY <3>1, Dividing
        <5>2. w * n + 0 = w * n
          BY <3>1
        <5>. QED BY <5>1, <5>2
      <4>. QED BY <1>2, <3>2, <3>3, <4>1, <4>2
    <3>. QED BY <3>4, <3>5
  <2>4. CASE t \in {"coarse", "constantTerm"}
    <3>. DEFINE h == round.height
                w == round.width
                d == round.ratio
    <3>1. RowLen(t, l) = (h * w) \div d
      BY <1>5, <2>4 DEF RowLen
    <3>2. round.tree[t] # <<>>
      BY <1>1, <2>4 DEF TreeLevels
    <3>3. d <= h /\ h \in Nat /\ w \in Nat /\ d \in Nat /\ d >= 1
      BY <2>4, <3>2, RoundParts
    <3>4. PICK a \in Bits : h = 2^a
      BY <1>3
    <3>5. PICK b \in Bits : w = 2^b
      BY <1>3
    <3>6. PICK e \in Bits : d = 2^e
      BY <1>3, <2>4, <3>2
    <3>. HIDE DEF h, w, d
    <3>7. e <= a
      BY <3>3, <3>4, <3>6, ExponentFits
    <3>8. a - e \in Bits /\ h = 2^(a - e) * d /\ 2^(a - e) \in Nat
      <4>1. a - e \in Bits /\ a \in 0..(TopBit + 1) /\ e \in 0..(TopBit + 1) /\ a - e \in 0..(TopBit + 1)
        BY <3>7, BitsType DEF Bits
      <4>. QED BY <3>4, <3>6, <3>7, <4>1, PowersSplit, Doubles
    <3>. DEFINE g == 2^(a - e)
    <3>9. (h * w) \div d = g * w
      <4>1. g \in Nat /\ h = g * d
        BY <3>8
      <4>. HIDE DEF g
      <4>. DEFINE x == g * w
      <4>2. h * w = x * d + 0 /\ x \in Nat
        BY <3>3, <4>1
      <4>. HIDE DEF x
      <4>3. (x * d + 0) \div d = x
        BY <3>3, <4>2, Dividing
      <4>. QED BY <4>2, <4>3 DEF x
    <3>10. g * 2^b <= 2^TopBit
      BY <1>2, <3>1, <3>5, <3>9
    <3>11. (a - e) + b \in Bits /\ 2^((a - e) + b) = g * 2^b
      BY <3>8, <3>10, PowersProduct
    <3>. QED BY <1>2, <3>1, <3>5, <3>9, <3>11
  <2>. QED BY <1>1, <2>1, <2>2, <2>3, <2>4 DEF AllTrees, Trees
<1>. QED BY <1>1, <1>4, <1>5

-----------------------------------------------------------------------------
(***************************************************************************)
(* Key rows. A block covers whole planes of its row, a power of two of     *)
(* them, so the slice of the key row it is met with starts where the       *)
(* block does.                                                             *)
(***************************************************************************)
\* A multiple of a power of two has no smaller bit.
LEMMA BitsAbove ==
    ASSUME NEW q \in Bits, NEW m \in Nat, NEW b \in SetBits(2^q * m)
    PROVE  b \in Bits /\ q <= b
<1>0. b \in Bits /\ ((2^q * m) \div 2^b) % 2 = 1
  BY DEF SetBits, Bits
<1>1. /\ q \in 0..(TopBit + 1) /\ b \in 0..(TopBit + 1) /\ q \in Nat /\ b \in Nat
      /\ q <= TopBit /\ b <= TopBit /\ TopBit \in Nat
  BY <1>0, BitsType DEF Bits
<1>2. ASSUME b < q PROVE FALSE
  <2>. DEFINE d == q - b
              e == d - 1
  <2>1. e \in Bits /\ d = e + 1 /\ e \in 0..(TopBit + 1)
    BY <1>1, <1>2 DEF Bits
  <2>2. 2^q = 2^d * 2^b
    BY <1>1, <1>2, PowersSplit
  <2>. HIDE DEF d, e
  <2>3. 2^d = 2 * 2^e /\ 2^e \in Nat /\ 2^b \in Nat /\ 2^b >= 1
    BY <1>1, <2>1, Doubles
  <2>. DEFINE g == 2^e
              r == 2^b
              x == 2^d
  <2>4. g \in Nat /\ r \in Nat /\ r >= 1 /\ x = 2 * g /\ 2^q = x * r
    BY <2>2, <2>3
  <2>. HIDE DEF g, r, x
  <2>. DEFINE y == g * m
              z == 2 * y
  <2>5. (x * r) * m = z * r + 0 /\ y \in Nat /\ z \in Nat
    <3>1. \A i, j, l \in Nat : ((2 * i) * j) * l = (2 * (i * l)) * j + 0
      OBVIOUS
    <3>. QED BY <2>4, <3>1
  <2>6. (z * r + 0) \div r = z
    <3>. HIDE DEF z
    <3>. QED BY <2>4, <2>5, Dividing
  <2>7. z % 2 = 0
    <3>. HIDE DEF y
    <3>. QED BY <2>5
  <2>8. (2^q * m) \div r = z
    BY <2>4, <2>5, <2>6
  <2>. HIDE DEF z
  <2>. QED BY <1>0, <2>7, <2>8 DEF r
<1>. QED BY <1>0, <1>1, <1>2

\* The slices of a key row, of so many planes of so many positions each.
LEMMA Slicing ==
    ASSUME NEW r \in Nat, NEW p \in Nat, NEW w \in Nat, NEW s \in Nat, NEW h \in Nat, NEW row \in Nat,
           r >= 1, p >= 1, w >= 1, s >= 1
    PROVE  /\ (p * r) \div r = p
           /\ ((h * (2 * p)) * r) \div r = h * (2 * p)
           /\ (s * (w * p)) \div p = s * w
           /\ ((r * (w * p)) * s) \div (s * w) = p * r
           /\ (row * (w * p) + h * (2 * p)) \div p = row * w + h * 2
           /\ (row * w + h * 2) * (p * r) = row * (r * (w * p)) + (h * (2 * p)) * r
<1>1. \A q, d \in Nat : d >= 1 => (q * d) \div d = q
  <2>. TAKE q, d \in Nat
  <2>. HAVE d >= 1
  <2>1. (q * d + 0) \div d = q
    BY Dividing
  <2>2. q * d + 0 = q * d
    OBVIOUS
  <2>. QED BY <2>1, <2>2
<1>2. (p * r) \div r = p
  BY <1>1
<1>3. ((h * (2 * p)) * r) \div r = h * (2 * p)
  <2>1. h * (2 * p) \in Nat
    OBVIOUS
  <2>. QED BY <1>1, <2>1
<1>4. (s * (w * p)) \div p = s * w
  <2>1. s * (w * p) = (s * w) * p /\ s * w \in Nat
    OBVIOUS
  <2>. QED BY <1>1, <2>1
<1>5. ((r * (w * p)) * s) \div (s * w) = p * r
  <2>1. (r * (w * p)) * s = (p * r) * (s * w) /\ s * w \in Nat /\ p * r \in Nat
    OBVIOUS
  <2>2. s * w >= 1
    <3>1. 1 * w <= s * w /\ 1 * w = w
      BY Scaling
    <3>. QED BY <2>1, <3>1
  <2>. QED BY <1>1, <2>1, <2>2
<1>6. (row * (w * p) + h * (2 * p)) \div p = row * w + h * 2
  <2>1. row * (w * p) + h * (2 * p) = (row * w + h * 2) * p /\ row * w + h * 2 \in Nat
    OBVIOUS
  <2>. QED BY <1>1, <2>1
<1>7. (row * w + h * 2) * (p * r) = row * (r * (w * p)) + (h * (2 * p)) * r
  OBVIOUS
<1>. QED BY <1>2, <1>3, <1>4, <1>5, <1>6, <1>7

\* The chunks and the rows of a level, padded.
LEMMA PaddingIs ==
    ASSUME round \in Rounds, TotalSize <= 2^TopBit, NEW c \in Components
    PROVE  /\ \E y \in Bits : PaddedChunks(c) = 2^y
           /\ PaddedChunks(c) \in Nat /\ Chunks(c) <= PaddedChunks(c)
           /\ Segments(c) \in Nat /\ Rows(c.tree, c.level) <= Segments(c) /\ Segments(c) >= 1
<1>1. \A b \in Bits : 2^b \in Nat /\ 2^b >= 1
  <2>. TAKE b \in Bits
  <2>1. b \in 0..(TopBit + 1)
    BY BitsType DEF Bits
  <2>. QED BY <2>1, Doubles
<1>2. PICK y \in Bits : PaddedChunks(c) = 2^y /\ Chunks(c) <= 2^y
  BY PartsFit, PaddedLengthIs DEF PaddedChunks
<1>3. PICK z \in Bits : Segments(c) = 2^z /\ Rows(c.tree, c.level) <= 2^z
  BY RowsFit, PaddedLengthIs DEF Segments
<1>. QED BY <1>1, <1>2, <1>3

\* A block covers so many planes of its row, and starts at so many.
LEMMA BlockPlanes ==
    ASSUME PasteInv, NEW c \in Components, NEW k \in DOMAIN placement[c]
    PROVE  \E p, w, h \in Nat :
             /\ p >= 1 /\ w >= 1
             /\ SizeAt(c, k) = p * RowLength(c)
             /\ OffsetOf(SizeAt(c, k), SizeOf(c)) = (h * (2 * p)) * RowLength(c)
             /\ PaddedChunks(c) = w * p
<1>. DEFINE b == BlockBit(SizeOf(c), k)
            m == Chunks(c)
<1>0. round \in Rounds /\ TotalSize <= 2^TopBit
  BY DEF PasteInv, SpaceInv, SpaceIsWhole
<1>1. /\ k \in 1..Cardinality(SetBits(SizeOf(c))) /\ b \in Bits /\ SizeAt(c, k) = 2^b
      /\ OffsetOf(SizeAt(c, k), SizeOf(c)) = High(SizeOf(c), b + 1)
      /\ High(SizeOf(c), b + 1) \in Nat
      /\ High(SizeOf(c), b + 1) + SizeAt(c, k) = High(SizeOf(c), b)
      /\ High(SizeOf(c), b) <= SizeOf(c)
  BY BlockFacts
<1>2. PICK q \in Bits : RowLength(c) = 2^q
  BY <1>0, RowIsPower
<1>3. m \in Nat /\ m >= 1 /\ SizeOf(c) = 2^q * m /\ SizeOf(c) \in Nat
  BY <1>0, <1>2, PartsFit
<1>4. b \in SetBits(SizeOf(c))
  BY <1>1, BlockBitIs
<1>. HIDE DEF b, m
<1>5. q <= b
  <2>1. b \in SetBits(2^q * m)
    BY <1>3, <1>4
  <2>. QED BY <1>3, <2>1, BitsAbove
<1>6. /\ q \in 0..(TopBit + 1) /\ b \in 0..(TopBit + 1) /\ q \in Nat /\ b \in Nat
      /\ b - q \in Bits /\ b - q \in 0..(TopBit + 1) /\ b + 1 \in 0..(TopBit + 1)
  BY <1>1, <1>5, BitsType DEF Bits
<1>. DEFINE p == 2^(b - q)
            r == 2^q
            h == SizeOf(c) \div 2^(b + 1)
<1>7. p \in Nat /\ p >= 1 /\ r \in Nat /\ r >= 1 /\ 2^b = p * r /\ 2^(b + 1) = 2 * 2^b
  BY <1>1, <1>5, <1>6, Doubles, PowersSplit
<1>8. h \in Nat
  <2>1. 2^(b + 1) \in Nat /\ 2^(b + 1) >= 1
    BY <1>6, Doubles
  <2>. DEFINE d == 2^(b + 1)
              n == SizeOf(c)
  <2>2. d \in Nat /\ d >= 1 /\ n \in Nat
    BY <1>3, <2>1
  <2>. HIDE DEF d, n
  <2>3. n \div d \in Nat
    BY <2>2
  <2>. QED BY <2>3 DEF d, n
<1>9. High(SizeOf(c), b + 1) = (h * (2 * p)) * r
  <2>1. High(SizeOf(c), b + 1) = h * (2 * (p * r))
    BY <1>7 DEF High
  <2>. HIDE DEF h, p, r
  <2>2. \A i, j, l \in Nat : i * (2 * (j * l)) = (i * (2 * j)) * l
    OBVIOUS
  <2>. QED BY <1>7, <1>8, <2>1, <2>2
<1>10. p <= m
  <2>. DEFINE o == High(SizeOf(c), b + 1)
              n == SizeOf(c)
              x == High(n, b)
  <2>0. x \in Nat
    BY <1>3, <1>6, HighIs
  <2>1. o \in Nat /\ o + p * r = x /\ x <= n /\ n = r * m /\ n \in Nat
    BY <1>1, <1>3, <1>7
  <2>. HIDE DEF o, n, p, r, x
  <2>2. p * r <= m * r
    <3>1. m * r = r * m /\ p * r \in Nat
      BY <1>3, <1>7
    <3>. DEFINE u == p * r
    <3>2. u \in Nat /\ o + u = x
      BY <2>1, <3>1
    <3>. HIDE DEF u
    <3>3. u <= n
      BY <2>0, <2>1, <3>2
    <3>. QED BY <2>1, <3>1, <3>3 DEF u
  <2>3. m < p => m * r + r <= p * r
    BY <1>3, <1>7, Scaling
  <2>4. p * r \in Nat /\ m * r \in Nat
    BY <1>3, <1>7
  <2>. DEFINE u == p * r
              v == m * r
  <2>5. u \in Nat /\ v \in Nat /\ u <= v /\ (m < p => v + r <= u)
    BY <2>2, <2>3, <2>4
  <2>. HIDE DEF u, v
  <2>. QED BY <1>3, <1>7, <2>5
<1>11. PICK y \in Bits : PaddedChunks(c) = 2^y
  BY <1>0, PaddingIs
<1>12. PaddedChunks(c) \in Nat /\ m <= PaddedChunks(c)
  BY <1>0, PaddingIs DEF m
<1>13. b - q <= y
  <2>1. p <= 2^y
    <3>. DEFINE t == 2^y
    <3>1. t \in Nat /\ m <= t
      BY <1>11, <1>12
    <3>. HIDE DEF t, p
    <3>2. p <= t
      BY <1>3, <1>7, <1>10, <3>1
    <3>. QED BY <3>2 DEF t
  <2>. QED BY <1>6, <2>1, ExponentFits
<1>. DEFINE w == 2^(y - (b - q))
<1>14. w \in Nat /\ w >= 1 /\ PaddedChunks(c) = w * p
  <2>1. y \in 0..(TopBit + 1) /\ y - (b - q) \in 0..(TopBit + 1)
    BY <1>6, <1>13, BitsType DEF Bits
  <2>. QED BY <1>6, <1>11, <1>13, <2>1, PowersSplit, Doubles
<1>15. SizeAt(c, k) = p * RowLength(c)
  BY <1>1, <1>2, <1>7
<1>16. OffsetOf(SizeAt(c, k), SizeOf(c)) = (h * (2 * p)) * RowLength(c)
  BY <1>1, <1>2, <1>9
<1>. HIDE DEF p, w, h
<1>. QED BY <1>7, <1>8, <1>14, <1>15, <1>16

\* A block meets the piece of the key row that starts where its entries are.
LEMMA PieceIs ==
    ASSUME PasteInv, NEW c \in Components, NEW k \in DOMAIN placement[c]
    PROVE  /\ Piece(c, Blocks(c)[k]).len = SizeAt(c, k)
           /\ Piece(c, Blocks(c)[k]).slice * SizeAt(c, k) =
                c.row * RowStride(c) + OffsetOf(SizeAt(c, k), SizeOf(c))
<1>. DEFINE B == Blocks(c)[k]
            o == OffsetOf(SizeAt(c, k), SizeOf(c))
            r == RowLength(c)
            s == Segments(c)
            row == c.row
            z == SizeAt(c, k)
            pc1 == PaddedChunks(c)
<1>0. round \in Rounds /\ TotalSize <= 2^TopBit
  BY DEF PasteInv, SpaceInv, SpaceIsWhole
<1>1. PICK p, w, h \in Nat :
             /\ p >= 1 /\ w >= 1
             /\ z = p * r
             /\ o = (h * (2 * p)) * r
             /\ pc1 = w * p
  BY BlockPlanes
<1>2. B.offset = o /\ B.size = z
  <2>1. B = [offset |-> o, size |-> z, start |-> StartAt(c, k)]
    BY BlockFacts
  <2>. HIDE DEF B, o, z
  <2>. QED BY <2>1
<1>3. r \in Nat /\ r >= 1 /\ s \in Nat /\ s >= 1
  BY <1>0, PartsFit, PaddingIs
<1>4. row \in Nat
  BY <1>0, ComponentParts, RowsFit
<1>. HIDE DEF B
<1>5. /\ Piece(c, B).len = CommittedLength(c) \div ((s * pc1) \div (z \div r))
      /\ Piece(c, B).slice = (row * pc1 + o \div r) \div (z \div r)
  BY <1>2 DEF Piece
<1>6. CommittedLength(c) = (r * pc1) * s /\ RowStride(c) = r * pc1
  BY DEF CommittedLength, RowStride
<1>. HIDE DEF o, r, s, row, z, pc1
<1>7. /\ (p * r) \div r = p
      /\ ((h * (2 * p)) * r) \div r = h * (2 * p)
      /\ (s * (w * p)) \div p = s * w
      /\ ((r * (w * p)) * s) \div (s * w) = p * r
      /\ (row * (w * p) + h * (2 * p)) \div p = row * w + h * 2
      /\ (row * w + h * 2) * (p * r) = row * (r * (w * p)) + (h * (2 * p)) * r
  BY <1>1, <1>3, <1>4, Slicing
<1>8. Piece(c, B).len = z
  <2>1. z \div r = p
    BY <1>1, <1>7
  <2>2. (s * pc1) \div p = s * w
    BY <1>1, <1>7
  <2>3. ((r * pc1) * s) \div (s * w) = z
    BY <1>1, <1>7
  <2>. QED BY <1>5, <1>6, <2>1, <2>2, <2>3
<1>9. Piece(c, B).slice = row * w + h * 2
  <2>1. z \div r = p /\ o \div r = h * (2 * p)
    BY <1>1, <1>7
  <2>2. (row * pc1 + h * (2 * p)) \div p = row * w + h * 2
    BY <1>1, <1>7
  <2>. QED BY <1>5, <2>1, <2>2
<1>10. Piece(c, B).slice * z = row * (r * pc1) + o
  BY <1>1, <1>7, <1>9
<1>. QED BY <1>6, <1>8, <1>10 DEF B, z, row, o

\* A place in rows of m planes of r positions has one row, one plane and one position.
PlacedAt(r, m, row, x) ==
    /\ (row * (r * m) + x) \div (r * m) = row
    /\ ((row * (r * m) + x) \div r) % m = x \div r
    /\ (row * (r * m) + x) % r = x % r
    /\ x \div r \in Nat /\ x % r \in Nat /\ x % r < r /\ x = (x \div r) * r + (x % r)
    /\ x \div r < m

\* Every position of a row is so placed.
LEMMA Placing ==
    ASSUME NEW r \in Nat, NEW m \in Nat, NEW row \in Nat, NEW x \in Nat, x < r * m, r >= 1
    PROVE  PlacedAt(r, m, row, x)
<1>. DEFINE pl == x \div r
            e == x % r
            u == r * m
<1>1. pl \in Nat /\ e \in Nat /\ e < r /\ x = pl * r + e
  OBVIOUS
<1>2. u \in Nat
  OBVIOUS
<1>3. (row * u + x) \div u = row
  <2>. HIDE DEF u
  <2>. QED BY <1>2, Dividing DEF u
<1>. HIDE DEF pl, e
<1>4. pl < m
  <2>1. m <= pl => m * r <= pl * r
    BY <1>1, Scaling
  <2>2. m * r = r * m /\ pl * r \in Nat /\ m * r \in Nat
    BY <1>1
  <2>. DEFINE a == m * r
              b == pl * r
  <2>3. a \in Nat /\ b \in Nat /\ (m <= pl => a <= b) /\ x = b + e /\ x < a
    BY <1>1, <2>1, <2>2
  <2>. HIDE DEF a, b
  <2>. QED BY <1>1, <2>3
<1>. DEFINE v == row * m + pl
<1>5. v \in Nat /\ row * u + x = v * r + e
  <2>1. \A i, j, k, l, n \in Nat : i * (j * k) + (l * j + n) = (i * k + l) * j + n
    OBVIOUS
  <2>. QED BY <1>1, <2>1
<1>6. (v * r + e) \div r = v /\ (v * r + e) % r = e
  <2>. HIDE DEF v
  <2>. QED BY <1>1, <1>5, Dividing
<1>7. v % m = pl
  BY <1>1, <1>4, Dividing
<1>. HIDE DEF v
<1>8. ((row * u + x) \div r) % m = pl /\ (row * u + x) % r = e
  BY <1>5, <1>6, <1>7
<1>. HIDE DEF u
<1>9. pl \in Nat /\ e \in Nat /\ e < r /\ x = pl * r + e /\ pl < m
  BY <1>1, <1>4
<1>. QED BY <1>3, <1>8, <1>9 DEF u, pl, e, PlacedAt

\* Where a row starts in what its level commits to.
Base(c) == c.row * RowStride(c)

\* The entries of a row that are not padding are its digits, plane after plane.
LEMMA RowEntries ==
    ASSUME round \in Rounds, TotalSize <= 2^TopBit, NEW c \in Components
    PROVE  /\ Base(c) \in Nat
           /\ \A x \in 0..(SizeOf(c) - 1) :
                /\ Base(c) + x \in 0..(CommittedLength(c) - 1)
                /\ CommittedEntry(c, Base(c) + x) = Digit(c, x \div RowLength(c), x % RowLength(c))
           /\ \A i \in 0..(CommittedLength(c) - 1) :
                CommittedEntry(c, i) # Zero /\ CommittedEntry(c, i)[1] = c =>
                  \E x \in 0..(SizeOf(c) - 1) : i = Base(c) + x
<1>. DEFINE r == RowLength(c)
            n == Chunks(c)
            m == PaddedChunks(c)
            row == c.row
            R == Rows(c.tree, c.level)
            s == Segments(c)
            N == SizeOf(c)
<1>1. /\ r \in Nat /\ r >= 1 /\ n \in Nat /\ n >= 1 /\ N = r * n /\ N \in Nat /\ N >= 1
      /\ m \in Nat /\ n <= m
      /\ R \in Nat /\ s \in Nat /\ R <= s /\ s >= 1
  BY PartsFit, PaddingIs, RowsFit
<1>2. row \in 0..(R - 1) /\ row \in Nat /\ row < R
  BY <1>1, ComponentParts
<1>3. Base(c) = row * (r * m) /\ CommittedLength(c) = (r * m) * s
  BY DEF Base, RowStride, CommittedLength
<1>4. \A i : CommittedEntry(c, i) =
               LET w == i \div (r * m)
                   p == (i \div r) % m
               IN IF w < R /\ p < n THEN Digit([c EXCEPT !.row = w], p, i % r) ELSE Zero
  BY DEF CommittedEntry
<1>5. [c EXCEPT !.row = row] = c
  <2>1. [c EXCEPT !.row = row] = [tree |-> c.tree, level |-> c.level, row |-> row]
    BY <1>2, SiblingsAre
  <2>. QED BY <2>1, ComponentParts
<1>6. ASSUME NEW w \in Nat, w < R, [c EXCEPT !.row = w] = c
      PROVE  w = row
  <2>1. w \in 0..(R - 1)
    BY <1>1, <1>6
  <2>2. [tree |-> c.tree, level |-> c.level, row |-> w] = [tree |-> c.tree, level |-> c.level, row |-> row]
    BY <1>6, <2>1, SiblingsAre, ComponentParts
  <2>. DEFINE f == [tree |-> c.tree, level |-> c.level, row |-> w]
              g == [tree |-> c.tree, level |-> c.level, row |-> row]
  <2>3. f.row = w /\ g.row = row /\ f = g
    BY <2>2
  <2>. QED BY <2>3
<1>. HIDE DEF r, n, m, row, R, s, N
<1>. DEFINE u == r * m
<1>7. u \in Nat /\ N <= u /\ u >= 1
  <2>1. n * r <= m * r
    BY <1>1, Scaling
  <2>2. n * r = r * n /\ m * r = r * m /\ m * r \in Nat
    BY <1>1
  <2>. QED BY <1>1, <2>1, <2>2
<1>8. Base(c) \in Nat /\ row * u + u <= u * s /\ u * s \in Nat
  <2>1. row < s
    BY <1>1, <1>2
  <2>2. row * u + u <= s * u
    <3>. HIDE DEF u
    <3>. QED BY <1>1, <1>2, <1>7, <2>1, Scaling
  <2>3. s * u = u * s /\ u * s \in Nat /\ row * u \in Nat
    <3>. HIDE DEF u
    <3>. QED BY <1>1, <1>2, <1>7
  <2>. QED BY <1>3, <2>2, <2>3
<1>9. ASSUME NEW x \in 0..(N - 1)
      PROVE  /\ Base(c) + x \in 0..(CommittedLength(c) - 1)
             /\ CommittedEntry(c, Base(c) + x) = Digit(c, x \div r, x % r)
  <2>0. x \in Nat /\ x < N /\ x < u
    <3>. HIDE DEF u
    <3>. QED BY <1>1, <1>7
  <2>1. /\ (row * (r * m) + x) \div (r * m) = row
        /\ ((row * (r * m) + x) \div r) % m = x \div r
        /\ (row * (r * m) + x) % r = x % r
    <3>1. r \in Nat /\ m \in Nat /\ row \in Nat /\ x \in Nat /\ x < r * m /\ r >= 1
      BY <1>1, <1>2, <2>0
    <3>2. PlacedAt(r, m, row, x)
      BY <3>1, Placing
    <3>. QED BY <3>2 DEF PlacedAt
  <2>2. x \div r < n
    <3>1. x < r * n
      BY <1>1, <2>0
    <3>2. PlacedAt(r, n, row, x)
      BY <1>1, <1>2, <2>0, <3>1, Placing
    <3>. QED BY <3>2 DEF PlacedAt
  <2>. DEFINE i == row * (r * m) + x
  <2>3. i = Base(c) + x
    BY <1>3
  <2>. HIDE DEF i
  <2>4. CommittedEntry(c, i) = Digit([c EXCEPT !.row = row], x \div r, x % r)
    BY <1>2, <1>4, <2>1, <2>2 DEF i
  <2>5. Base(c) + x \in 0..(CommittedLength(c) - 1)
    <3>. DEFINE b == row * u
                l == u * s
    <3>1. b \in Nat /\ l \in Nat /\ b + u <= l
      BY <1>3, <1>8
    <3>2. Base(c) = b /\ CommittedLength(c) = l
      BY <1>3
    <3>. HIDE DEF b, l, u
    <3>3. b + x \in 0..(l - 1)
      BY <1>7, <2>0, <3>1
    <3>. QED BY <3>2, <3>3
  <2>. QED BY <1>5, <2>3, <2>4, <2>5
<1>10. ASSUME NEW i \in 0..(CommittedLength(c) - 1),
              CommittedEntry(c, i) # Zero, CommittedEntry(c, i)[1] = c
       PROVE  \E x \in 0..(N - 1) : i = Base(c) + x
  <2>. DEFINE w == i \div u
              x == i % u
  <2>0. CommittedLength(c) = u * s /\ i \in Nat
    BY <1>3, <1>8
  <2>1. w \in Nat /\ x \in Nat /\ x < u /\ i = w * u + x
    <3>. HIDE DEF u
    <3>. QED BY <1>7, <2>0
  <2>. DEFINE p == (i \div r) % m
  <2>2. w < R /\ p < n /\ CommittedEntry(c, i) = Digit([c EXCEPT !.row = w], p, i % r)
    BY <1>4, <1>10
  <2>. HIDE DEF w, x
  <2>3. w = row
    <3>1. [c EXCEPT !.row = w] = c
      BY <1>10, <2>2 DEF Digit
    <3>. QED BY <1>6, <2>1, <2>2, <3>1
  <2>4. /\ ((w * (r * m) + x) \div r) % m = x \div r
        /\ x \div r \in Nat /\ x % r \in Nat /\ x % r < r /\ x = (x \div r) * r + (x % r)
    <3>1. r \in Nat /\ m \in Nat /\ w \in Nat /\ x \in Nat /\ x < r * m /\ r >= 1
      BY <1>1, <2>1
    <3>2. PlacedAt(r, m, w, x)
      BY <3>1, Placing
    <3>. QED BY <3>2 DEF PlacedAt
  <2>5. p = x \div r
    BY <2>1, <2>4
  <2>. HIDE DEF p
  <2>. DEFINE e == x % r
  <2>6. e \in Nat /\ e < r /\ x = p * r + e /\ p \in Nat
    BY <2>4, <2>5
  <2>. HIDE DEF e
  <2>7. p * r + r <= n * r
    BY <1>1, <2>2, <2>6, Scaling
  <2>8. x < N
    <3>1. n * r = N /\ p * r \in Nat /\ n * r \in Nat
      BY <1>1, <2>6
    <3>. DEFINE a == p * r
                b == n * r
    <3>2. a \in Nat /\ b \in Nat /\ a + r <= b /\ b = N /\ x = a + e
      BY <2>6, <2>7, <3>1
    <3>. HIDE DEF a, b
    <3>. QED BY <1>1, <2>1, <2>6, <3>2
  <2>9. x \in 0..(N - 1) /\ i = Base(c) + x
    BY <1>1, <1>3, <2>1, <2>3, <2>8
  <2>. QED BY <2>9
<1>. QED BY <1>8, <1>9, <1>10 DEF N, r

\* Where the k-th block of a component starts within it.
OffsetAt(c, k) == OffsetOf(SizeAt(c, k), SizeOf(c))

\* Once everything is packed, a component's data is where its blocks are, and its
\* blocks have each of its positions.
LEMMA PackedIs ==
    ASSUME PasteInv, pc = "packed", NEW c \in Components
    PROVE  /\ Laid(c)
           /\ \A k \in DOMAIN placement[c] : \A i \in 0..(SizeAt(c, k) - 1) :
                OffsetAt(c, k) + i \in 0..(SizeOf(c) - 1) /\ OffsetAt(c, k) \in Nat
           /\ \A x \in 0..(SizeOf(c) - 1) :
                \E k \in DOMAIN placement[c] : \E i \in 0..(SizeAt(c, k) - 1) :
                  x = OffsetAt(c, k) + i
<1>0. /\ PlacedFirst /\ PastedSoFar /\ PlacementInv
      /\ round \in Rounds /\ TotalSize <= 2^TopBit
  BY DEF PasteInv, SpaceInv, SpaceIsWhole
<1>1. Laid(c) /\ Len(placement[c]) = BlockCount(c)
  BY <1>0 DEF PlacedFirst, PastedSoFar
<1>2. DOMAIN placement[c] = 1..Cardinality(SetBits(SizeOf(c)))
  BY <1>0, <1>1, PlacementDomain DEF BlockCount
<1>. DEFINE n == SizeOf(c)
            b(k) == BlockBit(n, k)
<1>3. n \in Nat /\ n >= 1 /\ n <= 2^TopBit
  BY <1>0, PartsFit
<1>4. \A k \in DOMAIN placement[c] :
        /\ SizeAt(c, k) \in Nat /\ OffsetAt(c, k) \in Nat
        /\ OffsetAt(c, k) = High(n, b(k) + 1)
        /\ OffsetAt(c, k) + SizeAt(c, k) = High(n, b(k))
        /\ High(n, b(k)) <= n
  BY BlockFacts, ZenonT(60) DEF OffsetAt
<1>5. n < 2^(TopBit + 1)
  <2>. DEFINE t == 2^TopBit
  <2>1. t \in Nat /\ t >= 1 /\ 2^(TopBit + 1) = 2 * t
    <3>1. TopBit \in Bits /\ TopBit \in 0..(TopBit + 1)
      BY BitsType DEF Bits
    <3>. QED BY <3>1, Doubles
  <2>. HIDE DEF t, n
  <2>2. n < 2 * t
    BY <1>3, <2>1 DEF t
  <2>. QED BY <2>1, <2>2
<1>. HIDE DEF n, b
<1>6. ASSUME NEW k \in DOMAIN placement[c], NEW i \in 0..(SizeAt(c, k) - 1)
      PROVE  OffsetAt(c, k) + i \in 0..(n - 1) /\ OffsetAt(c, k) \in Nat
  <2>. DEFINE o == OffsetAt(c, k)
              s == SizeAt(c, k)
  <2>1. s \in Nat /\ o \in Nat /\ o + s <= n /\ i \in 0..(s - 1)
    BY <1>4, <1>6
  <2>. HIDE DEF o, s
  <2>2. o + i \in 0..(n - 1)
    BY <1>3, <2>1
  <2>. QED BY <2>1, <2>2 DEF o
<1>7. ASSUME NEW x \in 0..(n - 1)
      PROVE  \E k \in DOMAIN placement[c] : \E i \in 0..(SizeAt(c, k) - 1) :
               x = OffsetAt(c, k) + i
  <2>1. x \in Nat /\ x < n
    BY <1>3
  <2>2. PICK k \in 1..Cardinality(SetBits(n)) :
               High(n, BlockBit(n, k) + 1) <= x /\ x < High(n, BlockBit(n, k))
    BY <1>3, <1>5, <2>1, BlocksTile
  <2>3. k \in DOMAIN placement[c]
    BY <1>2 DEF n
  <2>. DEFINE o == OffsetAt(c, k)
              s == SizeAt(c, k)
  <2>4. o \in Nat /\ s \in Nat /\ o <= x /\ x < o + s
    BY <1>4, <2>2, <2>3 DEF b
  <2>. HIDE DEF o, s
  <2>5. x - o \in 0..(s - 1) /\ x = o + (x - o)
    BY <2>1, <2>4
  <2>. QED BY <2>3, <2>5 DEF o, s
<1>. QED BY <1>1, <1>6, <1>7 DEF n

\* The entry of the level's input a position is pasted from.
LEMMA SourceIs ==
    ASSUME PasteInv, pc = "packed", NEW c \in Components,
           NEW k \in DOMAIN placement[c], NEW i \in 0..(SizeAt(c, k) - 1)
    PROVE  /\ SourceAt(c, k, i) = Base(c) + (OffsetAt(c, k) + i)
           /\ data[StartAt(c, k) + i] = CommittedEntry(c, Base(c) + (OffsetAt(c, k) + i))
<1>0. round \in Rounds /\ TotalSize <= 2^TopBit
  BY DEF PasteInv, SpaceInv, SpaceIsWhole
<1>1. Laid(c) /\ OffsetAt(c, k) \in Nat
  BY PackedIs
<1>2. Base(c) \in Nat /\ i \in Nat
  <2>1. SizeAt(c, k) \in Nat
    BY BlockFacts
  <2>. QED BY <1>0, <2>1, RowEntries
<1>3. SourceAt(c, k, i) = (Base(c) + OffsetAt(c, k)) + i
  BY DEF SourceAt, Base, OffsetAt
<1>. DEFINE x == Base(c)
            y == OffsetAt(c, k)
<1>4. (x + y) + i = x + (y + i)
  <2>1. x \in Nat /\ y \in Nat
    BY <1>1, <1>2
  <2>. HIDE DEF x, y
  <2>. QED BY <1>2, <2>1
<1>. QED BY <1>1, <1>3, <1>4 DEF Laid

\* Key rows meet what they committed.
LEMMA PackedMeetsKey == PasteInv => KeyMeetsItsInput
<1>. SUFFICES ASSUME PasteInv, pc = "packed", NEW c \in Components
              PROVE  LET blocks == Blocks(c)
                         met == UNION {LET piece == Piece(c, blocks[k])
                                       IN {<<piece.slice * piece.len + i, data[blocks[k].start + i]>>
                                             : i \in 0..(piece.len - 1)} : k \in DOMAIN blocks}
                     IN met = {<<i, CommittedEntry(c, i)>> : i \in
                                 {j \in 0..(CommittedLength(c) - 1) :
                                    CommittedEntry(c, j) # Zero /\ CommittedEntry(c, j)[1] = c}}
  BY DEF KeyMeetsItsInput
<1>0. round \in Rounds /\ TotalSize <= 2^TopBit
  BY DEF PasteInv, SpaceInv, SpaceIsWhole
<1>. DEFINE blocks == Blocks(c)
            slice(k) == Piece(c, blocks[k]).slice
            len(k) == Piece(c, blocks[k]).len
            met(k) == {<<slice(k) * len(k) + i, data[blocks[k].start + i]>> : i \in 0..(len(k) - 1)}
            K == DOMAIN placement[c]
            cells(k) == {<<Base(c) + (OffsetAt(c, k) + i), CommittedEntry(c, Base(c) + (OffsetAt(c, k) + i))>>
                           : i \in 0..(SizeAt(c, k) - 1)}
            own == {j \in 0..(CommittedLength(c) - 1) :
                      CommittedEntry(c, j) # Zero /\ CommittedEntry(c, j)[1] = c}
<1>1. DOMAIN blocks = K
  BY DEF Blocks
<1>2. \A k \in K : met(k) = cells(k)
  <2>. TAKE k \in K
  <2>1. len(k) = SizeAt(c, k) /\ slice(k) * SizeAt(c, k) = c.row * RowStride(c) + OffsetAt(c, k)
    BY PieceIs DEF OffsetAt
  <2>2. blocks[k].start = StartAt(c, k)
    <3>. DEFINE o == OffsetOf(SizeAt(c, k), SizeOf(c))
                s == SizeAt(c, k)
                st == StartAt(c, k)
                block == blocks[k]
    <3>1. block = [offset |-> o, size |-> s, start |-> st]
      BY BlockFacts
    <3>. HIDE DEF o, s, st, block
    <3>2. block.start = st
      BY <3>1
    <3>. QED BY <3>2 DEF st, block
  <2>3. slice(k) * len(k) = Base(c) + OffsetAt(c, k)
    BY <2>1 DEF Base
  <2>. HIDE DEF slice, len, blocks
  <2>4. \A i \in 0..(SizeAt(c, k) - 1) :
          /\ slice(k) * len(k) + i = Base(c) + (OffsetAt(c, k) + i)
          /\ data[blocks[k].start + i] = CommittedEntry(c, Base(c) + (OffsetAt(c, k) + i))
    <3>. TAKE i \in 0..(SizeAt(c, k) - 1)
    <3>1. data[StartAt(c, k) + i] = CommittedEntry(c, Base(c) + (OffsetAt(c, k) + i))
      BY SourceIs
    <3>2. Base(c) \in Nat /\ OffsetAt(c, k) \in Nat /\ i \in Int
      <4>1. Base(c) \in Nat
        BY <1>0, RowEntries
      <4>2. OffsetAt(c, k) \in Nat
        BY PackedIs
      <4>. QED BY <4>1, <4>2
    <3>. DEFINE x == Base(c)
                y == OffsetAt(c, k)
    <3>3. (x + y) + i = x + (y + i)
      <4>1. x \in Nat /\ y \in Nat
        BY <3>2
      <4>. HIDE DEF x, y
      <4>. QED BY <3>2, <4>1
    <3>. QED BY <2>2, <2>3, <3>1, <3>3
  <2>. HIDE DEF Base, OffsetAt
  <2>5. len(k) = SizeAt(c, k)
    BY <2>1
  <2>. QED BY <2>4, <2>5
<1>. HIDE DEF blocks, met
<1>3. UNION {met(k) : k \in DOMAIN blocks} = UNION {cells(k) : k \in K}
  <2>1. {met(k) : k \in DOMAIN blocks} = {cells(k) : k \in K}
    <3>. HIDE DEF K, cells
    <3>. QED BY <1>1, <1>2
  <2>. HIDE DEF K, cells
  <2>. QED BY <2>1
<1>4. UNION {cells(k) : k \in K} = {<<i, CommittedEntry(c, i)>> : i \in own}
  <2>1. ASSUME NEW k \in K, NEW i \in 0..(SizeAt(c, k) - 1)
        PROVE  Base(c) + (OffsetAt(c, k) + i) \in own
    <3>. DEFINE x == OffsetAt(c, k) + i
    <3>1. x \in 0..(SizeOf(c) - 1)
      BY <2>1, PackedIs
    <3>. HIDE DEF x
    <3>2. /\ Base(c) + x \in 0..(CommittedLength(c) - 1)
          /\ CommittedEntry(c, Base(c) + x) = Digit(c, x \div RowLength(c), x % RowLength(c))
      BY <1>0, <3>1, RowEntries
    <3>3. \A p, e : Digit(c, p, e) # Zero /\ Digit(c, p, e)[1] = c
      BY DEF Digit, Zero
    <3>. QED BY <3>2, <3>3 DEF x
  <2>2. ASSUME NEW j \in own
        PROVE  \E k \in K : \E i \in 0..(SizeAt(c, k) - 1) : j = Base(c) + (OffsetAt(c, k) + i)
    <3>1. PICK x \in 0..(SizeOf(c) - 1) : j = Base(c) + x
      BY <1>0, <2>2, RowEntries
    <3>2. PICK k \in K : \E i \in 0..(SizeAt(c, k) - 1) : x = OffsetAt(c, k) + i
      BY PackedIs
    <3>. QED BY <3>1, <3>2
  <2>. HIDE DEF own, K
  <2>3. \A z : z \in UNION {cells(k) : k \in K} => z \in {<<i, CommittedEntry(c, i)>> : i \in own}
    BY <2>1
  <2>4. \A z : z \in {<<i, CommittedEntry(c, i)>> : i \in own} => z \in UNION {cells(k) : k \in K}
    BY <2>2
  <2>. QED BY <2>3, <2>4
<1>5. UNION {met(k) : k \in DOMAIN blocks} = {<<i, CommittedEntry(c, i)>> : i \in own}
  BY <1>3, <1>4
<1>. QED BY <1>5 DEF met, slice, len, blocks, own

\* KeyMeetsItsInput holds in every reachable state: the slice of a commitment-key row
\* that the sumcheck takes for a block is the part of the row that block was committed
\* under, for every round, and the slices of a row's blocks leave out nothing but
\* padding (row_committed_pieces).
THEOREM KeyRowsMeetTheirInput == Spec => []KeyMeetsItsInput
BY PasteInit, PasteNext, PackedMeetsKey, PTL DEF Spec

\* A block's positions are its component's alone.
LEMMA BlocksApart ==
    ASSUME PasteInv, NEW c \in Components,
           NEW k \in DOMAIN placement[c], NEW l \in DOMAIN placement[c],
           NEW i \in 0..(SizeAt(c, k) - 1), NEW j \in 0..(SizeAt(c, l) - 1),
           OffsetAt(c, k) + i = OffsetAt(c, l) + j
    PROVE  k = l /\ i = j
<1>. DEFINE n == SizeOf(c)
            a == BlockBit(n, k)
            b == BlockBit(n, l)
            o == OffsetAt(c, k)
            p == OffsetAt(c, l)
            s == SizeAt(c, k)
            t == SizeAt(c, l)
<1>0. n \in Nat
  BY SizeType DEF PasteInv, SpaceInv, SpaceIsWhole
<1>1. /\ k \in 1..Cardinality(SetBits(n)) /\ a \in Bits
      /\ s \in Nat /\ o \in Nat /\ o = High(n, a + 1) /\ o + s = High(n, a)
  <2>1. /\ k \in 1..Cardinality(SetBits(n)) /\ a \in Bits /\ s \in Nat
        /\ OffsetOf(s, n) = High(n, a + 1) /\ High(n, a + 1) \in Nat
        /\ High(n, a + 1) + s = High(n, a)
    BY BlockFacts
  <2>2. o = OffsetOf(s, n)
    BY DEF OffsetAt
  <2>. HIDE DEF o, s, n, a
  <2>. QED BY <2>1, <2>2
<1>2. /\ l \in 1..Cardinality(SetBits(n)) /\ b \in Bits
      /\ t \in Nat /\ p \in Nat /\ p = High(n, b + 1) /\ p + t = High(n, b)
  <2>1. /\ l \in 1..Cardinality(SetBits(n)) /\ b \in Bits /\ t \in Nat
        /\ OffsetOf(t, n) = High(n, b + 1) /\ High(n, b + 1) \in Nat
        /\ High(n, b + 1) + t = High(n, b)
    BY BlockFacts
  <2>2. p = OffsetOf(t, n)
    BY DEF OffsetAt
  <2>. HIDE DEF p, t, n, b
  <2>. QED BY <2>1, <2>2
<1>3. Cardinality({x \in SetBits(n) : x > a}) = k - 1 /\ Cardinality({x \in SetBits(n) : x > b}) = l - 1
  BY <1>1, <1>2, BlockBitIs
<1>. HIDE DEF n, a, b, o, p, s, t
<1>4. /\ a \in 0..(TopBit + 1) /\ a + 1 \in 0..(TopBit + 1) /\ a \in Nat
      /\ b \in 0..(TopBit + 1) /\ b + 1 \in 0..(TopBit + 1) /\ b \in Nat
  BY <1>1, <1>2, BitsType DEF Bits
<1>5. i \in 0..(s - 1) /\ j \in 0..(t - 1) /\ o + i = p + j
  BY DEF s, t, o, p
<1>6. ~(a < b)
  <2>1. a < b => High(n, b) <= High(n, a + 1)
    BY <1>0, <1>4, HighOrdered
  <2>. QED BY <1>1, <1>2, <1>5, <2>1
<1>7. ~(b < a)
  <2>1. b < a => High(n, a) <= High(n, b + 1)
    BY <1>0, <1>4, HighOrdered
  <2>. QED BY <1>1, <1>2, <1>5, <2>1
<1>8. a = b
  BY <1>4, <1>6, <1>7
<1>9. k = l
  BY <1>1, <1>2, <1>3, <1>8
<1>10. o = p
  BY <1>1, <1>2, <1>8
<1>11. i = j
  BY <1>1, <1>2, <1>5, <1>10
<1>. QED BY <1>9, <1>11

-----------------------------------------------------------------------------
(***************************************************************************)
(* What a recomposition reads.                                             *)
(***************************************************************************)
\* The i-th position of a component's k-th block, within the component; whether it
\* belongs to a part of it, parts pieces of len positions making a row; what it is
\* read as.
PositionAt(c, k, i) == OffsetAt(c, k) + i
OfPart(x, parts, len, part) == (x \div len) % parts = part
ReadAt(c, k, i, parts, len) ==
    [at |-> StartAt(c, k) + i, plane |-> (PositionAt(c, k, i) \div len) \div parts,
     element |-> PositionAt(c, k, i) % len]
ReadsOf(c, k, parts, len, part) ==
    {ReadAt(c, k, i, parts, len) :
       i \in {j \in 0..(SizeAt(c, k) - 1) : OfPart(PositionAt(c, k, j), parts, len, part)}}

\* A position past a multiple of len has the quotient and the remainder it would.
LEMMA Offsetting ==
    ASSUME NEW u \in Nat, NEW len \in Nat, len >= 1, NEW i \in Nat
    PROVE  /\ (u * len) \div len + i \div len = (u * len + i) \div len
           /\ i % len = (u * len + i) % len
<1>. DEFINE a == i \div len
            e == i % len
<1>1. a \in Nat /\ e \in Nat /\ e < len /\ i = a * len + e
  OBVIOUS
<1>. HIDE DEF a, e
<1>. DEFINE v == u + a
<1>2. v \in Nat /\ u * len + i = v * len + e
  BY <1>1
<1>3. (v * len + e) \div len = v /\ (v * len + e) % len = e
  <2>. HIDE DEF v
  <2>. QED BY <1>1, <1>2, Dividing
<1>4. (u * len + 0) \div len = u /\ u * len + 0 = u * len
  BY Dividing
<1>. HIDE DEF v
<1>5. (u * len + i) \div len = v /\ (u * len + i) % len = e /\ (u * len) \div len = u
  BY <1>2, <1>3, <1>4
<1>. QED BY <1>5 DEF v, a, e

\* A recomposition reads so of every block.
LEMMA RecompositionIs ==
    ASSUME PasteInv, NEW c \in Components, NEW parts \in Nat, NEW len \in Nat, NEW part,
           parts >= 1, len >= 1, RowLength(c) = parts * len
    PROVE  Recomposition(c, parts, part) =
             UNION {ReadsOf(c, k, parts, len, part) : k \in DOMAIN placement[c]}
<1>. DEFINE sliceLen == SizeOf(c) \div (Chunks(c) * parts)
            slice(b, i) == b.offset \div sliceLen + i \div sliceLen
            read(b) ==
              {[at |-> b.start + i, plane |-> slice(b, i) \div parts, element |-> i % sliceLen]
                 : i \in {j \in 0..(b.size - 1) : slice(b, j) % parts = part}}
<1>0. round \in Rounds /\ TotalSize <= 2^TopBit
  BY DEF PasteInv, SpaceInv, SpaceIsWhole
<1>1. Recomposition(c, parts, part) = UNION {read(Blocks(c)[k]) : k \in DOMAIN placement[c]}
  BY DEF Recomposition
<1>2. sliceLen = len
  <2>. DEFINE m == Chunks(c)
              n == SizeOf(c)
  <2>1. m \in Nat /\ m >= 1 /\ n = (parts * len) * m
    BY <1>0, PartsFit
  <2>. HIDE DEF m, n
  <2>2. n = len * (m * parts) + 0 /\ m * parts \in Nat
    <3>1. \A x, y, z \in Nat : (x * y) * z = y * (z * x) + 0 /\ z * x \in Nat
      OBVIOUS
    <3>. QED BY <2>1, <3>1
  <2>3. m * parts >= 1
    <3>1. 1 * parts <= m * parts /\ 1 * parts = parts
      BY <2>1, Scaling
    <3>. QED BY <2>2, <3>1
  <2>4. n \div (m * parts) = len
    BY <2>2, <2>3, Dividing
  <2>. QED BY <2>4 DEF m, n
<1>. HIDE DEF sliceLen
<1>3. ASSUME NEW k \in DOMAIN placement[c]
      PROVE  read(Blocks(c)[k]) = ReadsOf(c, k, parts, len, part)
  <2>. DEFINE b == Blocks(c)[k]
  <2>1. b.offset = OffsetAt(c, k) /\ b.size = SizeAt(c, k) /\ b.start = StartAt(c, k)
    <3>. DEFINE o == OffsetOf(SizeAt(c, k), SizeOf(c))
                s == SizeAt(c, k)
                st == StartAt(c, k)
    <3>1. b = [offset |-> o, size |-> s, start |-> st]
      BY <1>3, BlockFacts
    <3>. HIDE DEF o, s, st, b
    <3>2. b.offset = o /\ b.size = s /\ b.start = st
      BY <3>1
    <3>. QED BY <3>2 DEF o, s, st, OffsetAt
  <2>. HIDE DEF b
  <2>2. PICK p, w, h \in Nat : OffsetAt(c, k) = (h * (2 * p)) * RowLength(c)
    BY <1>3, BlockPlanes DEF OffsetAt
  <2>. DEFINE u == (h * (2 * p)) * parts
  <2>3. u \in Nat /\ OffsetAt(c, k) = u * len
    <3>1. \A x, y, z \in Nat : x * (y * z) = (x * y) * z /\ x * y \in Nat
      OBVIOUS
    <3>2. h * (2 * p) \in Nat
      OBVIOUS
    <3>. QED BY <2>2, <3>1, <3>2
  <2>. HIDE DEF u
  <2>4. SizeAt(c, k) \in Nat
    BY <1>3, BlockFacts
  <2>5. \A i \in 0..(SizeAt(c, k) - 1) :
          /\ slice(b, i) = PositionAt(c, k, i) \div len
          /\ i % sliceLen = PositionAt(c, k, i) % len
    <3>. TAKE i \in 0..(SizeAt(c, k) - 1)
    <3>1. i \in Nat
      BY <2>4
    <3>2. /\ (u * len) \div len + i \div len = (u * len + i) \div len
          /\ i % len = (u * len + i) % len
      BY <2>3, <3>1, Offsetting
    <3>3. PositionAt(c, k, i) = u * len + i
      BY <2>3 DEF PositionAt
    <3>. QED BY <1>2, <2>1, <2>3, <3>2, <3>3
  <2>. HIDE DEF slice, PositionAt
  <2>6. {j \in 0..(b.size - 1) : slice(b, j) % parts = part} =
          {j \in 0..(SizeAt(c, k) - 1) : OfPart(PositionAt(c, k, j), parts, len, part)}
    BY <2>1, <2>5 DEF OfPart
  <2>. DEFINE J == {j \in 0..(SizeAt(c, k) - 1) : OfPart(PositionAt(c, k, j), parts, len, part)}
  <2>7. \A i \in J :
          [at |-> b.start + i, plane |-> slice(b, i) \div parts, element |-> i % sliceLen] =
            ReadAt(c, k, i, parts, len)
    BY <2>1, <2>5 DEF ReadAt
  <2>8. read(b) =
          {[at |-> b.start + i, plane |-> slice(b, i) \div parts, element |-> i % sliceLen] : i \in J}
    BY <2>6
  <2>9. ReadsOf(c, k, parts, len, part) = {ReadAt(c, k, i, parts, len) : i \in J}
    BY DEF ReadsOf
  <2>. HIDE DEF J, ReadAt, read
  <2>10. {[at |-> b.start + i, plane |-> slice(b, i) \div parts, element |-> i % sliceLen] : i \in J} =
           {ReadAt(c, k, i, parts, len) : i \in J}
    BY <2>7
  <2>11. read(b) = ReadsOf(c, k, parts, len, part)
    BY <2>8, <2>9, <2>10
  <2>. QED BY <2>11 DEF b
<1>. HIDE DEF read
<1>. QED BY <1>1, <1>3

\* Element e of a part of the j-th plane, parts pieces of len positions making a plane.
PartPosition(parts, len, part, j, e) == j * (parts * len) + (part * len + e)

\* What is read back from such a position, and what had been laid there.
IsPart(x, parts, len, part, j, e) ==
    /\ x % len = e /\ (x \div len) \div parts = j /\ OfPart(x, parts, len, part)
    /\ x \div (parts * len) = j /\ x % (parts * len) = part * len + e

\* A position made of a plane, a part and an element is read as them.
LEMMA Joining ==
    ASSUME NEW parts \in Nat, NEW len \in Nat, NEW part \in Nat, NEW j \in Nat, NEW e \in Nat,
           part < parts, e < len
    PROVE  /\ PartPosition(parts, len, part, j, e) \in Nat
           /\ IsPart(PartPosition(parts, len, part, j, e), parts, len, part, j, e)
<1>. DEFINE u == parts * len
            y == part * len + e
            v == j * parts + part
            x == PartPosition(parts, len, part, j, e)
<1>1. part * len + len <= parts * len
  BY Scaling
<1>2. u \in Nat /\ y \in Nat /\ y < u
  <2>. DEFINE a == part * len
  <2>1. a \in Nat /\ u \in Nat /\ a + len <= u
    BY <1>1
  <2>2. y = a + e
    OBVIOUS
  <2>. HIDE DEF a, u, y
  <2>. QED BY <2>1, <2>2
<1>3. x = j * u + y /\ x \in Nat
  <2>1. x = j * u + y
    BY DEF PartPosition
  <2>. HIDE DEF u, y, x
  <2>. QED BY <1>2, <2>1
<1>4. x \div u = j /\ x % u = y
  <2>. HIDE DEF u, y, x
  <2>. QED BY <1>2, <1>3, Dividing
<1>5. v \in Nat /\ x = v * len + e
  <2>1. \A a, b, c, d, f \in Nat : a * (b * c) + (d * c + f) = (a * b + d) * c + f /\ a * b + d \in Nat
    OBVIOUS
  <2>2. x = j * (parts * len) + (part * len + e)
    BY DEF PartPosition
  <2>. HIDE DEF x
  <2>. QED BY <2>1, <2>2
<1>6. v \div parts = j /\ v % parts = part
  BY Dividing
<1>7. x \div len = v /\ x % len = e
  <2>. HIDE DEF x, v
  <2>. QED BY <1>5, Dividing
<1>. HIDE DEF x, v
<1>8. x % len = e /\ (x \div len) \div parts = j /\ OfPart(x, parts, len, part)
  BY <1>6, <1>7 DEF OfPart
<1>9. IsPart(x, parts, len, part, j, e)
  BY <1>4, <1>8 DEF IsPart, u, y
<1>. QED BY <1>3, <1>9 DEF x

\* A position is a part's, in one of m planes.
IsSplit(x, parts, len, part, m) ==
    /\ part < parts
    /\ \E j \in 0..(m - 1) : \E e \in 0..(len - 1) : x = PartPosition(parts, len, part, j, e)

\* Every position of a row of m planes has a plane and an element.
LEMMA Splitting ==
    ASSUME NEW parts \in Nat, NEW len \in Nat, NEW part \in Nat, NEW x \in Nat, NEW m \in Nat,
           parts >= 1, len >= 1, OfPart(x, parts, len, part), x < (parts * len) * m
    PROVE  IsSplit(x, parts, len, part, m)
<1>. DEFINE y == x \div len
            e == x % len
            j == y \div parts
<1>1. y \in Nat /\ e \in Nat /\ e < len /\ x = y * len + e
  OBVIOUS
<1>2. y % parts = part
  BY DEF OfPart
<1>. HIDE DEF y, e
<1>3. j \in Nat /\ y = j * parts + part /\ part < parts
  BY <1>1, <1>2
<1>. HIDE DEF j
<1>4. x = j * (parts * len) + (part * len + e)
  <2>1. \A a, b, c, d, f \in Nat : a * (b * c) + (d * c + f) = (a * b + d) * c + f
    OBVIOUS
  <2>2. (j * parts + part) * len + e = j * (parts * len) + (part * len + e)
    BY <1>1, <1>3, <2>1
  <2>. QED BY <1>1, <1>3, <2>2
<1>5. j < m
  <2>. DEFINE u == parts * len
              z == part * len + e
  <2>1. u \in Nat /\ z \in Nat /\ x = j * u + z /\ x < u * m
    BY <1>1, <1>3, <1>4
  <2>. HIDE DEF u, z
  <2>2. m <= j => m * u <= j * u
    BY <1>3, <2>1, Scaling
  <2>. DEFINE a == m * u
              b == j * u
  <2>3. a \in Nat /\ b \in Nat /\ (m <= j => a <= b) /\ x = b + z /\ x < a
    <3>1. u * m = m * u /\ m * u \in Nat /\ j * u \in Nat
      BY <1>3, <2>1
    <3>. QED BY <2>1, <2>2, <3>1
  <2>. HIDE DEF a, b
  <2>. QED BY <1>3, <2>1, <2>3
<1>6. j \in 0..(m - 1) /\ e \in 0..(len - 1)
  BY <1>1, <1>3, <1>5
<1>. QED BY <1>3, <1>4, <1>6 DEF PartPosition, IsSplit

\* A part's positions are within the component.
LEMMA PartWithin ==
    ASSUME NEW parts \in Nat, NEW len \in Nat, NEW part \in Nat, NEW m \in Nat,
           NEW j \in 0..(m - 1), NEW e \in 0..(len - 1), part < parts
    PROVE  PartPosition(parts, len, part, j, e) < (parts * len) * m
<1>. DEFINE u == parts * len
            a == part * len
            b == j * u
            d == m * u
<1>1. part * len + len <= parts * len
  BY Scaling
<1>2. u \in Nat /\ a \in Nat /\ a + len <= u
  BY <1>1
<1>3. j \in Nat /\ j < m /\ e \in Nat /\ e < len
  OBVIOUS
<1>4. b \in Nat /\ d \in Nat /\ b + u <= d
  <2>. HIDE DEF u
  <2>. QED BY <1>2, <1>3, Scaling
<1>5. PartPosition(parts, len, part, j, e) = b + (a + e) /\ (parts * len) * m = d
  <2>1. u * m = m * u
    BY <1>2
  <2>. QED BY <2>1 DEF PartPosition
<1>. HIDE DEF u, a, b, d
<1>. QED BY <1>2, <1>3, <1>4, <1>5

\* What is known of one position that is read.
LEMMA ReadIs ==
    ASSUME PasteInv, pc = "packed", NEW c \in Components,
           NEW parts \in Nat, NEW len \in Nat, NEW part \in Nat,
           parts >= 1, len >= 1, RowLength(c) = parts * len,
           NEW k \in DOMAIN placement[c], NEW i \in 0..(SizeAt(c, k) - 1),
           OfPart(PositionAt(c, k, i), parts, len, part)
    PROVE  \E j \in 0..(Chunks(c) - 1) : \E e \in 0..(len - 1) :
             /\ PositionAt(c, k, i) = PartPosition(parts, len, part, j, e)
             /\ ReadAt(c, k, i, parts, len) = [at |-> StartAt(c, k) + i, plane |-> j, element |-> e]
             /\ data[StartAt(c, k) + i] = Digit(c, j, part * len + e)
<1>. DEFINE x == PositionAt(c, k, i)
            m == Chunks(c)
            r == RowLength(c)
            n == SizeOf(c)
<1>0. round \in Rounds /\ TotalSize <= 2^TopBit
  BY DEF PasteInv, SpaceInv, SpaceIsWhole
<1>1. m \in Nat /\ n \in Nat /\ n = (parts * len) * m
  BY <1>0, PartsFit
<1>2. x \in 0..(n - 1)
  BY PackedIs DEF PositionAt
<1>3. x \in Nat /\ x < (parts * len) * m
  <2>. HIDE DEF x, n, m
  <2>1. x \in Nat /\ x < n
    BY <1>1, <1>2
  <2>. QED BY <1>1, <2>1
<1>. HIDE DEF x, m
<1>4. OfPart(x, parts, len, part)
  BY DEF x
<1>7. /\ part < parts
      /\ \E j \in 0..(m - 1) : \E e \in 0..(len - 1) : x = PartPosition(parts, len, part, j, e)
  <2>1. x \in Nat /\ m \in Nat /\ x < (parts * len) * m
    BY <1>1, <1>3
  <2>. HIDE DEF n, r
  <2>2. IsSplit(x, parts, len, part, m)
    BY <1>4, <2>1, Splitting
  <2>. QED BY <2>2 DEF IsSplit
<1>5. PICK j \in 0..(m - 1) : \E e \in 0..(len - 1) : x = PartPosition(parts, len, part, j, e)
  BY <1>7
<1>6. PICK e \in 0..(len - 1) : x = PartPosition(parts, len, part, j, e)
  BY <1>5
<1>8. j \in Nat /\ e \in Nat /\ e < len
  BY <1>1
<1>9. IsPart(x, parts, len, part, j, e)
  BY <1>6, <1>7, <1>8, Joining
<1>10. ReadAt(c, k, i, parts, len) = [at |-> StartAt(c, k) + i, plane |-> j, element |-> e]
  <2>1. (x \div len) \div parts = j /\ x % len = e
    BY <1>9 DEF IsPart
  <2>2. ReadAt(c, k, i, parts, len) =
          [at |-> StartAt(c, k) + i, plane |-> (x \div len) \div parts, element |-> x % len]
    BY DEF ReadAt, x
  <2>. QED BY <2>1, <2>2
<1>11. data[StartAt(c, k) + i] = Digit(c, j, part * len + e)
  <2>1. data[StartAt(c, k) + i] = CommittedEntry(c, Base(c) + x)
    BY SourceIs DEF x, PositionAt
  <2>2. CommittedEntry(c, Base(c) + x) = Digit(c, x \div r, x % r)
    <3>. HIDE DEF n
    <3>. QED BY <1>0, <1>2, RowEntries DEF n
  <2>3. x \div r = j /\ x % r = part * len + e
    BY <1>9 DEF IsPart
  <2>. QED BY <2>1, <2>2, <2>3
<1>. QED BY <1>6, <1>10, <1>11 DEF x, m

\* Every position that is to be read is in some block.
LEMMA PartIsRead ==
    ASSUME PasteInv, pc = "packed", NEW c \in Components,
           NEW parts \in Nat, NEW len \in Nat, NEW part \in Nat,
           parts >= 1, len >= 1, part < parts, RowLength(c) = parts * len,
           NEW j \in 0..(Chunks(c) - 1), NEW e \in 0..(len - 1)
    PROVE  \E k \in DOMAIN placement[c] : \E i \in 0..(SizeAt(c, k) - 1) :
             /\ OfPart(PositionAt(c, k, i), parts, len, part)
             /\ ReadAt(c, k, i, parts, len) = [at |-> StartAt(c, k) + i, plane |-> j, element |-> e]
             /\ data[StartAt(c, k) + i] = Digit(c, j, part * len + e)
<1>. DEFINE x == PartPosition(parts, len, part, j, e)
            m == Chunks(c)
            r == RowLength(c)
            n == SizeOf(c)
<1>0. round \in Rounds /\ TotalSize <= 2^TopBit
  BY DEF PasteInv, SpaceInv, SpaceIsWhole
<1>1. m \in Nat /\ n \in Nat /\ n = (parts * len) * m
  BY <1>0, PartsFit
<1>2. j \in Nat /\ e \in Nat /\ e < len /\ j \in 0..(m - 1)
  BY <1>1
<1>3. x \in Nat /\ IsPart(x, parts, len, part, j, e)
  BY <1>2, Joining
<1>4. x < (parts * len) * m
  <2>. HIDE DEF m
  <2>. QED BY <1>1, <1>2, PartWithin
<1>. HIDE DEF x, m
<1>5. x \in 0..(n - 1)
  <2>. HIDE DEF n
  <2>1. x < n
    BY <1>1, <1>4
  <2>. QED BY <1>1, <1>3, <2>1
<1>6. PICK k \in DOMAIN placement[c] : \E i \in 0..(SizeAt(c, k) - 1) : x = PositionAt(c, k, i)
  BY <1>5, PackedIs DEF PositionAt
<1>7. PICK i \in 0..(SizeAt(c, k) - 1) : x = PositionAt(c, k, i)
  BY <1>6
<1>8. OfPart(PositionAt(c, k, i), parts, len, part)
  BY <1>3, <1>7 DEF IsPart
<1>9. ReadAt(c, k, i, parts, len) = [at |-> StartAt(c, k) + i, plane |-> j, element |-> e]
  BY <1>3, <1>7 DEF ReadAt, IsPart
<1>10. data[StartAt(c, k) + i] = Digit(c, j, part * len + e)
  <2>1. data[StartAt(c, k) + i] = CommittedEntry(c, Base(c) + x)
    BY <1>7, SourceIs DEF PositionAt
  <2>2. CommittedEntry(c, Base(c) + x) = Digit(c, x \div r, x % r)
    <3>. HIDE DEF n
    <3>. QED BY <1>0, <1>5, RowEntries DEF n
  <2>3. x \div r = j /\ x % r = part * len + e
    BY <1>3 DEF IsPart
  <2>. QED BY <2>1, <2>2, <2>3
<1>. QED BY <1>8, <1>9, <1>10

\* A recomposition reads every digit of its part once, at its plane and element.
LEMMA DigitReads ==
    ASSUME PasteInv, pc = "packed", NEW c \in Components,
           NEW parts \in Nat, NEW len \in Nat, NEW part \in Nat,
           parts >= 1, len >= 1, part < parts, RowLength(c) = parts * len,
           NEW reads, reads = Recomposition(c, parts, part)
    PROVE  /\ Cardinality(reads) = Chunks(c) * len
           /\ {<<data[x.at], x.plane, x.element>> : x \in reads} =
                {<<Digit(c, j, part * len + e), j, e>> : j \in 0..(Chunks(c) - 1), e \in 0..(len - 1)}
<1>. DEFINE m == Chunks(c)
            J == 0..(m - 1)
            E == 0..(len - 1)
            K == DOMAIN placement[c]
<1>0. round \in Rounds /\ TotalSize <= 2^TopBit
  BY DEF PasteInv, SpaceInv, SpaceIsWhole
<1>1. m \in Nat /\ m >= 1
  BY <1>0, PartsFit
<1>2. \A z : z \in reads <=>
        \E k \in K : \E i \in 0..(SizeAt(c, k) - 1) :
          OfPart(PositionAt(c, k, i), parts, len, part) /\ z = ReadAt(c, k, i, parts, len)
  <2>1. reads = UNION {ReadsOf(c, k, parts, len, part) : k \in K}
    BY RecompositionIs, SMTT(60)
  <2>2. \A k : ReadsOf(c, k, parts, len, part) =
          {ReadAt(c, k, i, parts, len) :
             i \in {j \in 0..(SizeAt(c, k) - 1) : OfPart(PositionAt(c, k, j), parts, len, part)}}
    BY DEF ReadsOf
  <2>. HIDE DEF K
  <2>. QED BY <2>1, <2>2
<1>3. \A z \in reads : /\ z.plane \in J /\ z.element \in E
                       /\ data[z.at] = Digit(c, z.plane, part * len + z.element)
  <2>. TAKE z \in reads
  <2>1. PICK k \in K : \E i \in 0..(SizeAt(c, k) - 1) :
          OfPart(PositionAt(c, k, i), parts, len, part) /\ z = ReadAt(c, k, i, parts, len)
    BY <1>2
  <2>2. PICK i \in 0..(SizeAt(c, k) - 1) :
          OfPart(PositionAt(c, k, i), parts, len, part) /\ z = ReadAt(c, k, i, parts, len)
    BY <2>1
  <2>3. PICK j \in J : \E e \in E :
             /\ ReadAt(c, k, i, parts, len) = [at |-> StartAt(c, k) + i, plane |-> j, element |-> e]
             /\ data[StartAt(c, k) + i] = Digit(c, j, part * len + e)
    BY <2>2, ReadIs
  <2>4. PICK e \in E :
             /\ ReadAt(c, k, i, parts, len) = [at |-> StartAt(c, k) + i, plane |-> j, element |-> e]
             /\ data[StartAt(c, k) + i] = Digit(c, j, part * len + e)
    BY <2>3
  <2>5. z.at = StartAt(c, k) + i /\ z.plane = j /\ z.element = e
    <3>. DEFINE s == StartAt(c, k) + i
    <3>1. z = [at |-> s, plane |-> j, element |-> e]
      BY <2>2, <2>4
    <3>. HIDE DEF s
    <3>2. z.at = s /\ z.plane = j /\ z.element = e
      BY <3>1
    <3>. QED BY <3>2 DEF s
  <2>. QED BY <2>4, <2>5
<1>4. \A j \in J : \A e \in E : \E z \in reads :
         z.plane = j /\ z.element = e /\ data[z.at] = Digit(c, j, part * len + e)
  <2>. TAKE j \in J
  <2>. TAKE e \in E
  <2>1. PICK k \in K : \E i \in 0..(SizeAt(c, k) - 1) :
             /\ OfPart(PositionAt(c, k, i), parts, len, part)
             /\ ReadAt(c, k, i, parts, len) = [at |-> StartAt(c, k) + i, plane |-> j, element |-> e]
             /\ data[StartAt(c, k) + i] = Digit(c, j, part * len + e)
    BY PartIsRead, ZenonT(60)
  <2>2. PICK i \in 0..(SizeAt(c, k) - 1) :
             /\ OfPart(PositionAt(c, k, i), parts, len, part)
             /\ ReadAt(c, k, i, parts, len) = [at |-> StartAt(c, k) + i, plane |-> j, element |-> e]
             /\ data[StartAt(c, k) + i] = Digit(c, j, part * len + e)
    BY <2>1
  <2>. DEFINE s == StartAt(c, k) + i
              z == [at |-> s, plane |-> j, element |-> e]
  <2>3. z \in reads
    BY <1>2, <2>2
  <2>4. z.at = s /\ z.plane = j /\ z.element = e
    <3>. HIDE DEF s
    <3>. QED OBVIOUS
  <2>5. data[z.at] = Digit(c, j, part * len + e)
    BY <2>2, <2>4
  <2>. HIDE DEF z
  <2>. QED BY <2>3, <2>4, <2>5
<1>5. \A y, z \in reads : y.plane = z.plane /\ y.element = z.element => y = z
  <2>. TAKE y, z \in reads
  <2>. HAVE y.plane = z.plane /\ y.element = z.element
  <2>1. \A x \in reads : \E k \in K : \E i \in 0..(SizeAt(c, k) - 1) :
           /\ x = ReadAt(c, k, i, parts, len)
           /\ PositionAt(c, k, i) = PartPosition(parts, len, part, x.plane, x.element)
    <3>. TAKE x \in reads
    <3>1. PICK k \in K : \E i \in 0..(SizeAt(c, k) - 1) :
            OfPart(PositionAt(c, k, i), parts, len, part) /\ x = ReadAt(c, k, i, parts, len)
      BY <1>2
    <3>2. PICK i \in 0..(SizeAt(c, k) - 1) :
            OfPart(PositionAt(c, k, i), parts, len, part) /\ x = ReadAt(c, k, i, parts, len)
      BY <3>1
    <3>3. PICK j \in J : \E e \in E :
               /\ PositionAt(c, k, i) = PartPosition(parts, len, part, j, e)
               /\ ReadAt(c, k, i, parts, len) = [at |-> StartAt(c, k) + i, plane |-> j, element |-> e]
      BY <3>2, ReadIs
    <3>4. PICK e \in E :
               /\ PositionAt(c, k, i) = PartPosition(parts, len, part, j, e)
               /\ ReadAt(c, k, i, parts, len) = [at |-> StartAt(c, k) + i, plane |-> j, element |-> e]
      BY <3>3
    <3>5. x.plane = j /\ x.element = e
      <4>. DEFINE s == StartAt(c, k) + i
      <4>1. x = [at |-> s, plane |-> j, element |-> e]
        BY <3>2, <3>4
      <4>. HIDE DEF s
      <4>. QED BY <4>1
    <3>. QED BY <3>2, <3>4, <3>5
  <2>2. PICK k \in K : \E i \in 0..(SizeAt(c, k) - 1) :
           /\ y = ReadAt(c, k, i, parts, len)
           /\ PositionAt(c, k, i) = PartPosition(parts, len, part, y.plane, y.element)
    BY <2>1
  <2>3. PICK i \in 0..(SizeAt(c, k) - 1) :
           /\ y = ReadAt(c, k, i, parts, len)
           /\ PositionAt(c, k, i) = PartPosition(parts, len, part, y.plane, y.element)
    BY <2>2
  <2>4. PICK l \in K : \E i2 \in 0..(SizeAt(c, l) - 1) :
           /\ z = ReadAt(c, l, i2, parts, len)
           /\ PositionAt(c, l, i2) = PartPosition(parts, len, part, z.plane, z.element)
    BY <2>1
  <2>5. PICK i2 \in 0..(SizeAt(c, l) - 1) :
           /\ z = ReadAt(c, l, i2, parts, len)
           /\ PositionAt(c, l, i2) = PartPosition(parts, len, part, z.plane, z.element)
    BY <2>4
  <2>6. OffsetAt(c, k) + i = OffsetAt(c, l) + i2
    BY <2>3, <2>5 DEF PositionAt
  <2>7. k = l /\ i = i2
    BY <2>6, BlocksApart
  <2>. QED BY <2>3, <2>5, <2>7
<1>. DEFINE T == J \X E
            f == [z \in reads |-> <<z.plane, z.element>>]
<1>6. f \in Injection(reads, T) /\ f \in Surjection(reads, T)
  <2>. HIDE DEF J, E
  <2>1. f \in [reads -> T]
    <3>1. \A z \in reads : <<z.plane, z.element>> \in T
      BY <1>3
    <3>. HIDE DEF T
    <3>. QED BY <3>1
  <2>2. \A y, z \in reads : f[y] = f[z] => y = z
    <3>. TAKE y, z \in reads
    <3>. HAVE f[y] = f[z]
    <3>1. f[y] = <<y.plane, y.element>> /\ f[z] = <<z.plane, z.element>>
      OBVIOUS
    <3>2. <<y.plane, y.element>> = <<z.plane, z.element>>
      BY <3>1
    <3>. HIDE DEF f
    <3>3. y.plane = z.plane /\ y.element = z.element
      BY <3>2
    <3>. QED BY <1>5, <3>3
  <2>3. \A t \in T : \E z \in reads : f[z] = t
    <3>. TAKE t \in T
    <3>1. PICK z \in reads : z.plane = t[1] /\ z.element = t[2]
      BY <1>4
    <3>. QED BY <3>1
  <2>. HIDE DEF f, T
  <2>. QED BY <2>1, <2>2, <2>3 DEF Injection, Surjection, IsInjective
<1>7. IsFiniteSet(J) /\ Cardinality(J) = m /\ IsFiniteSet(E) /\ Cardinality(E) = len
  <2>. HIDE DEF m
  <2>1. IsFiniteSet(J) /\ Cardinality(J) = IF 0 > m - 1 THEN 0 ELSE (m - 1) - 0 + 1
    <3>1. m - 1 \in Int /\ 0 \in Int
      BY <1>1
    <3>. QED BY <3>1, FS_Interval
  <2>2. IsFiniteSet(E) /\ Cardinality(E) = IF 0 > len - 1 THEN 0 ELSE (len - 1) - 0 + 1
    <3>1. len - 1 \in Int /\ 0 \in Int
      OBVIOUS
    <3>. QED BY <3>1, FS_Interval
  <2>. HIDE DEF J, E
  <2>. QED BY <1>1, <2>1, <2>2
<1>8. IsFiniteSet(T) /\ Cardinality(T) = m * len
  <2>. HIDE DEF J, E, m
  <2>. QED BY <1>7, FS_Product
<1>9. Cardinality(reads) = m * len
  <2>. HIDE DEF f, T, m
  <2>. QED BY <1>6, <1>8, FS_Injection
<1>10. {<<data[x.at], x.plane, x.element>> : x \in reads} =
         {<<Digit(c, j, part * len + e), j, e>> : j \in J, e \in E}
  <2>. HIDE DEF J, E, Digit
  <2>. QED BY <1>3, <1>4
<1>. QED BY <1>9, <1>10

\* Every recomposition the builders make reads a part of so many of a row.
LEMMA RecompositionsAre ==
    ASSUME round \in Rounds, TotalSize <= 2^TopBit, NEW recomposition \in Recompositions
    PROVE  \E c \in Components : \E parts, len, part \in Nat :
             /\ recomposition = <<c, parts, part>>
             /\ parts >= 1 /\ len >= 1 /\ part < parts
             /\ RowLength(c) = parts * len /\ RowLength(c) \div parts = len
<1>0. \A parts, len \in Nat : parts >= 1 => (parts * len) \div parts = len
  <2>. TAKE parts, len \in Nat
  <2>. HAVE parts >= 1
  <2>1. (len * parts + 0) \div parts = len
    BY Dividing
  <2>2. len * parts + 0 = parts * len
    OBVIOUS
  <2>. QED BY <2>1, <2>2
<1>1. ASSUME NEW c \in Components, recomposition = <<c, 1, 0>>
      PROVE  \E parts, len, part \in Nat :
               /\ recomposition = <<c, parts, part>>
               /\ parts >= 1 /\ len >= 1 /\ part < parts
               /\ RowLength(c) = parts * len /\ RowLength(c) \div parts = len
  <2>. DEFINE r == RowLength(c)
  <2>1. r \in Nat /\ r >= 1
    BY PartsFit
  <2>. HIDE DEF r
  <2>2. r = 1 * r
    BY <2>1
  <2>3. (1 * r) \div 1 = r /\ 1 \in Nat /\ 0 \in Nat
    BY <1>0, <2>1
  <2>4. r \div 1 = r
    BY <2>2, <2>3
  <2>. QED BY <1>1, <2>1, <2>2, <2>4 DEF r
<1>2. CASE recomposition \in RowRecompositions
  <2>1. PICK c \in Components : recomposition = <<c, 1, 0>>
    BY <1>2 DEF RowRecompositions
  <2>. QED BY <1>1, <2>1
<1>3. CASE recomposition \in BatchRecompositions
  <2>. DEFINE batched == {c \in Components : c.level = 1 /\ c.tree = "batched"}
  <2>1. CASE Cardinality(batched) # 1
    <3>1. PICK c \in Components : recomposition = <<c, 1, 0>>
      BY <1>3, <2>1 DEF BatchRecompositions
    <3>. QED BY <1>1, <3>1
  <2>2. CASE Cardinality(batched) = 1
    <3>. DEFINE n == round.batches
                w == round.width
    <3>1. PICK c \in batched : \E i \in 0..(n - 1) : recomposition = <<c, n, i>>
      BY <1>3, <2>2 DEF BatchRecompositions
    <3>2. PICK i \in 0..(n - 1) : recomposition = <<c, n, i>>
      BY <3>1
    <3>3. c \in Components /\ c.level = 1 /\ c.tree = "batched"
      OBVIOUS
    <3>4. n \in Nat /\ n >= 1 /\ w \in Nat /\ w >= 1
      BY RoundParts
    <3>5. BatchedRows = 1
      <4>1. IsFiniteSet(batched)
        <5>1. batched \in SUBSET Components
          OBVIOUS
        <5>. QED BY <5>1, ComponentsFinite, FS_Subset
      <4>2. PICK d : batched = {d}
        BY <2>2, <4>1, FS_Singleton
      <4>3. BatchedRows \in Nat /\ BatchedRows >= 1 /\ Rows(c.tree, c.level) = BatchedRows
        BY <3>3, RowsType DEF Rows
      <4>4. ASSUME BatchedRows # 1 PROVE FALSE
        <5>1. 0 \in 0..(Rows(c.tree, c.level) - 1) /\ 1 \in 0..(Rows(c.tree, c.level) - 1)
          BY <4>3, <4>4
        <5>. DEFINE x == [tree |-> c.tree, level |-> c.level, row |-> 0]
                    y == [tree |-> c.tree, level |-> c.level, row |-> 1]
        <5>2. x \in Components /\ y \in Components
          BY <5>1, SiblingsAre
        <5>3. x.row = 0 /\ y.row = 1 /\ x.tree = c.tree /\ y.tree = c.tree
              /\ x.level = c.level /\ y.level = c.level
          OBVIOUS
        <5>. HIDE DEF x, y
        <5>4. x \in batched /\ y \in batched
          BY <3>3, <5>2, <5>3
        <5>5. x = y
          BY <4>2, <5>4
        <5>. QED BY <5>3, <5>5
      <4>. QED BY <4>4
    <3>6. RowLength(c) = n * w
      <4>1. RowLength(c) = (w * n) \div BatchedRows
        BY <3>3 DEF RowLength, RowLen
      <4>2. \A x, y \in Nat : (x * y) \div 1 = y * x
        <5>. TAKE x, y \in Nat
        <5>1. \A z \in Nat : z \div 1 = z
          OBVIOUS
        <5>2. x * y \in Nat /\ x * y = y * x
          OBVIOUS
        <5>. QED BY <5>1, <5>2
      <4>. QED BY <3>4, <3>5, <4>1, <4>2
    <3>. HIDE DEF n, w, batched
    <3>7. i \in Nat /\ i < n
      BY <3>4
    <3>8. RowLength(c) \div n = w
      BY <1>0, <3>4, <3>6
    <3>. QED BY <3>2, <3>3, <3>4, <3>6, <3>7, <3>8
  <2>. QED BY <2>1, <2>2
<1>4. CASE recomposition \in ChildRecompositions
  <2>. DEFINE rank(c) == TreeLevels(c.tree)[c.level - 1].rank
  <2>1. PICK c \in Components : c.level > 1 /\ \E i \in 0..(rank(c) - 1) : recomposition = <<c, rank(c), i>>
    BY <1>4 DEF ChildRecompositions
  <2>2. PICK i \in 0..(rank(c) - 1) : recomposition = <<c, rank(c), i>>
    BY <2>1
  <2>. DEFINE t == c.tree
              l == c.level
              n == rank(c)
  <2>3. t \in AllTrees /\ l \in 1..Len(TreeLevels(t)) /\ Len(TreeLevels(t)) \in Nat /\ l > 1
        /\ l - 1 \in 1..(Len(TreeLevels(t)) - 1)
    <3>1. t \in AllTrees /\ l \in 1..Len(TreeLevels(t)) /\ l > 1
      BY <2>1, ComponentParts
    <3>2. Len(TreeLevels(t)) \in Nat
      BY <3>1, LevelsOf
    <3>. HIDE DEF t, l
    <3>. QED BY <3>1, <3>2
  <2>4. t \in Trees /\ TreeLevels(t) = round.tree[t]
    <3>1. t = "folded" => Len(TreeLevels(t)) = 1
      BY DEF TreeLevels
    <3>. HIDE DEF t, l
    <3>2. ASSUME t = "folded" PROVE FALSE
      <4>. DEFINE n1 == Len(TreeLevels(t))
      <4>1. n1 = 1 /\ l \in 1..n1 /\ l > 1
        BY <2>3, <3>1, <3>2
      <4>. HIDE DEF n1
      <4>. QED BY <4>1
    <3>. QED BY <2>3, <3>2 DEF AllTrees, TreeLevels
  <2>5. PICK b \in Bits : n = 2^b
    <3>1. IsPower(round.tree[t][l - 1].rank)
      <4>. HIDE DEF t, l, n
      <4>. QED BY <2>3, <2>4, DyadicAssumption
    <3>. QED BY <2>4, <3>1 DEF IsPower, Bits
  <2>6. RowLength(c) = PaddedLength(n)
    BY <2>3 DEF RowLength, RowLen
  <2>7. PaddedLength(n) = n
    <3>. HIDE DEF n
    <3>1. Log2(n) = b
      BY <2>5, Log2Power
    <3>. QED BY <2>5, <3>1 DEF PaddedLength
  <2>8. n \in Nat /\ n >= 1
    <3>1. b \in 0..(TopBit + 1)
      BY BitsType DEF Bits
    <3>. QED BY <2>5, <3>1, Doubles
  <2>9. recomposition = <<c, n, i>> /\ i \in 0..(n - 1)
    BY <2>2
  <2>. HIDE DEF n, rank
  <2>10. i \in Nat /\ i < n /\ RowLength(c) = n * 1 /\ 1 \in Nat
    BY <2>6, <2>7, <2>8, <2>9
  <2>11. RowLength(c) \div n = 1
    BY <1>0, <2>8, <2>10
  <2>. QED BY <2>8, <2>9, <2>10, <2>11
<1>. QED BY <1>2, <1>3, <1>4 DEF Recompositions

\* What lies below the end of what is used lies in the columns that cover it: with cl
\* positions in w columns of h, position i < e is in a column of the first that e reaches.
LEMMA ColumnsCover ==
    ASSUME NEW w \in Nat, NEW h \in Nat, NEW e \in Nat, NEW i \in Nat,
           w >= 1, h >= 1, i < e
    PROVE  i \div h < ((w * e) + (w * h) - 1) \div (w * h)
<1>. DEFINE a == i \div h
            y == i % h
            cl == w * h
            u == a * h
            v == u * w
            z == e * w
            q == (z + cl - 1) \div cl
<1>1. a \in Nat /\ y \in Nat /\ i = a * h + y
  OBVIOUS
<1>. HIDE DEF a, y
<1>2. cl \in Nat /\ cl >= 1 /\ w <= cl
  <2>1. 1 * w <= h * w /\ 1 * w = w /\ h * w = w * h
    BY Scaling
  <2>. QED BY <2>1
<1>3. u \in Nat /\ u < e
  <2>1. u \in Nat
    BY <1>1
  <2>. HIDE DEF u
  <2>. QED BY <1>1, <2>1 DEF u
<1>. HIDE DEF u
<1>4. v \in Nat /\ z \in Nat /\ v + w <= z
  BY <1>3, Scaling
<1>5. v = a * cl
  <2>1. \A k, l, m \in Nat : (k * l) * m = k * (m * l)
    OBVIOUS
  <2>. QED BY <1>1, <2>1 DEF u
<1>. HIDE DEF cl, v, z
<1>6. z + cl - 1 \in Nat /\ q \in Nat /\ z + cl - 1 < q * cl + cl
  <2>. DEFINE n == z + cl - 1
  <2>1. n \in Nat
    BY <1>2, <1>4
  <2>. HIDE DEF n
  <2>2. n \div cl \in Nat /\ n = (n \div cl) * cl + (n % cl) /\ n % cl < cl
    BY <1>2, <2>1
  <2>. DEFINE d == n \div cl
              r == n % cl
              x == d * cl
  <2>3. r \in Nat /\ x \in Nat
    <3>1. d \in Nat
      BY <2>2
    <3>2. r \in Nat
      BY <1>2, <2>1
    <3>. HIDE DEF d
    <3>. QED BY <1>2, <3>1, <3>2
  <2>4. n = x + r /\ r < cl
    BY <2>2
  <2>. HIDE DEF r, x, d
  <2>5. n < x + cl
    BY <1>2, <2>3, <2>4
  <2>. QED BY <2>1, <2>2, <2>5 DEF n, x, d
<1>. HIDE DEF q
<1>7. q <= a => q * cl <= a * cl
  BY <1>1, <1>2, <1>6, Scaling
<1>8. ~(q <= a)
  <2>. DEFINE x == q * cl
  <2>1. x \in Nat /\ (q <= a => x <= v) /\ z + cl - 1 < x + cl
    BY <1>2, <1>5, <1>6, <1>7
  <2>. HIDE DEF x
  <2>. QED BY <1>2, <1>4, <2>1
<1>9. a < q
  BY <1>1, <1>6, <1>8
<1>10. w * e = z
  BY DEF z
<1>. QED BY <1>9, <1>10 DEF a, q, cl

\* Nothing that is used lies beyond the highest used position.
LEMMA UsedBelow ==
    ASSUME SpaceIsWhole, NEW i \in used
    PROVE  HighestUsed \in Nat /\ i \in Nat /\ i < HighestUsed
<1>1. Length \in Bits /\ ComposedLength = 2^Length
  BY LengthIs DEF SpaceIsWhole
<1>2. ComposedLength \in Nat
  <2>1. Length \in 0..(TopBit + 1)
    BY <1>1, BitsType DEF Bits
  <2>. QED BY <1>1, <2>1, Doubles
<1>. DEFINE top == ComposedLength - 1
            gaps == {top - y : y \in used}
<1>3. \A y \in used : y \in Nat /\ y <= top /\ top - y \in Nat
  <2>1. used \subseteq 0..top
    BY DEF SpaceIsWhole
  <2>. QED BY <1>2, <2>1
<1>4. top \in Int
  BY <1>2
<1>. HIDE DEF top
<1>5. gaps \subseteq Nat /\ gaps # {}
  BY <1>3
<1>. HIDE DEF gaps
<1>6. PICK g \in gaps : \A h \in gaps : g <= h
  BY <1>5, LeastNatural
<1>7. PICK x \in used : g = top - x
  BY DEF gaps
<1>8. \A y \in used : x >= y
  <2>. TAKE y \in used
  <2>1. top - y \in gaps
    BY DEF gaps
  <2>. QED BY <1>3, <1>4, <1>6, <1>7, <2>1
<1>9. Max(used) \in used /\ \A y \in used : Max(used) >= y
  BY <1>8 DEF Max
<1>10. HighestUsed = Max(used) + 1
  BY DEF HighestUsed
<1>. QED BY <1>3, <1>9, <1>10

\* Nothing that was pasted is cut off.
LEMMA PackedIsKept == PasteInv => NothingBeyondTheCut
<1>. SUFFICES ASSUME PasteInv, NEW i \in DOMAIN data, data[i] # Zero
              PROVE  i < NonZeroEnd /\ i \div NextHeight < UsedCols
  BY DEF NothingBeyondTheCut
<1>0. SpaceIsWhole /\ PastedSoFar /\ ComposedLength % round.nextWidth = 0
  BY DEF PasteInv, SpaceInv
<1>1. i \in used
  BY <1>0 DEF PastedSoFar
<1>2. HighestUsed \in Nat /\ i \in Nat /\ i < HighestUsed
  BY <1>0, <1>1, UsedBelow
<1>. DEFINE w == round.nextWidth
            cl == ComposedLength
            h == NextHeight
<1>3. w \in Nat /\ w >= 1
  <2>1. round \in Rounds
    BY <1>0 DEF SpaceIsWhole
  <2>. QED BY <2>1, RoundsAssumption DEF RoundSizes
<1>4. cl \in Nat /\ cl >= 1
  <2>1. Length \in Bits /\ ComposedLength = 2^Length
    BY <1>0, LengthIs DEF SpaceIsWhole
  <2>2. Length \in 0..(TopBit + 1)
    BY <2>1, BitsType DEF Bits
  <2>. QED BY <2>1, <2>2, Doubles
<1>5. h \in Nat /\ cl = w * h
  <2>1. h = cl \div w /\ cl % w = 0
    BY <1>0 DEF NextHeight
  <2>. HIDE DEF h, cl, w
  <2>2. cl \div w \in Nat /\ cl = w * (cl \div w) + (cl % w)
    BY <1>3, <1>4
  <2>. QED BY <1>3, <2>1, <2>2
<1>6. UsedCols = ((w * HighestUsed) + (w * h) - 1) \div (w * h)
  BY <1>5 DEF UsedCols, CeilDiv
<1>. HIDE DEF w, cl, h
<1>7. h >= 1
  BY <1>3, <1>4, <1>5
<1>8. i \div h < ((w * HighestUsed) + (w * h) - 1) \div (w * h)
  BY <1>2, <1>3, <1>5, <1>7, ColumnsCover
<1>. QED BY <1>2, <1>6, <1>8 DEF NonZeroEnd, h

\* Digits are read back.
LEMMA PackedIsRead == PasteInv => RecompositionReadsDigits
<1>. SUFFICES ASSUME PasteInv, pc = "packed" PROVE DigitsAreRead /\ NothingBeyondTheCut
  BY DEF RecompositionReadsDigits
<1>0. round \in Rounds /\ TotalSize <= 2^TopBit
  BY DEF PasteInv, SpaceInv, SpaceIsWhole
<1>1. ASSUME NEW recomposition \in Recompositions
      PROVE  LET c == recomposition[1]
                 parts == recomposition[2]
                 part == recomposition[3]
                 reads == Recomposition(c, parts, part)
                 len == RowLength(c) \div parts
             IN /\ Cardinality(reads) = Chunks(c) * len
                /\ {<<data[x.at], x.plane, x.element>> : x \in reads} =
                     {<<Digit(c, j, part * len + e), j, e>> : j \in 0..(Chunks(c) - 1), e \in 0..(len - 1)}
  <2>1. PICK c \in Components : \E parts, len, part \in Nat :
             /\ recomposition = <<c, parts, part>>
             /\ parts >= 1 /\ len >= 1 /\ part < parts
             /\ RowLength(c) = parts * len /\ RowLength(c) \div parts = len
    BY <1>0, <1>1, RecompositionsAre
  <2>2. PICK parts, len, part \in Nat :
             /\ recomposition = <<c, parts, part>>
             /\ parts >= 1 /\ len >= 1 /\ part < parts
             /\ RowLength(c) = parts * len /\ RowLength(c) \div parts = len
    BY <2>1
  <2>3. PICK reads : reads = Recomposition(c, parts, part)
    OBVIOUS
  <2>4. /\ Cardinality(reads) = Chunks(c) * len
        /\ {<<data[x.at], x.plane, x.element>> : x \in reads} =
             {<<Digit(c, j, part * len + e), j, e>> : j \in 0..(Chunks(c) - 1), e \in 0..(len - 1)}
    BY <2>2, <2>3, DigitReads
  <2>5. recomposition[1] = c /\ recomposition[2] = parts /\ recomposition[3] = part
    BY <2>2
  <2>6. RowLength(recomposition[1]) \div recomposition[2] = len
    BY <2>2, <2>5
  <2>. QED BY <2>3, <2>4, <2>5, <2>6
<1>2. DigitsAreRead
  BY <1>1 DEF DigitsAreRead
<1>. QED BY <1>2, PackedIsKept

\* RecompositionReadsDigits holds in every reachable state: the block selectors, radix
\* weights and slices by which a sumcheck reads a component back (block_recomposition_weights)
\* read exactly the digits paste_placement laid down, once each, and neither the columns
\* the next round uses nor the zero tail the sumcheck skips loses one of them.
THEOREM DigitsAreReadBack == Spec => []RecompositionReadsDigits
BY PasteInit, PasteNext, PackedIsRead, PTL DEF Spec
=============================================================================

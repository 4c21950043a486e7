--------------------------- MODULE Eltwise_proofs ---------------------------
(***************************************************************************)
(* Elementwise arithmetic is exact, for every width of the words, modulus  *)
(* and vector. The first part is about division and wrapping: a quotient   *)
(* estimated with a rounded reciprocal is never too large, and too small   *)
(* by a number of units that the widths decide; each path of eltwise.rs is *)
(* then one such estimate with as many subtractions as it can be short of, *)
(* and the invariant carries them over the elements of a call.             *)
(***************************************************************************)
EXTENDS Eltwise, WellFoundedInduction, TLAPS

\* Products of naturals are naturals.
LEMMA Products ==
    ASSUME NEW a \in Nat, NEW b \in Nat
    PROVE  a * b \in Nat
OBVIOUS

\* Quotient and remainder of naturals.
LEMMA Division ==
    ASSUME NEW n \in Nat, NEW d \in Nat \ {0}
    PROVE  /\ n \div d \in Nat
           /\ n % d \in 0..(d - 1)
           /\ n % d \in Nat
           /\ n = d * (n \div d) + (n % d)
           /\ n \div d <= n
<1>1. n \div d \in Int /\ n % d \in 0..(d - 1)
  OBVIOUS
<1>2. n = d * (n \div d) + (n % d)
  OBVIOUS
<1>3. n \div d >= 0
  OBVIOUS
<1>4. n \div d \in Nat
  BY <1>1, <1>3
<1>5. (n \div d) <= d * (n \div d)
  <2>. DEFINE k == n \div d
  <2>1. k \in Nat
    BY <1>4
  <2>2. \A j \in Nat : j <= d * j
    OBVIOUS
  <2>. QED
    BY <2>1, <2>2
<1>6. d * (n \div d) \in Nat
  BY <1>4, Products
<1>. QED
  BY <1>1, <1>2, <1>4, <1>5, <1>6

\* A number written as a multiple and a remainder has that quotient.
LEMMA QuotientIs ==
    ASSUME NEW n \in Int, NEW d \in Nat \ {0}, NEW k \in Int, NEW r \in 0..(d - 1),
           n = d * k + r
    PROVE  n \div d = k /\ n % d = r
OBVIOUS

\* Multiples of the divisor leave the remainder alone.
LEMMA WrapTimes ==
    ASSUME NEW n \in Int, NEW d \in Nat \ {0}, NEW k \in Int
    PROVE  (n + d * k) % d = n % d
<1>. DEFINE j == n \div d  r == n % d
<1>1. j \in Int /\ r \in 0..(d - 1) /\ n = d * j + r
  OBVIOUS
<1>2. d * k \in Int /\ j + k \in Int
  BY <1>1
<1>3. n + d * k = d * (j + k) + r
  BY <1>1
<1>4. n + d * k \in Int
  BY <1>2
<1>. HIDE DEF j, r
<1>5. (n + d * k) % d = r
  BY <1>1, <1>2, <1>3, <1>4, QuotientIs
<1>. QED
  BY <1>5 DEF r

\* A remainder is its own.
LEMMA SmallRemainder ==
    ASSUME NEW d \in Nat \ {0}, NEW r \in 0..(d - 1)
    PROVE  r % d = r
OBVIOUS

\* A positive factor is cancelled from an inequality.
LEMMA AtMost ==
    ASSUME NEW a \in Int, NEW b \in Int, NEW d \in Nat \ {0}, d * a <= d * b
    PROVE  a <= b
OBVIOUS

\* A positive factor is cancelled from a strict inequality.
LEMMA Below ==
    ASSUME NEW a \in Int, NEW b \in Int, NEW d \in Nat \ {0}, d * a < d * b
    PROVE  a < b
OBVIOUS

\* An inequality times a natural.
LEMMA Scaled ==
    ASSUME NEW a \in Int, NEW b \in Int, NEW c \in Nat, a <= b
    PROVE  a * c <= b * c /\ c * a <= c * b
OBVIOUS

\* The quotient estimated with the rounded reciprocal f of y / q is one too small
\* at most: BarrettFactor's estimate of x y / q, x at most N.
LEMMA Reciprocal ==
    ASSUME NEW N \in Nat \ {0}, NEW q \in Nat \ {0}, NEW x \in Nat, NEW y \in Nat, x <= N,
           NEW f \in Nat, NEW r \in 0..(q - 1), y * N = q * f + r,
           NEW e \in Nat, NEW s \in 0..(N - 1), x * f = N * e + s
    PROVE  q * e <= x * y /\ x * y - q * e < 2 * q
<1>. r \in Nat /\ s \in Nat /\ r < q /\ s < N
  OBVIOUS
<1>1. x * y \in Nat /\ q * e \in Nat /\ x * r \in Nat /\ q * s \in Nat /\ N * q \in Nat
  BY Products
<1>2. N * (x * y) = N * (q * e) + (q * s + x * r)
  <2>1. N * (x * y) = x * (y * N)
    OBVIOUS
  <2>2. x * (y * N) = q * (x * f) + x * r
    OBVIOUS
  <2>3. q * (x * f) = N * (q * e) + q * s
    OBVIOUS
  <2>. QED
    BY <2>1, <2>2, <2>3
<1>3. N * (q * e) <= N * (x * y)
  BY <1>1, <1>2
<1>4. q * s < q * N
  OBVIOUS
<1>5. x * r <= N * r /\ N * r <= N * q
  BY Scaled
<1>6. N * (x * y - q * e) < N * (2 * q)
  <2>1. N * (x * y - q * e) = q * s + x * r
    BY <1>1, <1>2
  <2>2. q * s + x * r < q * N + N * q
    BY <1>1, <1>4, <1>5
  <2>. QED
    BY <1>1, <2>1, <2>2
<1>7. q * e <= x * y
  BY <1>1, <1>3, AtMost
<1>8. x * y - q * e < 2 * q
  BY <1>1, <1>6, Below
<1>. QED
  BY <1>7, <1>8

\* The same of a product p shifted right by h first, as barrett_reduce_128 does:
\* two too small at most, and one when twice the shifted product fits.
LEMMA ShiftedReciprocal ==
    ASSUME NEW N \in Nat \ {0}, NEW q \in Nat \ {0}, NEW h \in Nat \ {0}, 2 * h <= q,
           NEW p \in Nat, NEW c \in Nat, NEW t \in 0..(h - 1), p = h * c + t, c <= N,
           NEW f \in Nat, NEW r \in 0..(q - 1), h * N = q * f + r,
           NEW e \in Nat, NEW s \in 0..(N - 1), c * f = N * e + s
    PROVE  /\ q * e <= p
           /\ p - q * e < 3 * q
           /\ 2 * c <= N => p - q * e < 2 * q
<1>. r \in Nat /\ s \in Nat /\ t \in Nat /\ r < q /\ s < N /\ t < h
  OBVIOUS
<1>1. q * e \in Nat /\ c * r \in Nat /\ q * s \in Nat /\ N * t \in Nat /\ N * q \in Nat
      /\ N * r \in Nat
  BY Products
<1>2. N * p = N * (q * e) + (N * t + c * r + q * s)
  <2>1. N * p = c * (h * N) + N * t
    OBVIOUS
  <2>2. c * (h * N) = q * (c * f) + c * r
    OBVIOUS
  <2>3. q * (c * f) = N * (q * e) + q * s
    OBVIOUS
  <2>4. N * (q * e) \in Nat /\ N * p \in Nat
    BY <1>1, Products
  <2>. QED
    BY <1>1, <2>1, <2>2, <2>3, <2>4
<1>3. q * e <= p
  BY <1>1, <1>2, AtMost
<1>4. N * (p - q * e) = N * t + c * r + q * s
  BY <1>1, <1>2
<1>5. q * s < N * q
  OBVIOUS
<1>6. 2 * (N * t) <= N * q
  <2>1. 2 * t <= q
    OBVIOUS
  <2>2. N * (2 * t) <= N * q
    BY <2>1, Scaled
  <2>. QED
    BY <2>2
<1>7. c * r <= N * r /\ N * r <= N * q
  BY Scaled
<1>8. N * (2 * (p - q * e)) < N * (5 * q)
  <2>1. 2 * (N * t + c * r + q * s) < 5 * (N * q)
    BY <1>1, <1>5, <1>6, <1>7
  <2>2. N * (2 * (p - q * e)) = 2 * (N * (p - q * e)) /\ N * (5 * q) = 5 * (N * q)
    BY <1>1
  <2>. QED
    BY <1>4, <2>1, <2>2
<1>9. 2 * (p - q * e) < 5 * q
  BY <1>1, <1>8, Below
<1>10. ASSUME 2 * c <= N
       PROVE  p - q * e < 2 * q
  <2>1. (2 * c) * r <= N * r
    BY <1>10, Scaled
  <2>2. 2 * (c * r) <= N * q
    BY <1>7, <2>1
  <2>3. 2 * (N * t + c * r + q * s) < 4 * (N * q)
    BY <1>1, <1>5, <1>6, <2>2
  <2>4. N * (2 * (p - q * e)) = 2 * (N * (p - q * e)) /\ N * (4 * q) = 4 * (N * q)
    BY <1>1
  <2>5. N * (2 * (p - q * e)) < N * (4 * q)
    BY <1>4, <2>3, <2>4
  <2>6. 2 * (p - q * e) < 4 * q
    BY <1>1, <2>5, Below
  <2>. QED
    BY <1>1, <2>6
<1>. QED
  BY <1>1, <1>3, <1>9, <1>10

-----------------------------------------------------------------------------
\* The powers of two that words are made of.
LEMMA WordFacts ==
    /\ WordBits \in Nat /\ IfmaBits \in Nat /\ 3 <= IfmaBits /\ IfmaBits <= WordBits
    /\ Half \in Nat \ {0} /\ Word \in Nat \ {0} /\ Ifma \in Nat \ {0}
    /\ Word = Half * Half
<1>1. WordBits \in Nat /\ IfmaBits \in Nat /\ 3 <= IfmaBits /\ IfmaBits <= WordBits
  BY WordsAssumption
<1>2. HalfBits \in Nat /\ HalfBits + HalfBits = WordBits
  BY WordsAssumption DEF HalfBits
<1>3. Half \in Nat \ {0} /\ Word \in Nat \ {0} /\ Ifma \in Nat \ {0}
  BY <1>1, <1>2, PowersAssumption DEF Half, Word, Ifma
<1>4. Word = Half * Half
  BY <1>1, <1>2, PowersAssumption DEF Half, Word
<1>. QED
  BY <1>1, <1>3, <1>4

\* The 52-bit multiplier's range divides the words.
LEMMA IfmaDivides ==
    /\ 2^(WordBits - IfmaBits) \in Nat \ {0}
    /\ Word = Ifma * 2^(WordBits - IfmaBits)
    /\ Ifma <= Word
<1>1. IfmaBits \in 0..WordBits /\ WordBits - IfmaBits \in 0..(WordBits - IfmaBits)
      /\ WordBits - IfmaBits \in 0..WordBits
  BY WordFacts
<1>2. 2^(IfmaBits + (WordBits - IfmaBits)) = Ifma * 2^(WordBits - IfmaBits)
  BY <1>1, PowersAssumption DEF Ifma
<1>3. IfmaBits + (WordBits - IfmaBits) = WordBits
  BY WordFacts
<1>4. Word = Ifma * 2^(WordBits - IfmaBits) /\ 2^(WordBits - IfmaBits) \in Nat \ {0}
  BY <1>1, <1>2, <1>3, PowersAssumption DEF Word
<1>. QED
  BY <1>4, WordFacts

\* A word is its two halves.
LEMMA Halves ==
    ASSUME NEW x \in WordSet
    PROVE  /\ High(x) \in 0..(Half - 1) /\ Low(x) \in 0..(Half - 1)
           /\ x = Half * High(x) + Low(x)
<1>1. x \in Nat /\ x < Half * Half /\ Half \in Nat \ {0}
  BY WordFacts DEF WordSet
<1>2. /\ High(x) \in Nat /\ Low(x) \in 0..(Half - 1)
      /\ x = Half * High(x) + Low(x)
  BY <1>1, Division DEF High, Low
<1>3. Half * High(x) < Half * Half
  BY <1>1, <1>2
<1>4. High(x) < Half
  BY <1>1, <1>2, <1>3, Below
<1>. QED
  BY <1>1, <1>2, <1>4

\* The high half of a product, put together from half words, is the high half.
LEMMA MulHiIsExact ==
    ASSUME NEW x \in WordSet, NEW y \in WordSet
    PROVE  MulHi(x, y) = (x * y) \div Word
<1>. DEFINE a == High(x)  b == Low(x)  c == High(y)  d == Low(y)
            low == b * d
            mid == b * c + (low \div Half)
            cross == a * d + (mid % Half)
<1>1. /\ Half \in Nat \ {0} /\ Word = Half * Half
      /\ a \in Nat /\ b \in Nat /\ c \in Nat /\ d \in Nat
      /\ x = Half * a + b /\ y = Half * c + d
  BY WordFacts, Halves
<1>2. MulHi(x, y) = a * c + (mid \div Half) + (cross \div Half)
  BY DEF MulHi
<1>. HIDE DEF a, b, c, d
<1>3. low \in Nat /\ b * c \in Nat /\ a * d \in Nat /\ a * c \in Nat
  BY <1>1, Products
<1>. HIDE DEF low
<1>4. low \div Half \in Nat /\ low % Half \in 0..(Half - 1)
      /\ low = Half * (low \div Half) + (low % Half)
  BY <1>1, <1>3, Division
<1>5. mid \in Nat
  BY <1>3, <1>4
<1>. HIDE DEF mid
<1>6. mid \div Half \in Nat /\ mid % Half \in Nat
      /\ mid = Half * (mid \div Half) + (mid % Half)
  BY <1>1, <1>5, Division
<1>7. cross \in Nat
  BY <1>3, <1>6
<1>. HIDE DEF cross
<1>8. cross \div Half \in Nat /\ cross % Half \in 0..(Half - 1)
      /\ cross = Half * (cross \div Half) + (cross % Half)
  BY <1>1, <1>7, Division
<1>. DEFINE l0 == low \div Half  l1 == low % Half  m0 == mid \div Half  m1 == mid % Half
            k0 == cross \div Half  k1 == cross % Half
            rest == Half * k1 + l1
<1>9. /\ l0 \in Nat /\ l1 \in 0..(Half - 1) /\ m0 \in Nat /\ m1 \in Nat
      /\ k0 \in Nat /\ k1 \in 0..(Half - 1)
      /\ b * d = Half * l0 + l1
      /\ b * c + l0 = Half * m0 + m1
      /\ a * d + m1 = Half * k0 + k1
  BY <1>4, <1>6, <1>8 DEF low, mid, cross
<1>. HIDE DEF l0, l1, m0, m1, k0, k1
<1>10. x * y = Word * (a * c + m0 + k0) + rest
  <2>1. x * y = Half * (Half * (a * c)) + Half * (a * d) + Half * (b * c) + b * d
    BY <1>1
  <2>2. Half * (a * d) = Half * (Half * k0) + Half * k1 - Half * m1
    BY <1>1, <1>3, <1>9
  <2>3. Half * (b * c) = Half * (Half * m0) + Half * m1 - Half * l0
    BY <1>1, <1>3, <1>9
  <2>4. x * y = Half * (Half * (a * c)) + Half * (Half * k0) + Half * (Half * m0)
                + Half * k1 + l1
    <3>. HIDE DEF rest
    <3>1. /\ Half * (Half * (a * c)) \in Nat /\ Half * (Half * k0) \in Nat
          /\ Half * (Half * m0) \in Nat /\ Half * k1 \in Nat /\ Half * m1 \in Nat
          /\ Half * l0 \in Nat /\ l1 \in Nat
      BY <1>1, <1>3, <1>9
    <3>. QED
      BY <2>1, <2>2, <2>3, <1>9, <3>1
  <2>5. Half * (Half * (a * c)) + Half * (Half * k0) + Half * (Half * m0)
        = Half * Half * (a * c + m0 + k0)
    BY <1>1, <1>3, <1>9
  <2>. QED
    BY <1>1, <1>3, <1>9, <2>4, <2>5
<1>11. rest \in 0..(Word - 1)
  <2>1. Half * k1 <= Half * (Half - 1)
    BY <1>1, <1>9
  <2>. QED
    BY <1>1, <1>9, <2>1
<1>. HIDE DEF rest
<1>12. (x * y) \div Word = a * c + m0 + k0
  <2>1. x * y \in Int /\ a * c + m0 + k0 \in Int /\ Word \in Nat \ {0}
    BY <1>1, <1>3, <1>9, WordFacts
  <2>. QED
    BY <1>10, <1>11, <2>1, QuotientIs
<1>. QED
  BY <1>2, <1>12 DEF m0, k0

\* The approximate high half is one too small at most.
LEMMA MulHiApproxIsClose ==
    ASSUME NEW x \in WordSet, NEW y \in WordSet
    PROVE  \E s \in 0..(2 * Word - 1) :
              MulHiApprox(x, y) \in Nat /\ x * y = Word * MulHiApprox(x, y) + s
<1>. DEFINE a == High(x)  b == Low(x)  c == High(y)  d == Low(y)
            mid == b * c
            cross == a * d + (mid % Half)
<1>1. /\ Half \in Nat \ {0} /\ Word = Half * Half
      /\ a \in Nat /\ b \in 0..(Half - 1) /\ c \in Nat /\ d \in 0..(Half - 1)
      /\ x = Half * a + b /\ y = Half * c + d
  BY WordFacts, Halves
<1>2. MulHiApprox(x, y) = a * c + (mid \div Half) + (cross \div Half)
  BY DEF MulHiApprox
<1>. HIDE DEF a, b, c, d
<1>3. b * d \in Nat /\ b * c \in Nat /\ a * d \in Nat /\ a * c \in Nat
  BY <1>1, Products
<1>4. mid \div Half \in Nat /\ mid % Half \in Nat
      /\ mid = Half * (mid \div Half) + (mid % Half)
  BY <1>1, <1>3, Division
<1>. HIDE DEF mid
<1>5. cross \in Nat
  BY <1>3, <1>4
<1>. HIDE DEF cross
<1>6. cross \div Half \in Nat /\ cross % Half \in 0..(Half - 1)
      /\ cross = Half * (cross \div Half) + (cross % Half)
  BY <1>1, <1>5, Division
<1>. DEFINE m0 == mid \div Half  m1 == mid % Half
            k0 == cross \div Half  k1 == cross % Half
            rest == Half * k1 + b * d
<1>7. /\ m0 \in Nat /\ m1 \in Nat /\ k0 \in Nat /\ k1 \in 0..(Half - 1)
      /\ b * c = Half * m0 + m1
      /\ a * d + m1 = Half * k0 + k1
  BY <1>4, <1>6 DEF mid, cross
<1>. HIDE DEF m0, m1, k0, k1
<1>8. x * y = Word * (a * c + m0 + k0) + rest
  <2>1. x * y = Half * (Half * (a * c)) + Half * (a * d) + Half * (b * c) + b * d
    BY <1>1
  <2>2. Half * (a * d) = Half * (Half * k0) + Half * k1 - Half * m1
    BY <1>1, <1>3, <1>7
  <2>3. Half * (b * c) = Half * (Half * m0) + Half * m1
    BY <1>1, <1>3, <1>7
  <2>4. x * y = Half * (Half * (a * c)) + Half * (Half * k0) + Half * (Half * m0)
                + Half * k1 + b * d
    <3>1. /\ Half * (Half * (a * c)) \in Nat /\ Half * (Half * k0) \in Nat
          /\ Half * (Half * m0) \in Nat /\ Half * k1 \in Nat /\ Half * m1 \in Nat
      BY <1>1, <1>3, <1>7
    <3>. HIDE <1>7
    <3>. QED
      BY <2>1, <2>2, <2>3, <1>3, <3>1
  <2>5. Half * (Half * (a * c)) + Half * (Half * k0) + Half * (Half * m0)
        = Half * Half * (a * c + m0 + k0)
    BY <1>1, <1>3, <1>7
  <2>. QED
    BY <1>1, <1>3, <1>7, <2>4, <2>5
<1>9. rest \in 0..(2 * Word - 1)
  <2>1. Half * k1 <= Half * (Half - 1)
    BY <1>1, <1>7
  <2>2. b * d <= Half * d /\ Half * d <= Half * (Half - 1)
    BY <1>1
  <2>3. Half * k1 \in Nat /\ Half * Half \in Nat /\ Half * (Half - 1) = Half * Half - Half
    BY <1>1, <1>7
  <2>. QED
    BY <1>1, <1>3, <2>1, <2>2, <2>3
<1>10. a * c + m0 + k0 \in Nat
  BY <1>3, <1>7
<1>11. MulHiApprox(x, y) = a * c + m0 + k0
  BY <1>2 DEF m0, k0
<1>. HIDE DEF rest
<1>. QED
  BY <1>8, <1>9, <1>10, <1>11

\* The low half of a product, put together from half words, is the low half.
LEMMA MulLoIsExact ==
    ASSUME NEW x \in WordSet, NEW y \in WordSet
    PROVE  MulLo(x, y) = (x * y) % Word
<1>. DEFINE a == High(x)  b == Low(x)  c == High(y)  d == Low(y)
            cross == a * d + b * c
<1>1. /\ Half \in Nat \ {0} /\ Word = Half * Half
      /\ a \in Nat /\ b \in Nat /\ c \in Nat /\ d \in Nat
      /\ x = Half * a + b /\ y = Half * c + d
  BY WordFacts, Halves
<1>2. MulLo(x, y) = (b * d + (cross % Half) * Half) % Word
  BY DEF MulLo
<1>. HIDE DEF a, b, c, d
<1>3. b * d \in Nat /\ b * c \in Nat /\ a * d \in Nat /\ a * c \in Nat
  BY <1>1, Products
<1>4. cross \in Nat
  BY <1>3
<1>. HIDE DEF cross
<1>5. cross \div Half \in Nat /\ cross % Half \in Nat
      /\ cross = Half * (cross \div Half) + (cross % Half)
  BY <1>1, <1>4, Division
<1>. DEFINE k0 == cross \div Half  k1 == cross % Half
<1>. HIDE DEF k0, k1
<1>6. x * y = (b * d + k1 * Half) + Word * (a * c + k0)
  <2>1. x * y = Half * (Half * (a * c)) + Half * cross + b * d
    BY <1>1 DEF cross
  <2>2. k0 \in Nat /\ k1 \in Nat /\ cross = Half * k0 + k1
    BY <1>5 DEF k0, k1
  <2>3. Half * cross = Half * (Half * k0) + k1 * Half
    BY <1>1, <2>2
  <2>4. Half * (Half * (a * c)) + Half * (Half * k0) = Half * Half * (a * c + k0)
    BY <1>1, <1>3, <2>2
  <2>5. /\ Half * (Half * (a * c)) \in Nat /\ Half * (Half * k0) \in Nat
        /\ k1 * Half \in Nat
    BY <1>1, <1>3, <2>2
  <2>. QED
    BY <1>1, <1>3, <2>1, <2>3, <2>4, <2>5
<1>7. b * d + k1 * Half \in Int /\ a * c + k0 \in Int /\ Word \in Nat \ {0}
  BY <1>1, <1>3, <1>5, WordFacts DEF k0, k1
<1>8. (x * y) % Word = (b * d + k1 * Half) % Word
  BY <1>6, <1>7, WrapTimes
<1>. QED
  BY <1>2, <1>8 DEF k1

\* A wrapped difference is the difference when that is a word.
LEMMA MinusOfResidues ==
    ASSUME NEW m \in Nat, NEW n \in Nat, m - n \in 0..(Word - 1)
    PROVE  Minus(m % Word, n % Word) = m - n
<1>. DEFINE j == m \div Word  k == n \div Word  r == m % Word  s == n % Word
<1>1. /\ Word \in Nat \ {0} /\ j \in Nat /\ k \in Nat /\ r \in Nat /\ s \in Nat
      /\ m = Word * j + r /\ n = Word * k + s
  BY WordFacts, Division
<1>2. Minus(r, s) = (r + (Word - s)) % Word
  BY DEF Minus
<1>. HIDE DEF j, k, r, s
<1>3. r + (Word - s) = (m - n) + Word * (1 + k - j)
  BY <1>1
<1>4. (r + (Word - s)) % Word = (m - n) % Word
  <2>1. m - n \in Int /\ 1 + k - j \in Int /\ Word \in Nat \ {0}
    BY <1>1
  <2>2. ((m - n) + Word * (1 + k - j)) % Word = (m - n) % Word
    BY <2>1, WrapTimes
  <2>. QED
    BY <1>3, <2>2
<1>. QED
  BY <1>1, <1>2, <1>4, SmallRemainder DEF r, s

\* Adding what the negated modulus times the quotient wraps to subtracts.
LEMMA MinusNegated ==
    ASSUME NEW d \in Nat \ {0}, NEW m \in Int, NEW a \in Int, NEW b \in Int, NEW g \in Int,
           b = d * g - a, m - a \in 0..(d - 1)
    PROVE  ((m % d) + (b % d)) % d = m - a
<1>. DEFINE j == m \div d  r == m % d  k == b \div d  s == b % d  u == m - a  v == g - j - k
<1>1. j \in Int /\ r \in Int /\ m = d * j + r
  OBVIOUS
<1>2. k \in Int /\ s \in Int /\ b = d * k + s
  OBVIOUS
<1>. HIDE DEF j, r, k, s
<1>3. u \in 0..(d - 1) /\ u \in Int /\ v \in Int
  BY <1>1, <1>2
<1>4. r + s = u + d * v
  <2>1. d * v = d * g - d * j - d * k
    BY <1>1, <1>2
  <2>2. d * g \in Int /\ d * j \in Int /\ d * k \in Int
    BY <1>1, <1>2
  <2>. QED
    BY <1>1, <1>2, <2>1, <2>2
<1>. HIDE DEF u, v
<1>5. (u + d * v) % d = u % d
  BY <1>3, WrapTimes
<1>6. u % d = u
  BY <1>3, SmallRemainder
<1>7. (r + s) % d = u
  BY <1>4, <1>5, <1>6
<1>. QED
  BY <1>7 DEF r, s, u

-----------------------------------------------------------------------------
\* The factor, computed by two shifts, is the quotient of operand * 2^bits.
LEMMA FactorIsQuotient ==
    ASSUME NEW operand \in Nat, NEW bits \in 0..WordBits, NEW q \in Nat \ {0}
    PROVE  BarrettFactor(operand, bits, q) = (operand * 2^bits) \div q
<1>. DEFINE shift == bits \div 2
            top == operand * 2^(bits - shift)
            a == top \div q  b == top % q
            c == (b * 2^shift) \div q  d == (b * 2^shift) % q
<1>1. BarrettFactor(operand, bits, q) = a * 2^shift + c
  BY DEF BarrettFactor
<1>2. /\ shift \in 0..WordBits /\ bits - shift \in 0..(WordBits - shift)
      /\ bits - shift \in 0..WordBits /\ shift + (bits - shift) = bits
  BY WordFacts
<1>. HIDE DEF shift
<1>3. /\ 2^shift \in Nat /\ 2^(bits - shift) \in Nat
      /\ 2^bits = 2^shift * 2^(bits - shift)
  BY <1>2, PowersAssumption
<1>4. top \in Nat /\ operand * 2^bits = top * 2^shift
  <2>. DEFINE u == 2^shift  v == 2^(bits - shift)
  <2>1. u \in Nat /\ v \in Nat /\ 2^bits = u * v
    BY <1>3
  <2>. HIDE DEF u, v
  <2>2. operand * v \in Nat /\ operand * (u * v) = (operand * v) * u
    BY <2>1
  <2>3. top = operand * v
    BY DEF v
  <2>. QED
    BY <2>1, <2>2, <2>3 DEF u
<1>. HIDE DEF top
<1>5. a \in Nat /\ b \in Nat /\ top = q * a + b
  BY <1>4, Division
<1>. HIDE DEF a, b
<1>6. b * 2^shift \in Nat
  BY <1>3, <1>5, Products
<1>7. c \in Nat /\ d \in 0..(q - 1) /\ b * 2^shift = q * c + d
  BY <1>6, Division
<1>. HIDE DEF c, d
<1>8. operand * 2^bits = q * (a * 2^shift + c) + d
  BY <1>3, <1>4, <1>5, <1>7
<1>9. operand * 2^bits \in Int /\ a * 2^shift + c \in Int
  BY <1>3, <1>4, <1>5, <1>7, Products
<1>. QED
  BY <1>1, <1>7, <1>8, <1>9, QuotientIs

\* A set of naturals that is not empty has a least one.
LEMMA LeastNatural ==
    ASSUME NEW T, T \subseteq Nat, T # {}
    PROVE  \E x \in T : \A y \in T : x <= y
<1>1. IsWellFoundedOn(OpToRel(<, Nat), Nat)
  BY NatLessThanWellFounded
<1>2. PICK x \in T : \A y \in T : ~ (<<y, x>> \in OpToRel(<, Nat))
  BY <1>1, WFMin
<1>3. \A y \in T : y \in Nat
  OBVIOUS
<1>4. \A y \in T : ~(y < x)
  BY <1>2, <1>3 DEF OpToRel
<1>. QED
  BY <1>3, <1>4

\* log2 is the place of the highest bit.
LEMMA Log2Is ==
    ASSUME NEW q \in 1..(Word - 1)
    PROVE  /\ Log2(q) \in 0..(WordBits - 1)
           /\ 2^Log2(q) <= q /\ q < 2 * 2^Log2(q)
<1>. DEFINE Brackets(k) == 2^k <= q /\ q < 2^(k + 1)
            T == {k \in Nat : k <= WordBits /\ q < 2^k}
<1>1. WordBits \in Nat /\ WordBits > 2 /\ Word \in Nat /\ q \in Nat
  BY WordFacts
<1>2. \A k \in 0..(WordBits - 1) : 2^(k + 1) = 2 * 2^k
  <2>. TAKE k \in 0..(WordBits - 1)
  <2>1. k \in 0..WordBits /\ 1 \in 0..(WordBits - k)
    BY <1>1
  <2>2. 2^(k + 1) = 2^k * 2^1 /\ 2^k \in Nat
    BY <2>1, PowersAssumption
  <2>. QED
    BY <2>2, PowersAssumption
<1>3. 2^0 = 1
  <2>1. 2^0 = 2^0 * 2^0 /\ 2^0 \in Nat \ {0}
    BY <1>1, PowersAssumption
  <2>2. \A n \in Nat \ {0} : n = n * n => n = 1
    OBVIOUS
  <2>. QED
    BY <2>1, <2>2
<1>4. WordBits \in T
  BY <1>1 DEF Word
<1>5. PICK m \in T : \A n \in T : m <= n
  BY <1>4, LeastNatural
<1>6. m \in Nat /\ m <= WordBits /\ q < 2^m
  BY <1>5
<1>7. m - 1 \in 0..(WordBits - 1) /\ m - 1 \notin T
  <2>1. ASSUME m = 0
        PROVE  FALSE
    <3>1. 2^m = 1
      BY <1>3, <2>1
    <3>. QED
      BY <1>1, <1>6, <3>1
  <2>2. m - 1 \in Nat
    BY <1>6, <2>1
  <2>. QED
    BY <1>1, <1>5, <1>6, <2>2
<1>8. Brackets(m - 1)
  <2>1. m - 1 \in 0..WordBits /\ (m - 1) + 1 = m /\ m - 1 \in Nat
    BY <1>1, <1>6, <1>7
  <2>2. 2^(m - 1) \in Nat
    BY <2>1, PowersAssumption
  <2>. QED
    BY <1>1, <1>6, <1>7, <2>1, <2>2
<1>9. Log2(q) = CHOOSE k \in 0..WordBits : Brackets(k)
  BY DEF Log2
<1>10. Log2(q) \in 0..WordBits /\ Brackets(Log2(q))
  <2>1. \E k \in 0..WordBits : Brackets(k)
    <3>1. m - 1 \in 0..WordBits
      BY <1>1, <1>7
    <3>. QED
      BY <1>8, <3>1
  <2>. HIDE DEF Brackets
  <2>. QED
    BY <1>9, <2>1
<1>11. Log2(q) # WordBits
  BY <1>1, <1>10 DEF Word
<1>12. Log2(q) \in 0..(WordBits - 1)
  BY <1>1, <1>10, <1>11
<1>. QED
  BY <1>2, <1>10, <1>12

\* The shift of a product by two bits less than the modulus has: half the
\* modulus at most, more than a quarter.
LEMMA ShiftFacts ==
    ASSUME NEW q \in 4..(Word - 1)
    PROVE  /\ ProdRightShift(q) \in 1..(WordBits - 2)
           /\ CeilLog(q) = ProdRightShift(q) + 2
           /\ 2^ProdRightShift(q) \in Nat \ {0}
           /\ 2 * 2^ProdRightShift(q) <= q
           /\ q < 4 * 2^ProdRightShift(q)
<1>. DEFINE k == Log2(q)
<1>1. k \in 0..(WordBits - 1) /\ 2^k <= q /\ q < 2 * 2^k
  BY Log2Is, WordFacts
<1>2. k >= 2
  <2>1. ASSUME k = 0
        PROVE  FALSE
    <3>1. 0 \in 0..WordBits /\ 1 \in 0..(WordBits - 0) /\ 0 + 1 = 1
      BY WordFacts
    <3>2. 2^1 = 2^0 * 2^1 /\ 2^0 \in Nat
      BY <3>1, PowersAssumption
    <3>3. 2^0 = 1
      BY <3>2, PowersAssumption
    <3>. QED
      BY <1>1, <2>1, <3>3
  <2>2. ASSUME k = 1
        PROVE  FALSE
    <3>1. 2^k = 2
      BY <2>2, PowersAssumption
    <3>. QED
      BY <1>1, <3>1
  <2>. QED
    BY <1>1, <2>1, <2>2, WordFacts
<1>. HIDE DEF k
<1>3. CeilLog(q) = k + 1 /\ ProdRightShift(q) = k - 1
  BY <1>1 DEF CeilLog, ProdRightShift, k
<1>4. k - 1 \in 0..WordBits /\ 1 \in 0..(WordBits - (k - 1)) /\ (k - 1) + 1 = k
  BY <1>1, <1>2, WordFacts
<1>5. 2^(k - 1) \in Nat \ {0} /\ 2^k = 2^(k - 1) * 2^1
  BY <1>4, PowersAssumption
<1>6. 2^k = 2 * 2^(k - 1)
  BY <1>5, PowersAssumption
<1>. QED
  BY <1>1, <1>2, <1>3, <1>5, <1>6, WordFacts

-----------------------------------------------------------------------------
\* Residues of a modulus, and four times it, are words.
LEMMA ModulusFacts ==
    ASSUME NEW q \in 4..(Word \div 4)
    PROVE  /\ q \in Nat \ {0} /\ Word \in Nat \ {0} /\ 4 * q <= Word
           /\ q \in WordSet /\ Word - q \in WordSet
           /\ 0..(q - 1) \subseteq WordSet
           /\ q \in 4..(Word - 1)
<1>1. Word \in Nat \ {0} /\ 4 * (Word \div 4) <= Word
  BY WordFacts
<1>. QED
  BY <1>1 DEF WordSet

\* reduce_mod of a number below twice the modulus is its remainder.
LEMMA ReduceOnceIsExact ==
    ASSUME NEW q \in Nat \ {0}, NEW x \in 0..(2 * q - 1)
    PROVE  ReduceOnce(x, q) = x % q
<1>1. CASE x >= q
  <2>1. x = q * 1 + (x - q) /\ x - q \in 0..(q - 1)
    BY <1>1
  <2>2. x % q = x - q
    BY <2>1, QuotientIs
  <2>. QED
    BY <1>1, <2>2 DEF ReduceOnce
<1>2. CASE x < q
  BY <1>2, SmallRemainder DEF ReduceOnce
<1>. QED
  BY <1>1, <1>2

\* The minimum with the wrapped difference subtracts like the comparison.
LEMMA ReduceOnceMinIs ==
    ASSUME NEW q \in Nat \ {0}, 2 * q <= Word, NEW x \in 0..(2 * q - 1)
    PROVE  ReduceOnceMin(x, q) = IF x >= q THEN x - q ELSE x
<1>. Word \in Nat \ {0}
  BY WordFacts
<1>1. CASE x >= q
  <2>1. x + (Word - q) = (x - q) + Word * 1 /\ x - q \in 0..(Word - 1)
    BY <1>1
  <2>2. (x + (Word - q)) % Word = (x - q) % Word
    BY <2>1, WrapTimes
  <2>3. Minus(x, q) = x - q
    BY <2>1, <2>2, SmallRemainder DEF Minus
  <2>. QED
    BY <1>1, <2>3 DEF ReduceOnceMin, Lesser
<1>2. CASE x < q
  <2>1. x + (Word - q) \in 0..(Word - 1)
    BY <1>2
  <2>2. Minus(x, q) = x + (Word - q)
    BY <2>1, SmallRemainder DEF Minus
  <2>. QED
    BY <1>2, <2>2 DEF ReduceOnceMin, Lesser
<1>. QED
  BY <1>1, <1>2

\* The vector form of reduce_mod likewise.
LEMMA ReduceOnceMinIsExact ==
    ASSUME NEW q \in Nat \ {0}, 2 * q <= Word, NEW x \in 0..(2 * q - 1)
    PROVE  ReduceOnceMin(x, q) = x % q
BY ReduceOnceMinIs, ReduceOnceIsExact DEF ReduceOnce

\* Two minima reduce numbers below four times the modulus.
LEMMA ReduceTwiceMinIsExact ==
    ASSUME NEW q \in 4..(Word \div 4), NEW x \in 0..(4 * q - 1)
    PROVE  ReduceTwiceMin(x, q) = x % q
<1>. DEFINE y == ReduceOnceMin(x, 2 * q)
<1>. q \in Nat \ {0} /\ 2 * q \in Nat \ {0} /\ 4 * q <= Word /\ Word \in Nat \ {0}
  BY ModulusFacts
<1>1. y = IF x >= 2 * q THEN x - 2 * q ELSE x
  BY ReduceOnceMinIs
<1>. HIDE DEF y
<1>2. y \in 0..(2 * q - 1) /\ (y = x \/ x = y + q * 2)
  BY <1>1
<1>3. x % q = y % q
  BY <1>2, WrapTimes
<1>4. ReduceOnceMin(y, q) = y % q
  BY <1>2, ReduceOnceMinIsExact
<1>. QED
  BY <1>3, <1>4 DEF ReduceTwiceMin, y

\* Sums are exact on every path.
LEMMA SumIsExact ==
    ASSUME NEW q \in 4..(Word \div 4), NEW x \in 0..(q - 1), NEW y \in 0..(q - 1), NEW path
    PROVE  AddElement(path, x, y, q) = (x + y) % q
<1>. q \in Nat \ {0} /\ 4 * q <= Word /\ Word \in Nat \ {0}
  BY ModulusFacts
<1>1. x + y \in 0..(2 * q - 1) /\ x + y \in 0..(Word - 1)
  OBVIOUS
<1>2. Plus(x, y) = x + y
  BY <1>1, SmallRemainder DEF Plus
<1>3. ReduceOnce(x + y, q) = (x + y) % q /\ ReduceOnceMin(x + y, q) = (x + y) % q
  BY <1>1, ReduceOnceIsExact, ReduceOnceMinIsExact
<1>. QED
  BY <1>2, <1>3 DEF AddElement

\* Differences are exact on every path: the borrow is the sign bit.
LEMMA DifferenceIsExact ==
    ASSUME NEW q \in 4..(Word \div 4), NEW x \in 0..(q - 1), NEW y \in 0..(q - 1), NEW path
    PROVE  SubElement(path, x, y, q) = (x + (q - y)) % q
<1>. q \in Nat \ {0} /\ 4 * q <= Word /\ Word \in Nat \ {0}
  BY ModulusFacts
<1>1. CASE x >= y
  <2>1. x + (Word - y) = (x - y) + Word * 1 /\ x - y \in 0..(Word - 1) /\ x - y \in 0..(q - 1)
    BY <1>1
  <2>2. (x + (Word - y)) % Word = (x - y) % Word
    BY <2>1, WrapTimes
  <2>3. Minus(x, y) = x - y
    BY <2>1, <2>2, SmallRemainder DEF Minus
  <2>4. ~ (x - y >= Word \div 2)
    BY <2>1
  <2>5. SubElement(path, x, y, q) = x - y
    BY <1>1, <2>3, <2>4 DEF SubElement, SubModSigned, Negative
  <2>6. x + (q - y) = q * 1 + (x - y) /\ x + (q - y) \in Int
    OBVIOUS
  <2>7. (x + (q - y)) % q = x - y
    BY <2>1, <2>6, QuotientIs
  <2>. QED
    BY <2>5, <2>7
<1>2. CASE x < y
  <2>1. x + (Word - y) \in 0..(Word - 1) /\ x + (q - y) \in 0..(q - 1)
        /\ x + (q - y) \in 0..(Word - 1)
    BY <1>2
  <2>2. Minus(x, y) = x + (Word - y)
    BY <2>1, SmallRemainder DEF Minus
  <2>3. x + (Word - y) >= Word \div 2
    BY <2>1
  <2>4. (x + (Word - y)) + q = (x + (q - y)) + Word * 1
    OBVIOUS
  <2>5. Plus(x + (Word - y), q) = x + (q - y)
    <3>1. ((x + (Word - y)) + q) % Word = (x + (q - y)) % Word
      BY <2>1, <2>4, WrapTimes
    <3>. QED
      BY <2>1, <3>1, SmallRemainder DEF Plus
  <2>6. SubModSigned(x, y, q) = x + (q - y)
    BY <2>2, <2>3, <2>5 DEF SubModSigned, Negative
  <2>7. Plus(x, q) = x + q
    <3>1. x + q \in 0..(Word - 1)
      OBVIOUS
    <3>. QED
      BY <3>1, SmallRemainder DEF Plus
  <2>8. Minus(x + q, y) = x + (q - y)
    <3>1. (x + q) + (Word - y) = (x + (q - y)) + Word * 1
      OBVIOUS
    <3>2. ((x + q) + (Word - y)) % Word = (x + (q - y)) % Word
      BY <2>1, <3>1, WrapTimes
    <3>. QED
      BY <2>1, <3>2, SmallRemainder DEF Minus
  <2>9. SubElement(path, x, y, q) = x + (q - y)
    BY <1>2, <2>6, <2>7, <2>8 DEF SubElement
  <2>. QED
    BY <2>1, <2>9, SmallRemainder
<1>. QED
  BY <1>1, <1>2

-----------------------------------------------------------------------------
\* A factor may be reduced before the product is.
LEMMA FactorRemainder ==
    ASSUME NEW d \in Nat \ {0}, NEW m \in Int, NEW n \in Int
    PROVE  (m * (n % d)) % d = (m * n) % d
<1>. DEFINE k == n \div d  r == n % d
<1>1. k \in Int /\ r \in Int /\ n = d * k + r
  OBVIOUS
<1>. HIDE DEF k, r
<1>2. m * n = m * r + d * (m * k) /\ m * r \in Int /\ m * k \in Int
  BY <1>1
<1>3. (m * r + d * (m * k)) % d = (m * r) % d
  BY <1>2, WrapTimes
<1>. QED
  BY <1>2, <1>3 DEF r

\* A summand may be reduced before the sum is.
LEMMA SumRemainder ==
    ASSUME NEW d \in Nat \ {0}, NEW m \in Int, NEW n \in Int
    PROVE  ((m % d) + n) % d = (m + n) % d
<1>. DEFINE k == m \div d  r == m % d
<1>1. k \in Int /\ r \in Int /\ m = d * k + r
  OBVIOUS
<1>. HIDE DEF k, r
<1>2. m + n = (r + n) + d * k
  BY <1>1
<1>3. ((r + n) + d * k) % d = (r + n) % d
  <2>. DEFINE w == r + n
  <2>1. w \in Int
    BY <1>1
  <2>. HIDE DEF w
  <2>2. (w + d * k) % d = w % d
    BY <1>1, <2>1, WrapTimes
  <2>. QED
    BY <2>2 DEF w
<1>. QED
  BY <1>2, <1>3 DEF r

\* The product by the halves of y is the product.
LEMMA TrueProductIs ==
    ASSUME NEW q \in Nat \ {0}, NEW x \in Nat, NEW y \in WordSet
    PROVE  TrueProduct(x, y, q) = (x * y) % q
<1>. DEFINE a == High(y)  b == Low(y)  r == (x * a) % q  k == (x * a) \div q
<1>1. Half \in Nat \ {0} /\ a \in Nat /\ b \in Nat /\ y = Half * a + b
  BY WordFacts, Halves
<1>. HIDE DEF a, b
<1>2. x * a \in Nat /\ x * b \in Nat
  BY <1>1, Products
<1>3. r \in Nat /\ k \in Nat /\ x * a = q * k + r
  BY <1>2, Division
<1>. HIDE DEF r, k
<1>4. x * y = (r * Half + x * b) + q * (k * Half)
  <2>1. x * y = (x * a) * Half + x * b
    BY <1>1
  <2>2. (x * a) * Half = q * (k * Half) + r * Half
    BY <1>1, <1>3
  <2>3. q * (k * Half) \in Nat /\ r * Half \in Nat
    BY <1>1, <1>3, Products
  <2>. QED
    BY <1>2, <2>1, <2>2, <2>3
<1>5. r * Half + x * b \in Int /\ k * Half \in Int
  BY <1>1, <1>2, <1>3
<1>6. (x * y) % q = (r * Half + x * b) % q
  BY <1>4, <1>5, WrapTimes
<1>. QED
  BY <1>6 DEF TrueProduct, a, b, r

\* What an estimated quotient leaves has the remainder of the whole.
LEMMA Residue ==
    ASSUME NEW q \in Nat \ {0}, NEW m \in Nat, NEW e \in Nat
    PROVE  (m - q * e) % q = m % q
<1>. DEFINE r == m - q * e
<1>1. r \in Int /\ e \in Int /\ m = r + q * e
  OBVIOUS
<1>. HIDE DEF r
<1>2. (r + q * e) % q = r % q
  BY <1>1, WrapTimes
<1>. QED
  BY <1>1, <1>2 DEF r

\* Shoup's quotient of x y for a known y: one too small at most, and within
\* the bits of the multiplier.
LEMMA ShoupQuotient ==
    ASSUME NEW bits \in 0..WordBits, NEW q \in Nat \ {0},
           NEW x \in 0..(2^bits - 1), NEW y \in 0..(q - 1)
    PROVE  LET N == 2^bits
               f == BarrettFactor(y, bits, q)
               e == (x * f) \div N
           IN /\ N \in Nat \ {0}
              /\ f \in 0..(N - 1) /\ e \in 0..(N - 1)
              /\ q * e <= x * y /\ x * y - q * e < 2 * q
<1>. DEFINE N == 2^bits
            f == BarrettFactor(y, bits, q)
            r == (y * N) % q
            e == (x * f) \div N
            s == (x * f) % N
<1>1. N \in Nat \ {0}
  BY PowersAssumption
<1>2. x \in Nat /\ x < N /\ y \in Nat /\ y <= q - 1
  BY <1>1
<1>3. f = (y * N) \div q
  BY <1>2, FactorIsQuotient
<1>. HIDE DEF N
<1>4. y * N \in Nat
  BY <1>1, <1>2, Products
<1>5. f \in Nat /\ r \in 0..(q - 1) /\ y * N = q * f + r
  BY <1>3, <1>4, Division
<1>. HIDE DEF f, r
<1>6. x * f \in Nat
  BY <1>2, <1>5, Products
<1>7. e \in Nat /\ s \in 0..(N - 1) /\ x * f = N * e + s
  BY <1>1, <1>6, Division
<1>. HIDE DEF e, s
<1>8. q * e <= x * y /\ x * y - q * e < 2 * q
  BY <1>1, <1>2, <1>5, <1>7, Reciprocal
<1>9. f < N
  <2>1. y * N <= (q - 1) * N
    BY <1>1, <1>2, Scaled
  <2>2. (q - 1) * N < q * N
    BY <1>1
  <2>3. q * f \in Nat /\ q * N \in Nat /\ (q - 1) * N \in Nat
    BY <1>1, <1>5, Products
  <2>4. q * f < q * N
    BY <1>4, <1>5, <2>1, <2>2, <2>3
  <2>. QED
    BY <1>1, <1>5, <2>4, Below
<1>10. e < N
  <2>1. x * f <= N * f /\ N * f <= N * (N - 1)
    BY <1>1, <1>2, <1>5, <1>9, Scaled
  <2>2. N * (N - 1) < N * N
    BY <1>1
  <2>3. N * e \in Nat /\ N * N \in Nat /\ N * f \in Nat /\ N * (N - 1) \in Int
    BY <1>1, <1>5, <1>7, Products
  <2>4. N * e < N * N
    BY <1>6, <1>7, <2>1, <2>2, <2>3
  <2>. QED
    BY <1>1, <1>7, <2>4, Below
<1>. QED
  BY <1>1, <1>5, <1>7, <1>8, <1>9, <1>10 DEF e, f, N

\* The remainder that an estimate e of the quotient of m leaves, as the native
\* code and the lanes compute it.
LEMMA WordRemainder ==
    ASSUME NEW q \in WordSet, NEW m \in Nat, NEW e \in WordSet,
           m - q * e \in 0..(Word - 1)
    PROVE  /\ Minus(m % Word, MulLo(e, q)) = m - q * e
           /\ Plus(m % Word, MulLo(e, Word - q)) = m - q * e \/ q = 0
<1>1. Word \in Nat \ {0} /\ q \in Nat /\ e \in Nat
  BY WordFacts DEF WordSet
<1>2. e * q \in Nat /\ e * q = q * e
  BY <1>1, Products
<1>3. Minus(m % Word, MulLo(e, q)) = m - q * e
  BY <1>2, MulLoIsExact, MinusOfResidues
<1>4. ASSUME q # 0
      PROVE  Plus(m % Word, MulLo(e, Word - q)) = m - q * e
  <2>1. Word - q \in WordSet
    BY <1>1, <1>4 DEF WordSet
  <2>2. MulLo(e, Word - q) = (e * (Word - q)) % Word
    BY <1>1, <2>1, MulLoIsExact
  <2>3. ((m % Word) + ((e * (Word - q)) % Word)) % Word = m - e * q
    <3>. DEFINE a == e * q  b == e * (Word - q)
    <3>1. /\ m \in Int /\ e \in Int /\ a \in Int /\ b \in Int /\ Word \in Nat \ {0}
          /\ b = Word * e - a
          /\ m - a \in 0..(Word - 1)
      BY <1>1, <1>2
    <3>. HIDE DEF a, b
    <3>2. ((m % Word) + (b % Word)) % Word = m - a
      BY <3>1, MinusNegated
    <3>. QED
      BY <3>2 DEF a, b
  <2>. QED
    BY <1>2, <2>2, <2>3 DEF Plus
<1>. QED
  BY <1>3, <1>4

\* Shoup's quotient with word arithmetic.
LEMMA ShoupWord ==
    ASSUME NEW q \in 4..(Word \div 4), NEW x \in WordSet, NEW y \in 0..(q - 1)
    PROVE  LET f == BarrettFactor(y, WordBits, q)
               e == MulHi(x, f)
           IN /\ f \in WordSet /\ e \in WordSet /\ e \in Nat
              /\ x * y - q * e \in 0..(2 * q - 1)
              /\ x * y - q * e \in 0..(Word - 1)
<1>. DEFINE f == BarrettFactor(y, WordBits, q)
            e == (x * f) \div Word
<1>1. /\ WordBits \in 0..WordBits /\ q \in Nat \ {0} /\ 4 * q <= Word
      /\ x \in 0..(2^WordBits - 1)
  BY WordFacts, ModulusFacts DEF WordSet, Word
<1>2. /\ f \in WordSet /\ e \in WordSet
      /\ q * e <= x * y /\ x * y - q * e < 2 * q
  BY <1>1, ShoupQuotient DEF Word, WordSet
<1>. HIDE DEF f
<1>3. MulHi(x, f) = e
  BY <1>2, MulHiIsExact
<1>. HIDE DEF e
<1>4. e \in Nat /\ x * y \in Nat /\ q * e \in Nat /\ Word \in Nat
  <2>1. e \in Nat /\ x \in Nat /\ y \in Nat /\ Word \in Nat
    BY <1>1, <1>2, WordFacts DEF WordSet
  <2>. QED
    BY <1>1, <2>1, Products
<1>. QED
  BY <1>1, <1>2, <1>3, <1>4 DEF f

\* Reductions of any word are exact, native and in plain lanes.
LEMMA WordResidueIsExact ==
    ASSUME NEW q \in 4..(Word \div 4), NEW x \in WordSet
    PROVE  ReduceNative(x, q) = x % q /\ ReduceWord(x, q) = x % q
<1>. DEFINE f == BarrettFactor(1, WordBits, q)
            e == MulHi(x, f)
            z == Minus(x, MulLo(e, q))
<1>1. /\ q \in Nat \ {0} /\ q \in WordSet /\ 4 * q <= Word /\ 1 \in 0..(q - 1)
      /\ x \in Nat /\ x \in 0..(Word - 1) /\ Word \in Nat \ {0}
  BY ModulusFacts DEF WordSet
<1>2. /\ e \in WordSet /\ e \in Nat
      /\ x - q * e \in 0..(2 * q - 1) /\ x - q * e \in 0..(Word - 1)
  <2>1. x * 1 = x
    BY <1>1
  <2>. QED
    BY <1>1, <2>1, ShoupWord
<1>. HIDE DEF e
<1>3. z = x - q * e
  <2>1. Minus(x % Word, MulLo(e, q)) = x - q * e
    BY <1>1, <1>2, WordRemainder
  <2>2. x % Word = x
    BY <1>1, SmallRemainder
  <2>. QED
    BY <2>1, <2>2
<1>. HIDE DEF z
<1>4. z \in 0..(2 * q - 1) /\ z % q = x % q
  BY <1>1, <1>2, <1>3, Residue
<1>5. ReduceOnce(z, q) = x % q /\ ReduceOnceMin(z, q) = x % q
  BY <1>1, <1>4, ReduceOnceIsExact, ReduceOnceMinIsExact
<1>6. BarrettReduce(x, q, f) = x % q /\ ReduceWord(x, q) = x % q
  BY <1>5 DEF BarrettReduce, ReduceWord, z, e
<1>7. ReduceNative(x, q) = x % q
  <2>1. CASE x >= q
    BY <1>6, <2>1 DEF ReduceNative
  <2>2. CASE x < q
    <3>1. x \in 0..(q - 1)
      BY <1>1, <2>2
    <3>. QED
      BY <1>1, <2>2, <3>1, SmallRemainder DEF ReduceNative
  <2>. QED
    BY <1>1, <2>1, <2>2
<1>. QED
  BY <1>6, <1>7

\* Products by a scalar plus a summand are exact, native and in plain lanes.
LEMMA ScaledSumIsExact ==
    ASSUME NEW q \in 4..(Word \div 4), NEW x \in 0..(q - 1), NEW y \in 0..(q - 1),
           NEW z \in 0..(q - 1)
    PROVE  /\ FmaNative(x, y, z, q) = (((x * y) % q) + z) % q
           /\ FmaVector("dq", x, y, z, q) = (((x * y) % q) + z) % q
<1>. DEFINE f == BarrettFactor(y, WordBits, q)
            e == MulHi(x, f)
            p == x * y
            lazy == p - q * e
<1>1. /\ q \in Nat \ {0} /\ q \in WordSet /\ Word - q \in WordSet /\ 4 * q <= Word
      /\ x \in Nat /\ x \in WordSet /\ y \in WordSet /\ y \in Nat /\ Word \in Nat \ {0}
  BY ModulusFacts DEF WordSet
<1>2. p \in Nat
  BY <1>1, Products
<1>3. e \in WordSet /\ e \in Nat /\ lazy \in 0..(2 * q - 1) /\ lazy \in 0..(Word - 1)
  BY <1>1, ShoupWord
<1>4. MulLo(y, x) = p % Word /\ MulLo(x, y) = p % Word
  <2>1. MulLo(y, x) = (y * x) % Word /\ MulLo(x, y) = (x * y) % Word
    BY <1>1, MulLoIsExact
  <2>2. y * x = x * y
    BY <1>1
  <2>. QED
    BY <2>1, <2>2
<1>. HIDE DEF e, p
<1>5. /\ Minus(p % Word, MulLo(e, q)) = lazy
      /\ Plus(p % Word, MulLo(e, Word - q)) = lazy
  BY <1>1, <1>2, <1>3, WordRemainder
<1>6. lazy % q = p % q
  BY <1>1, <1>2, <1>3, Residue
<1>. HIDE DEF lazy
<1>7. FmaNative(x, y, z, q) = ((p % q) + z) % q
  <2>1. MultiplyLazy(x, y, f, q) = lazy
    BY <1>4, <1>5 DEF MultiplyLazy, e
  <2>2. ReduceOnce(lazy, q) = p % q
    BY <1>1, <1>3, <1>6, ReduceOnceIsExact
  <2>3. MultiplyPrecon(x, y, f, q) = p % q
    BY <2>1, <2>2 DEF MultiplyPrecon
  <2>4. p % q \in 0..(q - 1)
    BY <1>1, <1>2, Division
  <2>5. AddMod(p % q, z, q) = ((p % q) + z) % q
    <3>. DEFINE r == p % q
    <3>1. r \in 0..(q - 1)
      BY <2>4
    <3>. HIDE DEF r
    <3>2. AddMod(r, z, q) = (r + z) % q
      BY <3>1, SumIsExact DEF AddMod, AddElement
    <3>. QED
      BY <3>2 DEF r
  <2>. QED
    BY <2>3, <2>5 DEF FmaNative
<1>8. FmaVector("dq", x, y, z, q) = ((p % q) + z) % q
  <2>1. lazy + z \in 0..(4 * q - 1) /\ lazy + z \in 0..(Word - 1)
    BY <1>1, <1>3
  <2>2. Plus(lazy, z) = lazy + z
    BY <1>1, <2>1, SmallRemainder DEF Plus
  <2>3. ReduceTwiceMin(lazy + z, q) = (lazy + z) % q
    BY <2>1, ReduceTwiceMinIsExact
  <2>4. FmaVector("dq", x, y, z, q) = ReduceTwiceMin(Plus(lazy, z), q)
    BY <1>4, <1>5 DEF FmaVector, e
  <2>5. (lazy + z) % q = ((lazy % q) + z) % q
    <3>1. lazy \in Int /\ z \in Int /\ q \in Nat \ {0}
      BY <1>1, <1>3
    <3>. QED
      BY <3>1, SumRemainder
  <2>. QED
    BY <1>6, <2>2, <2>3, <2>4, <2>5
<1>. QED
  BY <1>7, <1>8 DEF p

\* The double word of a product, shifted right, is the shifted product; within
\* half the words for moduli up to an eighth of them.
LEMMA WordShift ==
    ASSUME NEW q \in 4..(Word \div 4), NEW x \in 0..(q - 1), NEW y \in 0..(q - 1)
    PROVE  LET h == 2^ProdRightShift(q)
               c == QuotientWord(x, y, q)
           IN /\ c \in WordSet
              /\ x * y - h * c \in 0..(h - 1)
              /\ q <= Word \div 8 => 2 * c <= Word
<1>. DEFINE p == ProdRightShift(q)
            h == 2^p
            g == 2^(WordBits - p)
            m == x * y
            hi == m \div Word  lo == m % Word
            l1 == lo \div h  t == lo % h
            c == g * hi + l1
<1>1. /\ q \in Nat \ {0} /\ 4 * q <= Word /\ x \in Nat /\ y \in Nat /\ Word \in Nat \ {0}
      /\ x \in WordSet /\ y \in WordSet /\ q \in 4..(Word - 1)
  BY ModulusFacts
<1>2. p \in 1..(WordBits - 2) /\ h \in Nat \ {0} /\ 2 * h <= q /\ q < 4 * h
  BY <1>1, ShiftFacts
<1>3. g \in Nat \ {0} /\ Word = h * g
  <2>1. p \in 0..WordBits /\ WordBits - p \in 0..(WordBits - p) /\ WordBits - p \in 0..WordBits
        /\ p + (WordBits - p) = WordBits
    BY <1>2, WordFacts
  <2>2. 2^(p + (WordBits - p)) = 2^p * 2^(WordBits - p)
    BY <2>1, PowersAssumption
  <2>. QED
    BY <2>1, <2>2, PowersAssumption DEF Word
<1>4. QuotientWord(x, y, q) = Plus(l1, (hi * g) % Word)
  BY <1>1, MulLoIsExact, MulHiIsExact DEF QuotientWord, ShiftedRight
<1>5. m \in Nat
  BY <1>1, Products
<1>6. m < q * q
  <2>1. x * y <= (q - 1) * y /\ (q - 1) * y <= (q - 1) * (q - 1)
    BY <1>1, Scaled
  <2>2. (q - 1) * (q - 1) < q * q
    BY <1>1
  <2>3. (q - 1) * y \in Int /\ (q - 1) * (q - 1) \in Int /\ q * q \in Int
    BY <1>1
  <2>. QED
    BY <1>5, <2>1, <2>2, <2>3
<1>. HIDE DEF p, h, g, m
<1>7. hi \in Nat /\ lo \in Nat /\ m = Word * hi + lo
  BY <1>1, <1>5, Division
<1>. HIDE DEF hi, lo
<1>8. l1 \in Nat /\ t \in 0..(h - 1) /\ lo = h * l1 + t
  BY <1>2, <1>7, Division
<1>. HIDE DEF l1, t
<1>9. c \in Nat /\ g * hi \in Nat /\ h * c \in Nat
  BY <1>2, <1>3, <1>7, <1>8, Products
<1>10. m = h * c + t
  <2>1. Word * hi = h * (g * hi)
    BY <1>2, <1>3, <1>7
  <2>2. h * c = h * (g * hi) + h * l1
    BY <1>2, <1>8, <1>9
  <2>. QED
    BY <1>2, <1>7, <1>8, <1>9, <2>1, <2>2
<1>11. h * c <= m
  BY <1>8, <1>9, <1>10
<1>12. c < Word
  <2>1. 4 * (q * q) <= q * Word
    BY <1>1
  <2>2. q * Word <= (4 * h) * Word
    BY <1>1, <1>2, Scaled
  <2>3. q * q \in Nat /\ q * Word \in Nat /\ h * Word \in Nat /\ (4 * h) * Word = 4 * (h * Word)
    BY <1>1, <1>2, Products
  <2>4. h * c < h * Word
    BY <1>5, <1>6, <1>9, <1>11, <2>1, <2>2, <2>3
  <2>. QED
    BY <1>1, <1>2, <1>9, <2>4, Below
<1>13. ASSUME q <= Word \div 8
       PROVE  2 * c <= Word
  <2>1. 8 * q <= Word
    BY <1>1, <1>13
  <2>2. 8 * (q * q) <= q * Word
    BY <1>1, <2>1
  <2>3. q * Word <= (4 * h) * Word
    BY <1>1, <1>2, Scaled
  <2>4. q * q \in Nat /\ q * Word \in Nat /\ h * Word \in Nat /\ (4 * h) * Word = 4 * (h * Word)
    BY <1>1, <1>2, Products
  <2>5. 2 * (h * c) < h * Word
    BY <1>5, <1>6, <1>9, <1>11, <2>2, <2>3, <2>4
  <2>6. h * (2 * c) < h * Word
    BY <1>2, <1>9, <2>5
  <2>. QED
    BY <1>1, <1>2, <1>9, <2>6, Below
<1>14. Plus(l1, (hi * g) % Word) = c
  <2>1. hi * g = g * hi
    BY <1>3, <1>7
  <2>2. g * hi \in 0..(Word - 1)
    BY <1>1, <1>8, <1>9, <1>12
  <2>3. (hi * g) % Word = g * hi
    BY <1>1, <2>1, <2>2, SmallRemainder
  <2>4. l1 + g * hi = c /\ c \in 0..(Word - 1)
    BY <1>1, <1>8, <1>9, <1>12
  <2>. QED
    BY <1>1, <2>3, <2>4, SmallRemainder DEF Plus
<1>. HIDE DEF c
<1>15. c \in WordSet
  BY <1>1, <1>9, <1>12 DEF WordSet
<1>16. m - h * c \in 0..(h - 1)
  BY <1>5, <1>8, <1>9, <1>10
<1>. QED
  BY <1>4, <1>13, <1>14, <1>15, <1>16 DEF p, h, m

\* The rounded reciprocal that estimates of quotients by q multiply with.
LEMMA ShiftedFactor ==
    ASSUME NEW q \in 4..(Word - 1), NEW bits \in 0..WordBits
    PROVE  LET h == 2^ProdRightShift(q)
               f == BarrettFactor(2^(CeilLog(q) - 2), bits, q)
               N == 2^bits
           IN /\ f \in Nat /\ f < N
              /\ N \in Nat \ {0}
              /\ h * N - q * f \in 0..(q - 1)
<1>. DEFINE h == 2^ProdRightShift(q)
            f == BarrettFactor(h, bits, q)
            N == 2^bits
            r == (h * N) % q
<1>1. /\ h \in Nat \ {0} /\ 2 * h <= q /\ q \in Nat \ {0}
      /\ CeilLog(q) - 2 = ProdRightShift(q)
  BY ShiftFacts, WordFacts
<1>2. N \in Nat \ {0}
  BY PowersAssumption
<1>. HIDE DEF h
<1>3. f = (h * N) \div q
  BY <1>1, FactorIsQuotient
<1>. HIDE DEF N, f
<1>4. h * N \in Nat
  BY <1>1, <1>2, Products
<1>5. f \in Nat /\ r \in 0..(q - 1) /\ h * N = q * f + r
  BY <1>1, <1>3, <1>4, Division
<1>. HIDE DEF r
<1>6. q * f \in Nat /\ q * N \in Nat
  BY <1>1, <1>2, <1>5, Products
<1>7. h * N < q * N
  <2>1. h < q
    BY <1>1
  <2>. QED
    BY <1>1, <1>2, <2>1
<1>8. q * f < q * N
  BY <1>4, <1>5, <1>6, <1>7
<1>9. f < N
  BY <1>1, <1>2, <1>5, <1>8, Below
<1>10. h * N - q * f \in 0..(q - 1)
  BY <1>4, <1>5, <1>6
<1>. QED
  BY <1>1, <1>2, <1>5, <1>9, <1>10 DEF h, f, N

\* The estimate e of the quotient of m from its leading bits, as the difference
\* with a rest of the product of the two factors.
LEMMA QuotientEstimate ==
    ASSUME NEW q \in 4..(Word - 1), NEW bits \in 0..WordBits,
           NEW m \in Nat, NEW c \in Nat, c <= 2^bits,
           m - 2^ProdRightShift(q) * c \in 0..(2^ProdRightShift(q) - 1),
           NEW e \in Nat,
           c * BarrettFactor(2^(CeilLog(q) - 2), bits, q) - 2^bits * e \in 0..(2^bits - 1)
    PROVE  /\ m - q * e \in 0..(3 * q - 1)
           /\ 2 * c <= 2^bits => m - q * e \in 0..(2 * q - 1)
<1>. DEFINE h == 2^ProdRightShift(q)
            f == BarrettFactor(2^(CeilLog(q) - 2), bits, q)
            N == 2^bits
            t == m - h * c
            r == h * N - q * f
            s == c * f - N * e
<1>1. h \in Nat \ {0} /\ 2 * h <= q /\ q \in Nat \ {0}
  BY ShiftFacts, WordFacts
<1>2. f \in Nat /\ f < N /\ N \in Nat \ {0} /\ r \in 0..(q - 1)
  BY ShiftedFactor
<1>3. c <= N /\ t \in 0..(h - 1) /\ s \in 0..(N - 1)
  OBVIOUS
<1>. HIDE DEF h, f, N
<1>4. m = h * c + t /\ h * N = q * f + r /\ c * f = N * e + s
  BY <1>1, <1>2
<1>. HIDE DEF t, r, s
<1>5. q * e <= m /\ m - q * e < 3 * q /\ (2 * c <= N => m - q * e < 2 * q)
  BY <1>1, <1>2, <1>3, <1>4, ShiftedReciprocal
<1>6. q * e \in Nat
  BY <1>1, Products
<1>7. m - q * e \in 0..(3 * q - 1) /\ (2 * c <= N => m - q * e \in 0..(2 * q - 1))
  BY <1>1, <1>5, <1>6
<1>. QED
  BY <1>7 DEF N

\* Products are exact: the native ones, with one subtraction, for moduli up to an
\* eighth of the words, those of the vector form, with two, up to a quarter.
LEMMA ProductIsExact ==
    ASSUME NEW q \in 4..(Word \div 4), NEW x \in 0..(q - 1), NEW y \in 0..(q - 1)
    PROVE  /\ q <= Word \div 8 => MultNative(x, y, q) = (x * y) % q
           /\ MultVector(x, y, q) = (x * y) % q
<1>. DEFINE h == 2^ProdRightShift(q)
            c == QuotientWord(x, y, q)
            f == BarrLo(q)
            m == x * y
<1>1. /\ q \in Nat \ {0} /\ 4 * q <= Word /\ x \in Nat /\ y \in Nat /\ Word \in Nat \ {0}
      /\ x \in WordSet /\ y \in WordSet /\ q \in WordSet /\ q \in 4..(Word - 1)
  BY ModulusFacts
<1>2. m \in Nat
  BY <1>1, Products
<1>3. /\ c \in WordSet /\ m - h * c \in 0..(h - 1)
      /\ q <= Word \div 8 => 2 * c <= Word
  BY WordShift
<1>4. f = BarrettFactor(2^(CeilLog(q) - 2), WordBits, q)
  BY DEF BarrLo
<1>5. WordBits \in 0..WordBits /\ Word = 2^WordBits
  BY WordFacts DEF Word
<1>6. f \in WordSet
  BY <1>1, <1>4, <1>5, ShiftedFactor DEF WordSet
<1>7. c \in Nat /\ f \in Nat /\ c < Word /\ f < Word /\ c * f \in Nat
  <2>1. c \in Nat /\ f \in Nat /\ c < Word /\ f < Word
    BY <1>1, <1>3, <1>6 DEF WordSet
  <2>. QED
    BY <2>1, Products
<1>. HIDE DEF c, f, m
<1>8. MulLo(x, y) = m % Word
  BY <1>1, MulLoIsExact DEF m
<1>9. \A e \in Nat : c * f - Word * e \in 0..(Word - 1)
         => /\ m - q * e \in 0..(3 * q - 1)
            /\ 2 * c <= Word => m - q * e \in 0..(2 * q - 1)
  <2>. TAKE e \in Nat
  <2>. HAVE c * f - Word * e \in 0..(Word - 1)
  <2>1. c <= 2^WordBits
    BY <1>5, <1>7
  <2>2. c * BarrettFactor(2^(CeilLog(q) - 2), WordBits, q) - 2^WordBits * e
          \in 0..(2^WordBits - 1)
    BY <1>4, <1>5
  <2>3. /\ m - q * e \in 0..(3 * q - 1)
        /\ 2 * c <= 2^WordBits => m - q * e \in 0..(2 * q - 1)
    BY <1>1, <1>2, <1>3, <1>5, <1>7, <2>1, <2>2, QuotientEstimate
  <2>. QED
    BY <1>5, <2>3
<1>10. \A e \in Nat : c * f - Word * e \in 0..(2 * Word - 1) => e \in WordSet
  <2>. TAKE e \in Nat
  <2>. HAVE c * f - Word * e \in 0..(2 * Word - 1)
  <2>1. c * f <= Word * f /\ Word * f <= Word * (Word - 1)
    BY <1>1, <1>7, Scaled
  <2>2. Word * (Word - 1) < Word * Word
    BY <1>1
  <2>3. /\ Word * e \in Nat /\ Word * Word \in Nat /\ Word * f \in Nat
        /\ Word * (Word - 1) \in Int
    BY <1>1, <1>7, Products
  <2>4. Word * e < Word * Word
    BY <1>7, <2>1, <2>2, <2>3
  <2>5. e < Word
    BY <1>1, <2>4, Below
  <2>. QED
    BY <1>1, <2>5 DEF WordSet
<1>11. ASSUME q <= Word \div 8
       PROVE  MultNative(x, y, q) = m % q
  <2>. DEFINE e == MulHi(c, f)
  <2>1. e = (c * f) \div Word
    BY <1>3, <1>6, MulHiIsExact
  <2>. HIDE DEF e
  <2>2. e \in Nat /\ c * f - Word * e \in 0..(Word - 1)
    <3>1. /\ e \in Nat /\ (c * f) % Word \in 0..(Word - 1)
          /\ c * f = Word * e + ((c * f) % Word)
      BY <1>1, <1>7, <2>1, Division
    <3>2. Word * e \in Nat
      BY <1>1, <3>1, Products
    <3>. QED
      BY <1>7, <3>1, <3>2
  <2>3. m - q * e \in 0..(2 * q - 1)
    BY <1>3, <1>9, <1>11, <2>2
  <2>4. e \in WordSet
    <3>1. c * f - Word * e \in 0..(2 * Word - 1)
      BY <1>1, <2>2
    <3>. QED
      BY <1>10, <2>2, <3>1
  <2>5. m - q * e \in 0..(Word - 1)
    BY <1>1, <2>3
  <2>6. Minus(m % Word, MulLo(e, q)) = m - q * e
    BY <1>1, <1>2, <2>4, <2>5, WordRemainder
  <2>7. ReduceOnce(m - q * e, q) = (m - q * e) % q
    BY <1>1, <2>3, ReduceOnceIsExact
  <2>8. (m - q * e) % q = m % q
    BY <1>1, <1>2, <2>2, Residue
  <2>. QED
    BY <1>8, <2>6, <2>7, <2>8 DEF MultNative, e, c, f
<1>12. MultVector(x, y, q) = m % q
  <2>. DEFINE e == MulHiApprox(c, f)
  <2>1. PICK s \in 0..(2 * Word - 1) : e \in Nat /\ c * f = Word * e + s
    BY <1>3, <1>6, MulHiApproxIsClose
  <2>. HIDE DEF e
  <2>2. Word * e \in Nat
    BY <1>1, <2>1, Products
  <2>3. c * f - Word * e \in 0..(2 * Word - 1)
    BY <1>1, <1>7, <2>1, <2>2
  <2>4. e \in WordSet
    BY <1>10, <2>1, <2>3
  <2>5. m - q * e \in 0..(4 * q - 1)
    <3>1. CASE s < Word
      <4>1. c * f - Word * e \in 0..(Word - 1)
        BY <1>1, <1>7, <2>1, <2>2, <3>1
      <4>2. m - q * e \in 0..(3 * q - 1)
        BY <1>9, <2>1, <4>1
      <4>. QED
        BY <1>1, <4>2
    <3>2. CASE s >= Word
      <4>. DEFINE d == e + 1
      <4>1. d \in Nat /\ Word * d = Word * e + Word /\ q * d = q * e + q
        BY <1>1, <2>1
      <4>2. c * f - Word * d \in 0..(Word - 1)
        BY <1>1, <1>7, <2>1, <2>2, <3>2, <4>1
      <4>. HIDE DEF d
      <4>3. m - q * d \in 0..(3 * q - 1)
        BY <1>9, <4>1, <4>2
      <4>4. q * e \in Nat
        BY <1>1, <2>1, Products
      <4>. QED
        BY <1>1, <1>2, <4>1, <4>3, <4>4
    <3>. QED
      BY <1>1, <2>1, <3>1, <3>2
  <2>6. m - q * e \in 0..(Word - 1)
    BY <1>1, <2>5
  <2>7. Minus(m % Word, MulLo(e, q)) = m - q * e
    BY <1>1, <1>2, <2>4, <2>6, WordRemainder
  <2>8. ReduceTwiceMin(m - q * e, q) = (m - q * e) % q
    BY <1>1, <2>5, ReduceTwiceMinIsExact
  <2>9. (m - q * e) % q = m % q
    BY <1>1, <1>2, <2>1, Residue
  <2>. QED
    BY <1>8, <2>7, <2>8, <2>9 DEF MultVector, e, c, f
<1>. QED
  BY <1>11, <1>12 DEF m

-----------------------------------------------------------------------------
\* A modulus below half of the multiplier's range.
LEMMA IfmaModulus ==
    ASSUME NEW q \in 4..(Word \div 4), q < Ifma \div 2
    PROVE  /\ q \in Nat \ {0} /\ Ifma \in Nat \ {0} /\ Word \in Nat \ {0}
           /\ 2 * q < Ifma /\ Ifma <= Word /\ 4 * q <= Word
           /\ IfmaBits \in 0..WordBits /\ Ifma = 2^IfmaBits
           /\ 0..(Ifma - 1) \subseteq 0..(Word - 1)
<1>1. /\ q \in Nat \ {0} /\ 4 * q <= Word /\ Word \in Nat \ {0} /\ Ifma \in Nat \ {0}
      /\ Ifma <= Word /\ IfmaBits \in 0..WordBits
  BY ModulusFacts, WordFacts, IfmaDivides
<1>. QED
  BY <1>1 DEF Ifma

\* Wrapping to the words first changes nothing within the range.
LEMMA WrapWithin ==
    ASSUME NEW n \in Int
    PROVE  (n % Word) % Ifma = n % Ifma
<1>. DEFINE g == 2^(WordBits - IfmaBits)  k == n \div Word  r == n % Word  v == g * k
<1>1. g \in Nat \ {0} /\ Word = Ifma * g /\ Word \in Nat \ {0} /\ Ifma \in Nat \ {0}
  BY IfmaDivides, WordFacts
<1>2. k \in Int /\ r \in Int /\ n = Word * k + r
  <2>1. Word \in Nat \ {0}
    BY <1>1
  <2>. QED
    BY <2>1
<1>. HIDE DEF g, k, r
<1>3. v \in Int /\ n = r + Ifma * v
  BY <1>1, <1>2
<1>. HIDE DEF v
<1>4. (r + Ifma * v) % Ifma = r % Ifma
  BY <1>1, <1>2, <1>3, WrapTimes
<1>. QED
  BY <1>3, <1>4 DEF r

\* The remainder that an estimate e of the quotient of m leaves, as the fused
\* multiply-add computes it.
LEMMA IfmaRemainder ==
    ASSUME NEW q \in 4..(Word \div 4), q < Ifma \div 2,
           NEW m \in Nat, NEW e \in 0..(Ifma - 1), m - q * e \in 0..(Ifma - 1)
    PROVE  MulAddLoIfma(m % Ifma, e, Word - q) = m - q * e
<1>. DEFINE g == 2^(WordBits - IfmaBits)
            w == Word - q
            a == q * e  b == e * w  k == g * e
            r == m % Ifma
<1>1. /\ g \in Nat \ {0} /\ Word = Ifma * g /\ Word \in Nat \ {0} /\ Ifma \in Nat \ {0}
      /\ q \in Nat /\ e \in Nat /\ w \in Nat
  BY IfmaDivides, IfmaModulus
<1>. HIDE DEF g
<1>2. a \in Int /\ b \in Int /\ k \in Int /\ b = Ifma * k - a
  BY <1>1
<1>3. e % Ifma = e
  BY <1>1, SmallRemainder
<1>4. (e * (w % Ifma)) % Ifma = b % Ifma
  <2>1. e \in Int /\ w \in Int
    BY <1>1
  <2>. HIDE DEF w
  <2>. QED
    BY <1>1, <2>1, FactorRemainder
<1>. HIDE DEF w
<1>5. MulAddLoIfma(r, e, w) = Plus(r, b % Ifma) % Ifma
  BY <1>3, <1>4 DEF MulAddLoIfma, MaddLoIfma
<1>6. m \in Int /\ m - a \in 0..(Ifma - 1)
  OBVIOUS
<1>. HIDE DEF a, b, k
<1>7. (r + (b % Ifma)) % Ifma = m - a
  <2>1. /\ Ifma \in Nat \ {0} /\ m \in Int /\ a \in Int /\ b \in Int /\ k \in Int
        /\ b = Ifma * k - a /\ m - a \in 0..(Ifma - 1)
    BY <1>1, <1>2, <1>6
  <2>. QED
    BY <2>1, MinusNegated
<1>8. r + (b % Ifma) \in Int
  BY <1>1, <1>2
<1>. HIDE DEF r
<1>9. ((r + (b % Ifma)) % Word) % Ifma = (r + (b % Ifma)) % Ifma
  BY <1>8, WrapWithin
<1>. QED
  BY <1>5, <1>7, <1>9 DEF Plus, a, r, w

\* The 52-bit reduction of a word within the multiplier's range is exact.
LEMMA NarrowResidueIsExact ==
    ASSUME NEW q \in 4..(Word \div 4), q < Ifma \div 2, NEW x \in 0..(Ifma - 1)
    PROVE  ReduceNarrow(x, q) = x % q
<1>. DEFINE f == BarrettFactor(1, IfmaBits, q)
            e == (x * f) \div Ifma
<1>1. /\ q \in Nat \ {0} /\ Ifma \in Nat \ {0} /\ Word \in Nat \ {0}
      /\ 2 * q < Ifma /\ Ifma <= Word /\ 4 * q <= Word /\ 2 * q <= Word
      /\ IfmaBits \in 0..WordBits /\ Ifma = 2^IfmaBits
      /\ 1 \in 0..(q - 1) /\ x \in Nat /\ x * 1 = x
      /\ q \in 0..(Ifma - 1)
  BY IfmaModulus
<1>2. /\ f \in 0..(Ifma - 1) /\ e \in 0..(Ifma - 1)
      /\ q * e <= x /\ x - q * e < 2 * q
  BY <1>1, ShoupQuotient
<1>. HIDE DEF f
<1>3. MulHiIfma(x, f) = e
  BY <1>1, <1>2, SmallRemainder DEF MulHiIfma
<1>. HIDE DEF e
<1>4. e \in Nat /\ q * e \in Nat /\ q * e = e * q /\ q * e \in 0..(Ifma - 1)
  <2>1. e \in Nat
    BY <1>1, <1>2
  <2>2. q * e \in Nat /\ q * e = e * q
    BY <1>1, <2>1
  <2>. QED
    BY <1>1, <1>2, <2>1, <2>2
<1>5. MulLoIfma(e, q) = q * e
  <2>1. e % Ifma = e /\ q % Ifma = q
    BY <1>1, <1>2, SmallRemainder
  <2>2. (e * q) % Ifma = q * e
    BY <1>1, <1>4, SmallRemainder
  <2>3. 0 + q * e = q * e /\ q * e \in 0..(Word - 1)
    BY <1>1, <1>4
  <2>4. (q * e) % Word = q * e
    BY <1>1, <2>3, SmallRemainder
  <2>. QED
    BY <2>1, <2>2, <2>3, <2>4 DEF MulLoIfma, MaddLoIfma, Plus
<1>. DEFINE a == q * e
<1>6. /\ a \in Nat /\ x - a \in 0..(2 * q - 1) /\ x - a \in 0..(Word - 1)
      /\ x \in 0..(Word - 1) /\ a \in 0..(Word - 1)
  BY <1>1, <1>2, <1>4
<1>7. (x - a) % q = x % q
  BY <1>1, <1>4, Residue
<1>. HIDE DEF a
<1>8. x % Word = x /\ a % Word = a
  BY <1>1, <1>6, SmallRemainder
<1>9. Minus(x, a) = x - a
  <2>1. Minus(x % Word, a % Word) = x - a
    BY <1>1, <1>6, MinusOfResidues
  <2>. QED
    BY <1>8, <2>1
<1>10. ReduceOnceMin(x - a, q) = (x - a) % q
  BY <1>1, <1>6, ReduceOnceMinIsExact
<1>. QED
  BY <1>3, <1>5, <1>7, <1>9, <1>10 DEF ReduceNarrow, a, f

\* Products by a scalar plus a summand are exact in the 52-bit lanes.
LEMMA IfmaScaledSumIsExact ==
    ASSUME NEW q \in 4..(Word \div 4), q < Ifma \div 2,
           NEW x \in 0..(q - 1), NEW y \in 0..(q - 1), NEW z \in 0..(q - 1)
    PROVE  FmaVector("ifma", x, y, z, q) = (((x * y) % q) + z) % q
<1>. DEFINE f == BarrettFactor(y, IfmaBits, q)
            e == (x * f) \div Ifma
            m == x * y
            lazy == m - q * e
<1>1. /\ q \in Nat \ {0} /\ Ifma \in Nat \ {0} /\ Word \in Nat \ {0}
      /\ 2 * q < Ifma /\ Ifma <= Word /\ 4 * q <= Word
      /\ IfmaBits \in 0..WordBits /\ Ifma = 2^IfmaBits
      /\ x \in Nat /\ y \in Nat /\ x \in 0..(Ifma - 1) /\ y \in 0..(Ifma - 1)
  BY IfmaModulus
<1>2. m \in Nat
  BY <1>1, Products
<1>3. /\ f \in 0..(Ifma - 1) /\ e \in 0..(Ifma - 1)
      /\ q * e <= m /\ m - q * e < 2 * q
  BY <1>1, ShoupQuotient
<1>. HIDE DEF f
<1>4. MulHiIfma(x, f) = e
  BY <1>1, <1>3, SmallRemainder DEF MulHiIfma
<1>. HIDE DEF e
<1>5. e \in Nat /\ q * e \in Nat
  <2>1. e \in Nat
    BY <1>1, <1>3
  <2>. QED
    BY <1>1, <2>1, Products
<1>6. MulLoIfma(x, y) = m % Ifma
  <2>1. x % Ifma = x /\ y % Ifma = y
    BY <1>1, SmallRemainder
  <2>. DEFINE r == m % Ifma
  <2>2. r \in 0..(Ifma - 1)
    BY <1>1, <1>2, Division
  <2>3. MulLoIfma(x, y) = Plus(0, r)
    BY <2>1 DEF MulLoIfma, MaddLoIfma
  <2>. HIDE DEF r
  <2>4. 0 + r = r /\ r \in 0..(Word - 1)
    BY <1>1, <2>2
  <2>5. Plus(0, r) = r
    BY <1>1, <2>4, SmallRemainder DEF Plus
  <2>. QED
    BY <2>3, <2>5 DEF r
<1>7. lazy \in 0..(2 * q - 1) /\ lazy \in 0..(Ifma - 1)
  BY <1>1, <1>2, <1>3, <1>5
<1>. HIDE DEF m
<1>8. MulAddLoIfma(m % Ifma, e, Word - q) = lazy
  BY <1>2, <1>3, <1>7, IfmaRemainder
<1>9. lazy % q = m % q
  BY <1>1, <1>2, <1>5, Residue
<1>. HIDE DEF lazy
<1>10. FmaVector("ifma", x, y, z, q) = ReduceTwiceMin(Plus(lazy, z), q)
  BY <1>4, <1>6, <1>8 DEF FmaVector, f
<1>11. lazy + z \in 0..(4 * q - 1) /\ lazy + z \in 0..(Word - 1)
  BY <1>1, <1>7
<1>12. Plus(lazy, z) = lazy + z
  BY <1>1, <1>11, SmallRemainder DEF Plus
<1>13. ReduceTwiceMin(lazy + z, q) = (lazy + z) % q
  BY <1>11, ReduceTwiceMinIsExact
<1>14. (lazy + z) % q = ((lazy % q) + z) % q
  <2>1. lazy \in Int /\ z \in Int /\ q \in Nat \ {0}
    BY <1>1, <1>7
  <2>. QED
    BY <2>1, SumRemainder
<1>. QED
  BY <1>9, <1>10, <1>12, <1>13, <1>14 DEF m
\* The bit shift of the wide quotient splits the multiplier's range.
LEMMA WideShift ==
    ASSUME NEW q \in 4..(Word \div 4), q < Ifma \div 2
    PROVE  /\ ProdRightShift(q) \in 1..(IfmaBits - 1)
           /\ 2^(IfmaBits - ProdRightShift(q)) \in Nat \ {0}
           /\ Ifma = 2^ProdRightShift(q) * 2^(IfmaBits - ProdRightShift(q))
           /\ 2^(CeilLog(q) - 3) \in Nat \ {0}
           /\ 2^ProdRightShift(q) = 2 * 2^(CeilLog(q) - 3)
<1>. DEFINE p == ProdRightShift(q)
<1>1. /\ q \in Nat /\ 2 * q < Ifma /\ IfmaBits \in 0..WordBits /\ Ifma = 2^IfmaBits
      /\ q \in 4..(Word - 1) /\ Ifma \in Nat \ {0} /\ WordBits \in Nat /\ IfmaBits \in Nat
  BY IfmaModulus, ModulusFacts, WordFacts
<1>2. /\ p \in 1..(WordBits - 2) /\ CeilLog(q) = p + 2
      /\ 2^p \in Nat \ {0} /\ 2 * 2^p <= q
  BY <1>1, ShiftFacts
<1>. HIDE DEF p
<1>3. p < IfmaBits
  <2>. SUFFICES ASSUME p >= IfmaBits PROVE FALSE
    BY <1>1, <1>2
  <2>. DEFINE d == p - IfmaBits
  <2>1. d \in 0..(WordBits - IfmaBits) /\ IfmaBits + d = p
    BY <1>1, <1>2
  <2>2. d \in 0..WordBits
    BY <1>1, <2>1
  <2>. HIDE DEF d
  <2>3. 2^(IfmaBits + d) = 2^IfmaBits * 2^d
    BY <1>1, <2>1, PowersAssumption
  <2>4. 2^d \in Nat \ {0}
    BY <2>2, PowersAssumption
  <2>. DEFINE g == 2^d
  <2>5. 2^p = Ifma * g /\ g \in Nat \ {0}
    BY <1>1, <2>1, <2>3, <2>4
  <2>. HIDE DEF g
  <2>6. Ifma * 1 <= Ifma * g
    BY <1>1, <2>5, Scaled
  <2>. DEFINE h == 2^p
  <2>7. h \in Nat /\ 2 * h <= q /\ Ifma <= h
    BY <1>1, <1>2, <2>5, <2>6
  <2>. QED
    BY <1>1, <2>7
<1>. DEFINE d == IfmaBits - p
<1>4. d \in 0..(WordBits - p) /\ d \in 0..WordBits /\ p + d = IfmaBits /\ p \in 0..WordBits
  BY <1>1, <1>2, <1>3
<1>. HIDE DEF d
<1>5. 2^(p + d) = 2^p * 2^d /\ 2^d \in Nat \ {0}
  BY <1>4, PowersAssumption
<1>. DEFINE k == p - 1
<1>6. k \in 0..(WordBits - 1) /\ 1 + k = p /\ k \in 0..WordBits /\ 1 \in 0..WordBits
  BY <1>1, <1>2
<1>7. CeilLog(q) - 3 = k
  BY <1>2
<1>. HIDE DEF k
<1>8. 2^(1 + k) = 2^1 * 2^k /\ 2^k \in Nat \ {0} /\ 2^1 = 2
  BY <1>6, PowersAssumption
<1>9. p \in 1..(IfmaBits - 1)
  BY <1>1, <1>2, <1>3
<1>. QED
  BY <1>1, <1>4, <1>5, <1>6, <1>7, <1>8, <1>9 DEF p, d

\* The wide quotient's first operand: the word shifted right, within half the
\* multiplier's range.
LEMMA WideOperand ==
    ASSUME NEW q \in 4..(Word \div 4), q < Ifma \div 2, NEW x \in ReducibleWords(q)
    PROVE  LET h == 2^ProdRightShift(q)
               c == ((x % Ifma) \div h)
                    + (((x \div Ifma) * 2^(IfmaBits - ProdRightShift(q))) % Word)
           IN /\ c \in Nat /\ 2 * c <= Ifma /\ c \in 0..(Ifma - 1)
              /\ x - h * c \in 0..(h - 1)
<1>. DEFINE h == 2^ProdRightShift(q)
            g == 2^(IfmaBits - ProdRightShift(q))
            t == 2^(CeilLog(q) - 3)
            a == x \div Ifma
            b == x % Ifma
            b1 == b \div h
            b0 == b % h
<1>1. /\ g \in Nat \ {0} /\ Ifma = h * g /\ t \in Nat \ {0} /\ h = 2 * t
      /\ h \in Nat \ {0} /\ Ifma \in Nat \ {0} /\ Ifma <= Word /\ Word \in Nat \ {0}
  BY WideShift, IfmaModulus
<1>2. x \in Nat /\ a < t
  BY WordFacts DEF ReducibleWords, WordSet
<1>3. a \in Nat /\ b \in 0..(Ifma - 1) /\ b \in Nat /\ x = Ifma * a + b
  BY <1>1, <1>2, Division
<1>. HIDE DEF a, b, t
<1>4. b1 \in Nat /\ b0 \in 0..(h - 1) /\ b0 \in Nat /\ b = h * b1 + b0
  BY <1>1, <1>3, Division
<1>. HIDE DEF b1, b0, h, g
<1>5. b1 < g
  <2>1. h * b1 \in Int /\ h * g \in Int
    BY <1>1, <1>4
  <2>2. h * b1 < h * g
    BY <1>1, <1>3, <1>4, <2>1
  <2>. QED
    BY <1>1, <1>4, <2>2, Below
<1>. DEFINE v == a * g
            u == t * g
<1>6. v \in Nat /\ u \in Nat /\ v + g <= u /\ Ifma = 2 * u
  <2>1. a + 1 \in Int /\ t \in Int /\ g \in Nat /\ a + 1 <= t
    BY <1>1, <1>2, <1>3
  <2>2. (a + 1) * g <= t * g
    BY <2>1, Scaled
  <2>3. (a + 1) * g = a * g + g /\ v \in Nat /\ u \in Nat
    BY <1>1, <1>3, Products
  <2>4. (2 * t) * g = 2 * (t * g)
    BY <1>1
  <2>. QED
    BY <1>1, <2>2, <2>3, <2>4
<1>7. h * v = Ifma * a
  BY <1>1, <1>3
<1>. HIDE DEF v, u
<1>8. v \in 0..(Word - 1)
  BY <1>1, <1>6
<1>9. v % Word = v
  BY <1>1, <1>8, SmallRemainder
<1>. DEFINE c == b1 + v
<1>10. c \in Nat /\ 2 * c <= Ifma /\ c \in 0..(Ifma - 1)
  BY <1>1, <1>4, <1>5, <1>6
<1>11. h * c = h * b1 + h * v
  BY <1>1, <1>4, <1>6
<1>12. x - h * c = b0
  BY <1>1, <1>3, <1>4, <1>6, <1>7, <1>11
<1>13. x - h * c \in 0..(h - 1)
  BY <1>4, <1>12
<1>. QED
  BY <1>9, <1>10, <1>13 DEF a, b, b1, h, g, v

\* The double-word quotient of the 52-bit form leaves the remainder.
LEMMA WideResidueIsExact ==
    ASSUME NEW q \in 4..(Word \div 4), q < Ifma \div 2, NEW x \in ReducibleWords(q)
    PROVE  ReduceByWide(x, q) = x % q
<1>. DEFINE h == 2^ProdRightShift(q)
            c == ((x % Ifma) \div h)
                 + (((x \div Ifma) * 2^(IfmaBits - ProdRightShift(q))) % Word)
            f == BarrettFactor(2^(CeilLog(q) - 2), IfmaBits, q)
            e == (c * f) \div Ifma
<1>1. /\ q \in Nat \ {0} /\ Ifma \in Nat \ {0} /\ 2 * q < Ifma
      /\ IfmaBits \in 0..WordBits /\ Ifma = 2^IfmaBits /\ q \in 4..(Word - 1)
      /\ 2 * q <= Word
  BY IfmaModulus, ModulusFacts
<1>2. x \in Nat
  BY WordFacts DEF ReducibleWords, WordSet
<1>3. /\ c \in Nat /\ 2 * c <= Ifma /\ c \in 0..(Ifma - 1) /\ c < Ifma
      /\ x - h * c \in 0..(h - 1)
  <2>1. c \in Nat /\ 2 * c <= Ifma /\ c \in 0..(Ifma - 1) /\ x - h * c \in 0..(h - 1)
    BY WideOperand
  <2>. HIDE DEF c, h
  <2>. QED
    BY <1>1, <2>1
<1>4. f \in Nat /\ f < Ifma /\ f \in 0..(Ifma - 1)
  <2>1. f \in Nat /\ f < Ifma
    BY <1>1, ShiftedFactor
  <2>. HIDE DEF f
  <2>. QED
    BY <1>1, <2>1
<1>. HIDE DEF c, f
<1>5. c * f \in Nat
  BY <1>3, <1>4, Products
<1>6. /\ e \in Nat /\ (c * f) % Ifma \in 0..(Ifma - 1)
      /\ c * f = Ifma * e + ((c * f) % Ifma)
  BY <1>1, <1>5, Division
<1>7. MulHiIfma(c, f) = e
  <2>1. c % Ifma = c /\ f % Ifma = f
    BY <1>1, <1>3, <1>4, SmallRemainder
  <2>. QED
    BY <2>1 DEF MulHiIfma
<1>. HIDE DEF e
<1>8. c * f - Ifma * e \in 0..(Ifma - 1)
  <2>1. Ifma * e \in Nat
    BY <1>1, <1>6, Products
  <2>. DEFINE r == (c * f) % Ifma
  <2>2. r \in 0..(Ifma - 1) /\ c * f = Ifma * e + r
    BY <1>6
  <2>. HIDE DEF r
  <2>. QED
    BY <1>1, <1>5, <2>1, <2>2
<1>9. e \in 0..(Ifma - 1)
  <2>1. c * f <= Ifma * f /\ f <= Ifma - 1
    BY <1>1, <1>3, <1>4, Scaled
  <2>2. Ifma * e \in Nat /\ Ifma * f \in Nat
    BY <1>1, <1>4, <1>6, Products
  <2>3. Ifma * e <= Ifma * f
    BY <1>1, <1>5, <1>8, <2>1, <2>2
  <2>4. e <= f
    BY <1>1, <1>4, <1>6, <2>3, AtMost
  <2>. QED
    BY <1>1, <1>4, <1>6, <2>4
<1>10. x - q * e \in 0..(2 * q - 1)
  <2>1. c <= 2^IfmaBits /\ 2 * c <= 2^IfmaBits
    BY <1>1, <1>3
  <2>2. c * BarrettFactor(2^(CeilLog(q) - 2), IfmaBits, q) - 2^IfmaBits * e
           \in 0..(2^IfmaBits - 1)
    BY <1>1, <1>8 DEF f
  <2>3. x - 2^ProdRightShift(q) * c \in 0..(2^ProdRightShift(q) - 1)
    BY <1>3
  <2>. HIDE DEF h
  <2>. QED
    BY <1>1, <1>2, <1>3, <1>6, <2>1, <2>2, <2>3, QuotientEstimate
<1>11. x - q * e \in 0..(Ifma - 1)
  <2>. DEFINE w == x - q * e
  <2>1. w \in 0..(2 * q - 1)
    BY <1>10
  <2>. HIDE DEF w
  <2>2. w \in 0..(Ifma - 1)
    BY <1>1, <2>1
  <2>. QED
    BY <2>2 DEF w
<1>12. MulAddLoIfma(x % Ifma, e, Word - q) = x - q * e
  BY <1>2, <1>9, <1>11, IfmaRemainder
<1>13. ReduceOnceMin(x - q * e, q) = (x - q * e) % q
  BY <1>1, <1>10, ReduceOnceMinIsExact
<1>14. (x - q * e) % q = x % q
  BY <1>1, <1>2, <1>6, Residue
<1>15. ReduceByWide(x, q) = ReduceOnceMin(MulAddLoIfma(x % Ifma, MulHiIfma(c, f), Word - q), q)
  BY DEF ReduceByWide, c, f, h
<1>. QED
  BY <1>7, <1>12, <1>13, <1>14, <1>15
-----------------------------------------------------------------------------
(***************************************************************************)
(* The invariant. A request keeps operands its operation may be given, and *)
(* the 52-bit lanes only under a modulus they have room for; the elements  *)
(* left over once the head is done fill whole vectors, so that no step     *)
(* reaches beyond the result; and what is computed is exact.               *)
(***************************************************************************)
RequestServed ==
    /\ request.op \in Ops /\ request.q \in ElementModuli /\ request.n \in Nat
    /\ request.path = "ifma" => request.op \in {"reduce", "fma"} /\ request.q < Ifma \div 2
    /\ request.path \in {"native", "dq", "ifma"}
    /\ request.element \in Operands(request.op, request.q)
    /\ request.neighbour \in Operands(request.op, request.q)
    /\ request.scalar \in 0..(request.q - 1)

VectorsFit ==
    /\ next \in Nat /\ next <= request.n
    /\ next >= HeadLength => (request.n - next) % Lanes = 0
    /\ DOMAIN result = 0..(request.n - 1)

ElementsInv == RequestServed /\ VectorsFit /\ ElementsAreExact

\* Both operands of every element are operands of the request's operation.
LEMMA OperandsServed ==
    ASSUME RequestServed, NEW i
    PROVE  /\ OperandsAt(i) \in Operands(request.op, request.q)
           /\ request.q \in 4..(Word \div 4)
BY ElementsAssumption DEF RequestServed, OperandsAt

\* What an operation may be given, by the operation.
LEMMA OperandsAre ==
    ASSUME NEW op \in Ops, NEW q \in 4..(Word \div 4), NEW e \in Operands(op, q)
    PROVE  /\ op = "reduce" => e[1] \in ReducibleWords(q) /\ e[1] \in WordSet
           /\ op # "reduce" => /\ e[1] \in 0..(q - 1) /\ e[2] \in 0..(q - 1)
                               /\ e[3] \in 0..(q - 1)
                               /\ e[1] \in Nat /\ e[2] \in WordSet
           /\ e[2] \in 0..(q - 1)
<1>1. q \in Nat /\ q > 0 /\ 0..(q - 1) \subseteq WordSet
  BY ModulusFacts
<1>2. CASE op = "reduce"
  <2>1. e \in ReducibleWords(q) \X {0} \X {0}
    BY <1>2 DEF Operands
  <2>2. e[1] \in ReducibleWords(q) /\ e[2] = 0
    BY <2>1
  <2>. QED
    BY <1>1, <1>2, <2>2 DEF ReducibleWords
<1>3. CASE op # "reduce"
  <2>1. e \in (0..(q - 1)) \X (0..(q - 1)) \X (0..(q - 1))
    BY <1>3 DEF Operands
  <2>2. e[1] \in 0..(q - 1) /\ e[2] \in 0..(q - 1) /\ e[3] \in 0..(q - 1)
    BY <2>1
  <2>3. e[1] \in Nat /\ e[2] \in WordSet
    BY <1>1, <2>2
  <2>. QED
    BY <1>3, <2>2, <2>3
<1>. QED
  BY <1>2, <1>3

\* The product by halves is the product, so that the reference definition says
\* what it means.
LEMMA ExactIs ==
    ASSUME NEW q \in 4..(Word \div 4), NEW x \in 0..(q - 1), NEW y \in 0..(q - 1)
    PROVE  TrueProduct(x, y, q) = (x * y) % q
<1>1. q \in Nat \ {0} /\ x \in Nat /\ y \in WordSet
  BY ModulusFacts
<1>. QED
  BY <1>1, TrueProductIs

\* The native code is exact on one element.
LEMMA NativeIsExact ==
    ASSUME RequestServed, NEW e \in Operands(request.op, request.q),
           request.op = "mult" => request.q <= Word \div 8
    PROVE  NativeElement(request.op, e, request.q)
             = Exact(request.op, e, request.scalar, request.q)
<1>. DEFINE op == request.op  q == request.q  s == request.scalar
<1>1. op \in Ops /\ q \in 4..(Word \div 4) /\ s \in 0..(q - 1)
  BY OperandsServed DEF RequestServed
<1>2. /\ op = "reduce" => e[1] \in WordSet
      /\ op # "reduce" => e[1] \in 0..(q - 1) /\ e[2] \in 0..(q - 1) /\ e[3] \in 0..(q - 1)
  BY <1>1, OperandsAre
<1>3. CASE op = "add"
  <2>1. AddElement("native", e[1], e[2], q) = (e[1] + e[2]) % q
    BY <1>1, <1>2, <1>3, SumIsExact
  <2>. QED
    BY <1>3, <2>1 DEF NativeElement, Exact
<1>4. CASE op = "sub"
  <2>1. SubElement("native", e[1], e[2], q) = (e[1] + (q - e[2])) % q
    BY <1>1, <1>2, <1>4, DifferenceIsExact
  <2>. QED
    BY <1>4, <2>1 DEF NativeElement, Exact
<1>5. CASE op = "reduce"
  <2>1. ReduceNative(e[1], q) = e[1] % q
    BY <1>1, <1>2, <1>5, WordResidueIsExact
  <2>. QED
    BY <1>5, <2>1 DEF NativeElement, Exact
<1>6. CASE op = "mult"
  <2>1. MultNative(e[1], e[2], q) = (e[1] * e[2]) % q
    BY <1>1, <1>2, <1>6, ProductIsExact
  <2>2. TrueProduct(e[1], e[2], q) = (e[1] * e[2]) % q
    BY <1>1, <1>2, <1>6, ExactIs
  <2>. QED
    BY <1>6, <2>1, <2>2 DEF NativeElement, Exact
<1>7. CASE op = "fma"
  <2>1. FmaNative(e[1], s, e[3], q) = (((e[1] * s) % q) + e[3]) % q
    BY <1>1, <1>2, <1>7, ScaledSumIsExact
  <2>2. TrueProduct(e[1], s, q) = (e[1] * s) % q
    BY <1>1, <1>2, <1>7, ExactIs
  <2>. QED
    BY <1>7, <2>1, <2>2 DEF NativeElement, Exact
<1>. QED
  BY <1>1, <1>3, <1>4, <1>5, <1>6, <1>7 DEF Ops

\* A vector's reductions, whichever branch its lanes take together.
LEMMA ReducedIsExact ==
    ASSUME RequestServed, request.op = "reduce", request.path # "native",
           NEW places, NEW i \in places
    PROVE  ReduceVector(request.path, [j \in places |-> OperandsAt(j)[1]], request.q)[i]
             = OperandsAt(i)[1] % request.q
<1>. DEFINE q == request.q  v == [j \in places |-> OperandsAt(j)[1]]  x == OperandsAt(i)[1]
<1>1. q \in 4..(Word \div 4) /\ v[i] = x /\ i \in DOMAIN v
  BY OperandsServed
<1>2. x \in ReducibleWords(q) /\ x \in WordSet
  BY <1>1, OperandsServed, OperandsAre DEF RequestServed
<1>. HIDE DEF v
<1>3. ReduceVector(request.path, v, q)[i]
        = IF request.path # "ifma" THEN ReduceWord(x, q)
          ELSE IF IsWide(v) THEN ReduceByWide(x, q) ELSE ReduceNarrow(x, q)
  BY <1>1 DEF ReduceVector
<1>. HIDE DEF x
<1>4. CASE request.path # "ifma"
  BY <1>1, <1>2, <1>3, <1>4, WordResidueIsExact DEF v, x
<1>5. CASE request.path = "ifma" /\ IsWide(v)
  <2>1. q < Ifma \div 2
    BY <1>5 DEF RequestServed
  <2>. QED
    BY <1>1, <1>2, <1>3, <1>5, <2>1, WideResidueIsExact DEF v, x
<1>6. CASE request.path = "ifma" /\ ~IsWide(v)
  <2>1. q < Ifma \div 2
    BY <1>6 DEF RequestServed
  <2>2. ~(x >= Ifma \div 2)
    BY <1>1, <1>6 DEF IsWide
  <2>3. x \in 0..(Ifma - 1)
    BY <1>2, <2>2, WordFacts DEF WordSet
  <2>. QED
    BY <1>1, <1>3, <1>6, <2>1, <2>3, NarrowResidueIsExact DEF v, x
<1>. QED
  BY <1>4, <1>5, <1>6

\* The vector code is exact on each of its elements.
LEMMA VectorIsExact ==
    ASSUME RequestServed, request.path # "native", NEW places, NEW i \in places
    PROVE  VectorElements(request.op, request.path, places, request.q)[i]
             = Exact(request.op, OperandsAt(i), request.scalar, request.q)
<1>. DEFINE op == request.op  q == request.q  s == request.scalar  e == OperandsAt(i)
<1>1. op \in Ops /\ q \in 4..(Word \div 4) /\ s \in 0..(q - 1) /\ e \in Operands(op, q)
  BY OperandsServed DEF RequestServed
<1>2. op # "reduce" => e[1] \in 0..(q - 1) /\ e[2] \in 0..(q - 1) /\ e[3] \in 0..(q - 1)
  BY <1>1, OperandsAre
<1>3. CASE op = "add"
  <2>1. AddElement(request.path, e[1], e[2], q) = (e[1] + e[2]) % q
    BY <1>1, <1>2, <1>3, SumIsExact
  <2>. QED
    BY <1>3, <2>1 DEF VectorElements, Exact
<1>4. CASE op = "sub"
  <2>1. SubElement(request.path, e[1], e[2], q) = (e[1] + (q - e[2])) % q
    BY <1>1, <1>2, <1>4, DifferenceIsExact
  <2>. QED
    BY <1>4, <2>1 DEF VectorElements, Exact
<1>5. CASE op = "reduce"
  <2>1. ReduceVector(request.path, [j \in places |-> OperandsAt(j)[1]], q)[i] = e[1] % q
    BY <1>5, ReducedIsExact
  <2>. QED
    BY <1>5, <2>1 DEF VectorElements, Exact
<1>6. CASE op = "mult"
  <2>1. MultVector(e[1], e[2], q) = (e[1] * e[2]) % q
    BY <1>1, <1>2, <1>6, ProductIsExact
  <2>2. TrueProduct(e[1], e[2], q) = (e[1] * e[2]) % q
    BY <1>1, <1>2, <1>6, ExactIs
  <2>. QED
    BY <1>6, <2>1, <2>2 DEF VectorElements, Exact
<1>7. CASE op = "fma"
  <2>1. FmaVector(request.path, e[1], s, e[3], q) = (((e[1] * s) % q) + e[3]) % q
    <3>1. CASE request.path = "ifma"
      <4>1. q < Ifma \div 2
        BY <3>1 DEF RequestServed
      <4>2. /\ q \in 4..(Word \div 4) /\ s \in 0..(q - 1)
            /\ e[1] \in 0..(q - 1) /\ e[3] \in 0..(q - 1)
        BY <1>1, <1>2, <1>7
      <4>. HIDE DEF e, q, s
      <4>3. FmaVector("ifma", e[1], s, e[3], q) = (((e[1] * s) % q) + e[3]) % q
        BY <4>1, <4>2, IfmaScaledSumIsExact
      <4>. QED
        BY <3>1, <4>3
    <3>2. CASE request.path = "dq"
      <4>1. /\ q \in 4..(Word \div 4) /\ s \in 0..(q - 1)
            /\ e[1] \in 0..(q - 1) /\ e[3] \in 0..(q - 1)
        BY <1>1, <1>2, <1>7
      <4>. HIDE DEF e, q, s
      <4>2. FmaVector("dq", e[1], s, e[3], q) = (((e[1] * s) % q) + e[3]) % q
        BY <4>1, ScaledSumIsExact
      <4>. QED
        BY <3>2, <4>2
    <3>. QED
      BY <3>1, <3>2 DEF RequestServed
  <2>2. TrueProduct(e[1], s, q) = (e[1] * s) % q
    BY <1>1, <1>2, <1>7, ExactIs
  <2>. QED
    BY <1>7, <2>1, <2>2 DEF VectorElements, Exact
<1>. QED
  BY <1>1, <1>3, <1>4, <1>5, <1>6, <1>7 DEF Ops
-----------------------------------------------------------------------------
\* A request keeps what it was made with.
LEMMA RequestStays ==
    ASSUME RequestServed, UNCHANGED request
    PROVE  RequestServed'
BY DEF RequestServed

\* The operands, the head and what is exact depend on the request alone.
LEMMA OperandsStay ==
    ASSUME UNCHANGED request, NEW i
    PROVE  /\ OperandsAt(i)' = OperandsAt(i) /\ HeadLength' = HeadLength
           /\ ExactAt(i)' <=> result'[i] = Exact(request.op, OperandsAt(i),
                                                 request.scalar, request.q)
BY DEF OperandsAt, HeadLength, ExactAt, Exact, TrueProduct

\* The elements the native code takes leave whole vectors behind them.
LEMMA HeadLeavesVectors ==
    ASSUME RequestServed
    PROVE  /\ HeadLength \in Nat /\ HeadLength <= request.n
           /\ (request.n - HeadLength) % Lanes = 0
<1>. DEFINE n == request.n  k == n \div Lanes  r == n % Lanes
<1>1. n \in Nat /\ Lanes \in Nat \ {0}
  BY ElementsAssumption DEF RequestServed
<1>2. CASE request.path = "native"
  <2>1. HeadLength = n /\ n - n = 0 /\ 0 \in 0..(Lanes - 1)
    BY <1>1, <1>2 DEF HeadLength
  <2>2. 0 % Lanes = 0
    BY <1>1, <2>1, SmallRemainder
  <2>. QED
    BY <1>1, <2>1, <2>2
<1>3. CASE request.path # "native"
  <2>1. HeadLength = r
    BY <1>3 DEF HeadLength
  <2>2. k \in Nat /\ r \in Nat /\ r \in 0..(Lanes - 1) /\ n = Lanes * k + r
    BY <1>1, Division
  <2>. HIDE DEF n, k, r
  <2>3. Lanes * k \in Nat
    BY <1>1, <2>2, Products
  <2>. DEFINE d == n - r
  <2>4. d \in Int /\ r <= n /\ d = Lanes * k + 0 /\ 0 \in 0..(Lanes - 1)
    BY <1>1, <2>2, <2>3
  <2>. HIDE DEF d
  <2>5. d % Lanes = 0
    BY <1>1, <2>2, <2>4, QuotientIs
  <2>. QED
    BY <2>1, <2>2, <2>4, <2>5 DEF n, d
<1>. QED
  BY <1>2, <1>3

\* A vector begun before the end lies within the result, and so does the rest.
LEMMA VectorsStayWithin ==
    ASSUME NEW m \in Nat \ {0}, m % Lanes = 0
    PROVE  m - Lanes \in Nat /\ (m - Lanes) % Lanes = 0
<1>. DEFINE k == m \div Lanes  d == m - Lanes
<1>1. Lanes \in Nat \ {0}
  BY ElementsAssumption
<1>2. k \in Nat /\ m = Lanes * k + 0
  BY <1>1, Division
<1>. HIDE DEF k
<1>3. k >= 1
  BY <1>1, <1>2
<1>4. Lanes * 1 <= Lanes * k
  BY <1>1, <1>2, <1>3, Scaled
<1>5. d \in Nat /\ d = Lanes * (k - 1) + 0 /\ k - 1 \in Int /\ 0 \in 0..(Lanes - 1)
  BY <1>1, <1>2, <1>4
<1>. HIDE DEF d
<1>6. d % Lanes = 0
  BY <1>1, <1>5, QuotientIs
<1>. QED
  BY <1>5, <1>6 DEF d

\* The first state of a call.
LEMMA ElementsBegin == EltwiseInit => ElementsInv
<1>. SUFFICES ASSUME EltwiseInit PROVE ElementsInv
  OBVIOUS
<1>0. PICK op \in Ops, q \in ElementModuli, machine \in {"native", "dq", "ifma"}, n \in Lengths :
         \E element \in Inputs(op, q), neighbour \in Neighbours(op, q), place \in 0..(n - 1) :
             request = [op |-> op, q |-> q, path |-> PathFor(op, q, machine), n |-> n,
                        place |-> place, element |-> element, neighbour |-> neighbour,
                        scalar |-> element[2]]
  BY DEF EltwiseInit
<1>1. PICK element \in Inputs(op, q), neighbour \in Neighbours(op, q), place \in 0..(n - 1) :
             request = [op |-> op, q |-> q, path |-> PathFor(op, q, machine), n |-> n,
                        place |-> place, element |-> element, neighbour |-> neighbour,
                        scalar |-> element[2]]
  BY <1>0
<1>2. n \in Nat /\ q \in 4..(Word \div 4)
  BY ElementsAssumption
<1>3. element \in Operands(op, q) /\ neighbour \in Operands(op, q)
  BY ElementsAssumption
<1>4. element[2] \in 0..(q - 1)
  BY <1>2, <1>3, OperandsAre
<1>5. /\ PathFor(op, q, machine) \in {"native", "dq", "ifma"}
      /\ PathFor(op, q, machine) = "ifma" => op \in {"reduce", "fma"} /\ q < Ifma \div 2
  BY DEF PathFor
<1>6. RequestServed
  BY <1>1, <1>2, <1>3, <1>4, <1>5 DEF RequestServed
<1>7. next = 0 /\ result = [i \in 0..(request.n - 1) |-> 0] /\ request.n \in Nat
  BY <1>1, <1>2 DEF EltwiseInit
<1>8. VectorsFit
  <2>1. next \in Nat /\ next <= request.n /\ DOMAIN result = 0..(request.n - 1)
    BY <1>7
  <2>2. ASSUME next >= HeadLength PROVE next = HeadLength
    BY <1>6, <1>7, <2>2, HeadLeavesVectors
  <2>. QED
    BY <1>6, <2>1, <2>2, HeadLeavesVectors DEF VectorsFit
<1>9. ElementsAreExact
  BY <1>7 DEF ElementsAreExact
<1>. QED
  BY <1>6, <1>8, <1>9 DEF ElementsInv

\* An element computed by the native code keeps the invariant.
LEMMA HeadKeepsElements == ElementsInv /\ HeadElement => ElementsInv'
<1>. SUFFICES ASSUME ElementsInv, HeadElement PROVE ElementsInv'
  OBVIOUS
<1>1. RequestServed /\ VectorsFit /\ ElementsAreExact /\ UNCHANGED request
  BY DEF ElementsInv, HeadElement
<1>2. RequestServed'
  BY <1>1, RequestStays
<1>3. HeadLength \in Nat /\ HeadLength <= request.n /\ (request.n - HeadLength) % Lanes = 0
  BY <1>1, HeadLeavesVectors
<1>4. /\ next \in Nat /\ next < HeadLength /\ next' = next + 1 /\ request' = request
      /\ request.n \in Nat /\ HeadLength' = HeadLength /\ next < request.n
  BY <1>1, <1>3, OperandsStay DEF VectorsFit, HeadElement, RequestServed
<1>5. /\ DOMAIN result = 0..(request.n - 1) /\ DOMAIN result' = DOMAIN result
      /\ result'[next] = NativeElement(request.op, OperandsAt(next), request.q)
      /\ \A i \in DOMAIN result : i # next => result'[i] = result[i]
  BY <1>1, <1>4 DEF VectorsFit, HeadElement
<1>6. VectorsFit'
  <2>1. next' \in Nat /\ next' <= request.n /\ DOMAIN result' = 0..(request.n - 1)
    BY <1>3, <1>4, <1>5
  <2>2. ASSUME next' >= HeadLength PROVE next' = HeadLength
    BY <1>3, <1>4, <2>2
  <2>. QED
    BY <1>3, <1>4, <2>1, <2>2 DEF VectorsFit
<1>7. ElementsAreExact'
  <2>. SUFFICES ASSUME NEW i \in 0..(next' - 1),
                       request.op = "mult" /\ i < HeadLength => request.q <= Word \div 8
                PROVE  ExactAt(i)'
    BY <1>4 DEF ElementsAreExact
  <2>1. CASE i = next
    <3>1. OperandsAt(i) \in Operands(request.op, request.q)
      BY <1>1, OperandsServed
    <3>2. request.op = "mult" => request.q <= Word \div 8
      BY <1>4, <2>1
    <3>3. result'[i] = Exact(request.op, OperandsAt(i), request.scalar, request.q)
      BY <1>1, <1>5, <2>1, <3>1, <3>2, NativeIsExact
    <3>. QED
      BY <1>1, <3>3, OperandsStay
  <2>2. CASE i # next
    <3>1. i \in 0..(next - 1) /\ i \in DOMAIN result
      BY <1>4, <1>5, <2>2
    <3>2. ExactAt(i)
      BY <1>1, <3>1 DEF ElementsAreExact
    <3>3. result'[i] = Exact(request.op, OperandsAt(i), request.scalar, request.q)
      BY <1>5, <2>2, <3>1, <3>2 DEF ExactAt
    <3>. QED
      BY <1>1, <3>3, OperandsStay
  <2>. QED
    BY <2>1, <2>2
<1>. QED
  BY <1>2, <1>6, <1>7 DEF ElementsInv

\* A vector of elements keeps the invariant.
LEMMA VectorKeepsElements == ElementsInv /\ VectorStep => ElementsInv'
<1>. SUFFICES ASSUME ElementsInv, VectorStep PROVE ElementsInv'
  OBVIOUS
<1>. DEFINE places == next..(next + Lanes - 1)
            lanes == VectorElements(request.op, request.path, places, request.q)
<1>1. RequestServed /\ VectorsFit /\ ElementsAreExact /\ UNCHANGED request
  BY DEF ElementsInv, VectorStep
<1>2. RequestServed'
  BY <1>1, RequestStays
<1>3. /\ next \in Nat /\ next >= HeadLength /\ next < request.n /\ request' = request
      /\ next' = next + Lanes /\ request.n \in Nat /\ HeadLength' = HeadLength
      /\ Lanes \in Nat \ {0} /\ HeadLength \in Nat
  BY <1>1, OperandsStay, HeadLeavesVectors, ElementsAssumption
     DEF VectorsFit, VectorStep, RequestServed
<1>4. /\ DOMAIN result = 0..(request.n - 1)
      /\ result' = [i \in DOMAIN result |-> IF i \in places THEN lanes[i] ELSE result[i]]
  BY <1>1 DEF VectorsFit, VectorStep
<1>. HIDE DEF lanes
<1>5. request.path # "native"
  BY <1>3 DEF HeadLength
<1>6. (request.n - next) - Lanes \in Nat /\ ((request.n - next) - Lanes) % Lanes = 0
  <2>1. request.n - next \in Nat \ {0} /\ (request.n - next) % Lanes = 0
    BY <1>1, <1>3 DEF VectorsFit
  <2>. QED
    BY <2>1, VectorsStayWithin
<1>7. VectorsFit'
  <2>1. /\ next' \in Nat /\ next' <= request.n
        /\ request.n - next' = (request.n - next) - Lanes
        /\ DOMAIN result' = 0..(request.n - 1)
    BY <1>3, <1>4, <1>6
  <2>. QED
    BY <1>3, <1>6, <2>1 DEF VectorsFit
<1>8. ElementsAreExact'
  <2>. SUFFICES ASSUME NEW i \in 0..(next' - 1),
                       request.op = "mult" /\ i < HeadLength => request.q <= Word \div 8
                PROVE  ExactAt(i)'
    BY <1>3 DEF ElementsAreExact
  <2>1. i \in DOMAIN result
    BY <1>3, <1>4, <1>6
  <2>2. CASE i \in places
    <3>1. lanes[i] = Exact(request.op, OperandsAt(i), request.scalar, request.q)
      BY <1>1, <1>5, <2>2, VectorIsExact DEF lanes
    <3>2. result'[i] = lanes[i]
      BY <1>4, <2>1, <2>2
    <3>. QED
      BY <1>1, <3>1, <3>2, OperandsStay
  <2>3. CASE i \notin places
    <3>1. i \in 0..(next - 1)
      BY <1>3, <2>3
    <3>2. ExactAt(i)
      BY <1>1, <3>1 DEF ElementsAreExact
    <3>3. result'[i] = Exact(request.op, OperandsAt(i), request.scalar, request.q)
      BY <1>4, <2>1, <2>3, <3>2 DEF ExactAt
    <3>. QED
      BY <1>1, <3>3, OperandsStay
  <2>. QED
    BY <2>2, <2>3
<1>. QED
  BY <1>2, <1>7, <1>8 DEF ElementsInv

\* For every width of the words and of the 52-bit multiplier, every modulus from
\* four to a quarter of the words, every length of a vector and of a call, and
\* every operands a call may be given, what eltwise.rs has written is the exact
\* remainder: the native code, the plain lanes and the 52-bit lanes on both sides
\* of the branch that one lane takes for its neighbours.
THEOREM ElementsComeOutExact == EltwiseSpec => []ElementsAreExact
<1>1. ElementsInv /\ [EltwiseNext]_eltwiseVars => ElementsInv'
  <2>. SUFFICES ASSUME ElementsInv, [EltwiseNext]_eltwiseVars PROVE ElementsInv'
    OBVIOUS
  <2>1. CASE HeadElement
    BY <2>1, HeadKeepsElements
  <2>2. CASE VectorStep
    BY <2>2, VectorKeepsElements
  <2>3. CASE EltwiseFinished \/ UNCHANGED eltwiseVars
    <3>1. UNCHANGED <<request, next, result>>
      BY <2>3 DEF EltwiseFinished, eltwiseVars
    <3>2. RequestServed'
      BY <3>1, RequestStays DEF ElementsInv
    <3>3. VectorsFit'
      BY <3>1, OperandsStay DEF ElementsInv, VectorsFit
    <3>4. ElementsAreExact'
      <4>. SUFFICES ASSUME NEW i \in 0..(next - 1),
                           request.op = "mult" /\ i < HeadLength => request.q <= Word \div 8
                    PROVE  ExactAt(i)'
        BY <3>1, OperandsStay DEF ElementsAreExact
      <4>1. ExactAt(i)
        BY DEF ElementsInv, ElementsAreExact
      <4>. QED
        BY <3>1, <4>1, OperandsStay DEF ExactAt
    <3>. QED
      BY <3>2, <3>3, <3>4 DEF ElementsInv
  <2>. QED
    BY <2>1, <2>2, <2>3 DEF EltwiseNext
<1>2. ElementsInv => ElementsAreExact
  BY DEF ElementsInv
<1>. QED
  BY <1>1, <1>2, ElementsBegin, PTL DEF EltwiseSpec
=============================================================================

------------------------------ MODULE Eltwise ------------------------------
(***************************************************************************)
(* Elementwise arithmetic of the transform library (eltwise.rs): sums,     *)
(* differences, reductions, products and products by a scalar, on vectors  *)
(* of any length. With AVX-512 the elements that do not fill a vector come *)
(* first, by the native code; the others go Lanes at a time. Reductions    *)
(* and products divide by a modulus by multiplying with a rounded          *)
(* reciprocal and correct the remainder at the end.                        *)
(*                                                                         *)
(* A request holds one element of interest among neighbours all alike,     *)
(* whose only effect can be on the branch a vector takes.                  *)
(***************************************************************************)
EXTENDS Words

CONSTANTS
    ElementModuli,
    Lanes,             \* elements of a vector
    Lengths,           \* lengths of the calls' vectors
    Inputs(_, _),      \* op, modulus -> triples of operands
    Neighbours(_, _)   \* op, modulus -> triples that may stand beside them

Ops == {"add", "sub", "reduce", "mult", "fma"}

VARIABLES
    request,    \* op, path, modulus, length, the place of the element, operands
    next,       \* first element without a result
    result
eltwiseVars == <<request, next, result>>

-----------------------------------------------------------------------------
\* log2(modulus) + 1, and the shift that leaves two bits above the modulus.
CeilLog(q) == Log2(q) + 1
ProdRightShift(q) == CeilLog(q) - 2

(***************************************************************************)
(* What a call may be given: operands below the modulus, and any words to  *)
(* reduce. The wide quotient of the 52-bit form has room for words up to   *)
(* an eighth of the multiplier's range times the power of two above the    *)
(* modulus, which are all of them for the code's own moduli.               *)
(***************************************************************************)
ReducibleWords(q) ==
    {x \in WordSet : q < Ifma \div 2 => x \div Ifma < 2^(CeilLog(q) - 3)}

Operands(op, q) ==
    IF op = "reduce" THEN ReducibleWords(q) \X {0} \X {0}
    ELSE (0..(q - 1)) \X (0..(q - 1)) \X (0..(q - 1))

ASSUME ElementsAssumption ==
    /\ Lanes \in Nat \ {0}
    /\ Lengths \subseteq Nat
    /\ ElementModuli \subseteq 4..(Word \div 4)
    /\ \A op \in Ops, q \in ElementModuli :
          Inputs(op, q) \cup Neighbours(op, q) \subseteq Operands(op, q)

\* A word shifted right from a double word: mm512_hexl_shrdi_epi64.
ShiftedRight(lo, hi, shift) == Plus(lo \div 2^shift, (hi * 2^(WordBits - shift)) % Word)

\* mm512_hexl_small_mod_epu64::<4>.
ReduceTwiceMin(x, q) == ReduceOnceMin(ReduceOnceMin(x, 2 * q), q)

\* eltwise_add_mod_native and mm512_hexl_small_add_mod_epi64.
AddElement(path, x, y, q) ==
    IF path = "native" THEN ReduceOnce(Plus(x, y), q) ELSE ReduceOnceMin(Plus(x, y), q)

\* eltwise_sub_mod_native and mm512_hexl_small_sub_mod_epi64.
SubElement(path, x, y, q) ==
    IF path # "native" THEN SubModSigned(x, y, q)
    ELSE IF x >= y THEN x - y ELSE Minus(Plus(x, q), y)

(***************************************************************************)
(* eltwise_reduce_mod: any word to its remainder. In the 52-bit form the   *)
(* branch is one for the vector: when a lane is at least half the          *)
(* multiplier's range, all lanes are divided by the double-word quotient.  *)
(***************************************************************************)
ReduceNative(x, q) ==
    IF x >= q THEN BarrettReduce(x, q, BarrettFactor(1, WordBits, q)) ELSE x

ReduceWord(x, q) == ReduceOnceMin(Minus(x, MulLo(MulHi(x, BarrettFactor(1, WordBits, q)), q)), q)

\* The bits above the multiplier's range dropped.
ReduceByWideLowOnly(x, q) ==
    LET c1 == (x % Ifma) \div 2^ProdRightShift(q)
        quotient == MulHiIfma(c1, BarrettFactor(2^(CeilLog(q) - 2), IfmaBits, q))
    IN ReduceOnceMin(MulAddLoIfma(x % Ifma, quotient, Word - q), q)

ReduceByWide(x, q) ==
    LET c1 == ((x % Ifma) \div 2^ProdRightShift(q))
              + (((x \div Ifma) * 2^(IfmaBits - ProdRightShift(q))) % Word)
        quotient == MulHiIfma(c1, BarrettFactor(2^(CeilLog(q) - 2), IfmaBits, q))
    IN ReduceOnceMin(MulAddLoIfma(x % Ifma, quotient, Word - q), q)

ReduceNarrow(x, q) ==
    ReduceOnceMin(Minus(x, MulLoIfma(MulHiIfma(x, BarrettFactor(1, IfmaBits, q)), q)), q)

\* Where the 52-bit form divides by the double-word quotient.
IsWide(vector) == \E i \in DOMAIN vector : vector[i] >= Ifma \div 2

ReduceVector(path, vector, q) ==
    [i \in DOMAIN vector |->
        IF path # "ifma" THEN ReduceWord(vector[i], q)
        ELSE IF IsWide(vector) THEN ReduceByWide(vector[i], q) ELSE ReduceNarrow(vector[i], q)]

(***************************************************************************)
(* eltwise_mult_mod on integers: the quotient's estimate is at most one    *)
(* too small for moduli up to an eighth of the words and two above, and    *)
(* one more with the approximate high half of the vector form.             *)
(***************************************************************************)
QuotientWord(x, y, q) == ShiftedRight(MulLo(x, y), MulHi(x, y), ProdRightShift(q))
BarrLo(q) == BarrettFactor(2^(CeilLog(q) - 2), WordBits, q)

MultNative(x, y, q) ==
    ReduceOnce(Minus(MulLo(x, y), MulLo(MulHi(QuotientWord(x, y, q), BarrLo(q)), q)), q)

MultVector(x, y, q) ==
    ReduceTwiceMin(Minus(MulLo(x, y), MulLo(MulHiApprox(QuotientWord(x, y, q), BarrLo(q)), q)), q)

(***************************************************************************)
(* eltwise_fma_mod: x times the scalar plus z. The lazy product is below   *)
(* 2 q, the sum below 3 q, and one reduction by 2 q and one by q suffice.  *)
(***************************************************************************)
FmaNative(x, scalar, z, q) ==
    AddMod(MultiplyPrecon(x, scalar, BarrettFactor(scalar, WordBits, q), q), z, q)

FmaVector(path, x, scalar, z, q) ==
    LET lazy == IF path = "ifma"
                THEN MulAddLoIfma(MulLoIfma(x, scalar),
                                  MulHiIfma(x, BarrettFactor(scalar, IfmaBits, q)), Word - q)
                ELSE Plus(MulLo(x, scalar),
                          MulLo(MulHi(x, BarrettFactor(scalar, WordBits, q)), Word - q))
    IN ReduceTwiceMin(Plus(lazy, z), q)

-----------------------------------------------------------------------------
(***************************************************************************)
(* The path of a request. IFMA serves reductions below half its range and  *)
(* products by a scalar likewise; sums and differences use plain lanes;    *)
(* products of vectors use the integer lanes from a quarter of its range   *)
(* up (a shorter modulus goes through floating point, not modelled) and,   *)
(* without AVX-512, the native code.                                       *)
(***************************************************************************)
PathFor(op, q, machine) ==
    IF machine = "ifma" /\ op \in {"reduce", "fma"} /\ q < Ifma \div 2 THEN "ifma"
    ELSE IF machine = "native" THEN "native" ELSE "dq"

Served(op, q, machine) == op = "mult" /\ machine # "native" => q >= Ifma \div 4

OperandsAt(i) == IF i = request.place THEN request.element ELSE request.neighbour

NativeElement(op, e, q) ==
    CASE op = "add" -> AddElement("native", e[1], e[2], q)
      [] op = "sub" -> SubElement("native", e[1], e[2], q)
      [] op = "reduce" -> ReduceNative(e[1], q)
      [] op = "mult" -> MultNative(e[1], e[2], q)
      [] op = "fma" -> FmaNative(e[1], request.scalar, e[3], q)

VectorElements(op, path, places, q) ==
    CASE op = "add" -> [i \in places |-> AddElement(path, OperandsAt(i)[1], OperandsAt(i)[2], q)]
      [] op = "sub" -> [i \in places |-> SubElement(path, OperandsAt(i)[1], OperandsAt(i)[2], q)]
      [] op = "reduce" -> ReduceVector(path, [i \in places |-> OperandsAt(i)[1]], q)
      [] op = "mult" -> [i \in places |-> MultVector(OperandsAt(i)[1], OperandsAt(i)[2], q)]
      [] op = "fma" -> [i \in places |->
                           FmaVector(path, OperandsAt(i)[1], request.scalar, OperandsAt(i)[3], q)]

EltwiseInit ==
    /\ \E op \in Ops, q \in ElementModuli, machine \in {"native", "dq", "ifma"}, n \in Lengths :
         /\ Served(op, q, machine)
         /\ \E element \in Inputs(op, q), neighbour \in Neighbours(op, q), place \in 0..(n - 1) :
               request = [op |-> op, q |-> q, path |-> PathFor(op, q, machine), n |-> n,
                       place |-> place, element |-> element, neighbour |-> neighbour,
                       scalar |-> element[2]]
    /\ next = 0
    /\ result = [i \in 0..(request.n - 1) |-> 0]

\* Elements the native code takes: all of them, or those that fill no vector.
HeadLength == IF request.path = "native" THEN request.n ELSE request.n % Lanes

HeadElement ==
    /\ next < HeadLength
    /\ result' = [result EXCEPT ![next] = NativeElement(request.op, OperandsAt(next), request.q)]
    /\ next' = next + 1
    /\ UNCHANGED request

VectorStep ==
    /\ next >= HeadLength /\ next < request.n
    /\ LET places == next..(next + Lanes - 1)
           lanes == VectorElements(request.op, request.path, places, request.q)
       IN result' = [i \in DOMAIN result |-> IF i \in places THEN lanes[i] ELSE result[i]]
    /\ next' = next + Lanes
    /\ UNCHANGED request

EltwiseFinished == next = request.n /\ UNCHANGED eltwiseVars

EltwiseNext == HeadElement \/ VectorStep \/ EltwiseFinished
EltwiseSpec == EltwiseInit /\ [][EltwiseNext]_eltwiseVars

-----------------------------------------------------------------------------
\* x y % q by the halves of y.
TrueProduct(x, y, q) == ((((x * High(y)) % q) * Half) + x * Low(y)) % q

Exact(op, e, scalar, q) ==
    CASE op = "add" -> (e[1] + e[2]) % q
      [] op = "sub" -> (e[1] + (q - e[2])) % q
      [] op = "reduce" -> e[1] % q
      [] op = "mult" -> TrueProduct(e[1], e[2], q)
      [] op = "fma" -> (TrueProduct(e[1], scalar, q) + e[3]) % q

ExactAt(i) == result[i] = Exact(request.op, OperandsAt(i), request.scalar, request.q)

\* Every element with a result has the remainder of its own operands, whichever
\* code computed it and whatever its neighbours in the vector are; products of
\* the native code for moduli up to an eighth of the words.
ElementsAreExact ==
    \A i \in 0..(next - 1) :
        (request.op = "mult" /\ i < HeadLength => request.q <= Word \div 8) => ExactAt(i)

\* Products are exact, for every modulus that the functions assert to take.
ProductsAreExact ==
    \A i \in 0..(next - 1) : request.op = "mult" => ExactAt(i)
=============================================================================

----------------------------- MODULE BitStream -----------------------------
(***************************************************************************)
(* The bit streams of the wire format (src/protocol/wire.rs, BitWriter and *)
(* BitReader): values are written through an accumulator into bytes and    *)
(* read back through one, which is refilled a word at a time.              *)
(*                                                                         *)
(* Widths are constants: the code's byte is 8 bits, its accumulator 64,    *)
(* its widest put 32, and a varint carries 7 bits a byte.                  *)
(***************************************************************************)
EXTENDS Integers, Sequences

BitSeqs == INSTANCE SequencesExt

CONSTANTS
    Byte,          \* bits of a byte
    Accumulator,   \* bits of the accumulator
    Widest,        \* bits of the widest single put
    Group,         \* payload bits of a varint's group
    MaxElements,   \* MAX_ELEMENTS, the largest length a reader accepts
    MaxGamma,      \* the longest run of zeros a reader accepts
    Writes,        \* what a writer may write: <<operation, value, width>>
    MaxWrites      \* how many writes make a stream

ASSUME BitStreamAssumption ==
    /\ {Byte, Accumulator, Widest, Group, MaxElements, MaxGamma, MaxWrites} \subseteq Nat \ {0}
    /\ Byte < Accumulator
    /\ Byte - 1 + Widest <= Accumulator
    /\ Widest <= Accumulator - Byte

VARIABLES
    stage,      \* "write", "read", "accepted" or "malformed"
    written,    \* the writes so far
    writer,     \* [bytes, acc, n]
    bytes,      \* the stream as it arrived
    altered,    \* whether it differs from the written one
    reader,     \* [pos, acc, n]
    read        \* the values read so far

bitVars == <<stage, written, writer, bytes, altered, reader, read>>

Shl(x, k) == x * 2^k
Shr(x, k) == x \div 2^k
Low(x, k) == x % 2^k

\* The bits of a and b, where each word has its own (no carries): acc |= b.
\* A reader's accumulator may already hold the bits ORed into it.
BitOr(a, b) ==
    BitSeqs!MapThenSumSet(LAMBDA k : IF Low(Shr(a, k), 1) = 1 \/ Low(Shr(b, k), 1) = 1
                                     THEN 2^k ELSE 0, 0..(Accumulator - 1))

-----------------------------------------------------------------------------
(***************************************************************************)
(* Writing.                                                                *)
(***************************************************************************)
NewWriter == [bytes |-> <<>>, acc |-> 0, n |-> 0]

\* put: whole bytes leave the accumulator at once.
Put(w, value, bits) ==
    LET acc == w.acc + Shl(Low(value, bits), w.n)
        n == w.n + bits
        whole == n \div Byte
    IN [bytes |-> w.bytes \o [i \in 1..whole |-> Low(Shr(acc, Byte * (i - 1)), Byte)],
        acc |-> Shr(acc, Byte * whole),
        n |-> n % Byte]

\* put_wide: the low part first.
PutWide(w, value, bits) ==
    IF bits <= Widest THEN Put(w, value, bits)
    ELSE Put(Put(w, Low(value, Widest), Widest), Shr(value, Widest), bits - Widest)

\* put_gamma: the length in unary, then the bits below the leading one.
BitLength(value) == CHOOSE k \in 0..Accumulator : 2^k > value /\ (k = 0 \/ 2^(k - 1) <= value)

PutGamma(w, value) ==
    LET k == BitLength(value) - 1
    IN PutWide(Put(Put(w, 0, k), 1, 1), Low(value, k), k)

\* put_varint: groups from the low end, each but the last flagged.
PutVarint(w, value) ==
    LET groups == (BitLength(value) + Group - 1) \div Group
        count == IF groups = 0 THEN 1 ELSE groups
        group(i) == Low(Shr(value, Group * i), Group)
                    + (IF i < count - 1 THEN 2^Group ELSE 0)
        after[i \in 0..count] ==
          IF i = 0 THEN w ELSE Put(after[i - 1], group(i - 1), Group + 1)
    IN after[count]

Wrote(w, op, value, width) ==
    CASE op = "bits" -> PutWide(w, value, width)
      [] op = "gamma" -> PutGamma(w, value)
      [] op = "length" -> PutVarint(w, value)

\* finish: the last byte is padded with zeros.
Finished(w) == IF w.n > 0 THEN Append(w.bytes, w.acc) ELSE w.bytes

-----------------------------------------------------------------------------
(***************************************************************************)
(* Reading.  A result is the set of the values read: {} is an error.       *)
(***************************************************************************)
NewReader == [pos |-> 0, acc |-> 0, n |-> 0]

\* The word at the reader's position, zeros behind the end of the stream.
NextWord(stream, pos) ==
    BitSeqs!MapThenSumSet(LAMBDA i : IF pos + i <= Len(stream)
                                     THEN Shl(stream[pos + i], Byte * (i - 1)) ELSE 0,
                          1..(Accumulator \div Byte))

\* The bytes refill counts as taken.
TakenBytes(n) == (Accumulator - 1 - n) \div Byte

\* refill: the whole word enters the accumulator, and its bits above those of
\* the bytes taken stay there until the next refill ORs the same bits again.
Refill(stream, r) ==
    LET rest == Len(stream) - r.pos
        take == IF TakenBytes(r.n) < rest THEN TakenBytes(r.n) ELSE rest
    IN [pos |-> r.pos + take,
        acc |-> BitOr(r.acc, Low(Shl(NextWord(stream, r.pos), r.n), Accumulator)),
        n |-> r.n + Byte * take]

Filled(stream, r, bits) == IF r.n < bits THEN Refill(stream, r) ELSE r

\* get
Get(stream, r, bits) ==
    LET f == Filled(stream, r, bits)
    IN IF f.n < bits THEN {}
       ELSE {[value |-> Low(f.acc, bits),
              reader |-> [f EXCEPT !.acc = Shr(@, bits), !.n = @ - bits]]}

\* get_wide
GetWide(stream, r, bits) ==
    IF bits <= Widest THEN Get(stream, r, bits)
    ELSE {[value |-> low.value + Shl(high.value, Widest), reader |-> high.reader] :
            <<low, high>> \in
               UNION {{<<l, h>> : h \in Get(stream, l.reader, bits - Widest)} :
                        l \in Get(stream, r, Widest)}}

\* get_gamma: a run of zeros past MaxGamma is malformed.
GetGamma(stream, r) ==
    LET zeros[k \in 0..MaxGamma] ==
          IF k = 0 THEN Get(stream, r, 1)
          ELSE UNION {IF g.value = 1 THEN {} ELSE Get(stream, g.reader, 1) : g \in zeros[k - 1]}
        ends == {k \in 0..MaxGamma : \E g \in zeros[k] : g.value = 1}
    IN UNION {UNION {{[value |-> 2^k + m.value, reader |-> m.reader] :
                        m \in GetWide(stream, g.reader, k)} : g \in zeros[k]} : k \in ends}

\* get_len: as many groups as MaxElements needs; the last is not zero unless
\* it is the only one, and the length is one the decoder takes.
LengthGroups == (BitLength(MaxElements) + Group - 1) \div Group
MinimalGroup(group, i) == group # 0 \/ i = 1

GetLength(stream, r) ==
    LET groups[i \in 0..LengthGroups] ==
          IF i = 0 THEN {[value |-> 0, reader |-> r, more |-> TRUE]}
          ELSE UNION {IF ~g.more THEN {}
                      ELSE {[value |-> g.value + Shl(Low(b.value, Group), Group * (i - 1)),
                             reader |-> b.reader,
                             more |-> Shr(b.value, Group) = 1,
                             minimal |-> MinimalGroup(b.value, i)] :
                              b \in Get(stream, g.reader, Group + 1)} :
                      g \in groups[i - 1]}
        lasts == UNION {{g \in groups[i] : ~g.more} : i \in 1..LengthGroups}
    IN {[value |-> g.value, reader |-> g.reader] :
          g \in {h \in lasts : h.minimal /\ h.value <= MaxElements}}

Reads(stream, r, op, width) ==
    CASE op = "bits" -> GetWide(stream, r, width)
      [] op = "gamma" -> GetGamma(stream, r)
      [] op = "length" -> GetLength(stream, r)

EndsAnywhereInAByte(stream, r) ==
    LET f == Refill(stream, r)
    IN f.pos = Len(stream) /\ f.n < Byte

\* end: nothing is left but the writer's padding.
Ends(stream, r) ==
    LET f == Refill(stream, r)
    IN f.pos = Len(stream) /\ f.n < Byte /\ f.acc = 0

-----------------------------------------------------------------------------
Write ==
    /\ stage = "write"
    /\ Len(written) < MaxWrites
    /\ \E w \in Writes :
         /\ written' = Append(written, w)
         /\ writer' = Wrote(writer, w[1], w[2], w[3])
    /\ UNCHANGED <<stage, bytes, altered, reader, read>>

\* A byte replaced, removed from the end or added there.
Alterations(stream) ==
    UNION {{[stream EXCEPT ![i] = b] : b \in 0..(2^Byte - 1)} : i \in DOMAIN stream}
    \cup {Append(stream, b) : b \in 0..(2^Byte - 1)}
    \cup (IF stream = <<>> THEN {} ELSE {BitSeqs!Front(stream)})

ArriveBits ==
    /\ stage = "write"
    /\ written # <<>>
    /\ bytes' \in {Finished(writer)} \cup Alterations(Finished(writer))
    /\ altered' = (bytes' # Finished(writer))
    /\ stage' = "read"
    /\ UNCHANGED <<written, writer, reader, read>>

NextRead == written[Len(read) + 1]

Read ==
    /\ stage = "read"
    /\ Len(read) < Len(written)
    /\ LET results == Reads(bytes, reader, NextRead[1], NextRead[3])
       IN \/ /\ results = {}
             /\ stage' = "malformed"
             /\ UNCHANGED <<reader, read>>
          \/ \E g \in results :
               /\ reader' = g.reader
               /\ read' = Append(read, g.value)
               /\ UNCHANGED stage
    /\ UNCHANGED <<written, writer, bytes, altered>>

End ==
    /\ stage = "read"
    /\ Len(read) = Len(written)
    /\ stage' = IF Ends(bytes, reader) THEN "accepted" ELSE "malformed"
    /\ UNCHANGED <<written, writer, bytes, altered, reader, read>>

StreamDone == stage \in {"accepted", "malformed"} /\ UNCHANGED bitVars

BitInit ==
    /\ stage = "write" /\ written = <<>> /\ writer = NewWriter
    /\ bytes = <<>> /\ altered = FALSE
    /\ reader = NewReader /\ read = <<>>

BitNext == Write \/ ArriveBits \/ Read \/ End \/ StreamDone

BitSpec == BitInit /\ [][BitNext]_bitVars

-----------------------------------------------------------------------------
\* What a reader takes: not a length past MAX_ELEMENTS nor a gamma code past its
\* limit.
Acceptable(w) ==
    /\ w[1] = "length" => w[2] <= MaxElements
    /\ w[1] = "gamma" => BitLength(w[2]) - 1 <= MaxGamma

\* The stream a writer makes of the values read.
Rewritten ==
    LET again[i \in 0..Len(read)] ==
          IF i = 0 THEN NewWriter
          ELSE Wrote(again[i - 1], written[i][1], read[i], written[i][3])
    IN Finished(again[Len(read)])

\* Writing and reading are inverse. What was written is read value by value and
\* the stream ends there, although a refill leaves bits in the accumulator of
\* bytes it has not taken; and a stream read to its end is the one a writer
\* makes of the values read: no value has two codes, and no padding but the
\* writer's is accepted.
WritingAndReadingAgree ==
    /\ ~altered /\ stage # "write" =>
         /\ \A i \in DOMAIN read : read[i] = written[i][2]
         /\ stage = "malformed" => \E i \in DOMAIN written : ~Acceptable(written[i])
    /\ stage = "accepted" => Rewritten = bytes
=============================================================================

------------------------------ MODULE Octaves ------------------------------
(***************************************************************************)
(* The coder of a proof's cells (src/protocol/wire.rs): each coefficient   *)
(* is its octave, coded by an interleaved rANS under a histogram of its    *)
(* role, and a raw field with the mantissa and the sign; a role for which  *)
(* that does not pay is sent as plain residues.                            *)
(*                                                                         *)
(* Widths are constants: in the code 2^ScaleBits is 2^12, RansLow 2^16,    *)
(* words have 16 bits, states 32, there are 8 lanes, 16 roles, 56 octaves. *)
(* The cost of a model, a sum of logarithms in the code, is a table.       *)
(***************************************************************************)
EXTENDS Integers, Sequences

CellSeqs == INSTANCE SequencesExt

CONSTANTS
    ModQ,          \* MOD_Q
    Symbols,       \* SYMBOLS: octaves 0 to Symbols - 1
    ScaleBits,     \* SCALE_BITS
    WordBits,      \* bits of a word
    Lanes,         \* LANES
    Roles,         \* the roles, 1 to Roles
    LogCost,       \* LogCost[f]: 16 log2(Scale / f), rounded
    Overhead,      \* the bits charged for sending a model
    RoleSequences, \* the roles of the cells of a stream, in order
    Values,        \* the residues a cell may have
    SampleCounts   \* how often an octave occurs, for the histograms' sake

Scale == 2^ScaleBits
Word == 2^WordBits
RansLow == Word
StateLimit == Word * Word

\* residue_bits
RawBits == CHOOSE k \in 1..ModQ : 2^k >= ModQ /\ 2^(k - 1) < ModQ

ASSUME OctavesAssumption ==
    /\ Scale < RansLow
    /\ Scale >= 2 * Symbols
    /\ SampleCounts \subseteq Nat
    /\ ModQ % 2 = 1 /\ ModQ < 2^Symbols
    /\ Values \subseteq 0..(ModQ - 1)
    /\ LogCost \in [1..Scale -> Nat]
    /\ RoleSequences \subseteq Seq(1..Roles)

VARIABLES
    phase,     \* "push", "fill", "accepted" or "malformed"
    roles,     \* the role of each cell
    pushed,    \* the residues pushed
    stream,    \* what arrived: [models, lanes, words, raw]
    honest,    \* whether it is what the encoder wrote
    lanes,     \* RansDecoder::state
    pos,       \* RansDecoder::pos, in words
    rawPos,    \* the raw bits read
    index,     \* Body::index, the symbols read
    filled     \* the residues decoded

octaveVars == <<phase, roles, pushed, stream, honest, lanes, pos, rawPos, index, filled>>

-----------------------------------------------------------------------------
(***************************************************************************)
(* Residues and octaves.                                                   *)
(***************************************************************************)
SymbolSet == 0..(Symbols - 1)

Centred(v) == IF v > ModQ \div 2 THEN v - ModQ ELSE v
Magnitude(c) == IF c < 0 THEN -c ELSE c

\* octave: the bit length of the magnitude.
Octave(c) ==
    IF c = 0 THEN 0
    ELSE CHOOSE b \in 1..Symbols : 2^(b - 1) <= Magnitude(c) /\ Magnitude(c) < 2^b

\* counts: how often each octave occurs in a role.
Counts(rs, vs, role) ==
    LET count(counts, v, i) ==
          IF rs[i] = role THEN [counts EXCEPT ![Octave(Centred(v))] = @ + 1] ELSE counts
    IN CellSeqs!FoldLeftDomain(LAMBDA counts, i : count(counts, vs[i], i),
                           [s \in SymbolSet |-> 0], vs)

Total(counts) == CellSeqs!MapThenSumSet(LAMBDA s : counts[s], SymbolSet)

-----------------------------------------------------------------------------
(***************************************************************************)
(* Models.                                                                 *)
(***************************************************************************)
Raw == [coded |-> FALSE, freq |-> [s \in SymbolSet |-> 0]]

\* from_counts: every octave that occurs has a frequency, and the largest one
\* takes what is left of the scale or more than it.
QuantisedToZero(counts, s) == (counts[s] * Scale) \div Total(counts)

Quantised(counts, s) ==
    IF counts[s] = 0 THEN 0
    ELSE LET share == (counts[s] * Scale) \div Total(counts)
         IN IF share = 0 THEN 1 ELSE share

Largest(freq) ==
    CHOOSE s \in SymbolSet :
      /\ \A t \in SymbolSet : freq[t] <= freq[s]
      /\ \A t \in 0..(s - 1) : freq[t] < freq[s]

FromCounts(counts) ==
    LET freq == [s \in SymbolSet |-> Quantised(counts, s)]
        sum == Total(freq)
    IN [coded |-> TRUE, freq |-> [freq EXCEPT ![Largest(freq)] = @ + Scale - sum]]

\* bits, times 16.
Bits16(model, counts) ==
    CellSeqs!MapThenSumSet(LAMBDA s : counts[s] * (LogCost[model.freq[s]] + 16 * s),
                       {s \in SymbolSet : counts[s] # 0})

\* chosen: a model is sent where it saves more than two percent.
Chosen(counts) ==
    IF Total(counts) = 0 THEN Raw
    ELSE LET candidate == FromCounts(counts)
         IN IF 100 * (Bits16(candidate, counts) + 16 * Overhead)
               < 98 * 16 * Total(counts) * RawBits
            THEN candidate ELSE Raw

Cum(model, s) == CellSeqs!MapThenSumSet(LAMBDA t : model.freq[t], 0..(s - 1))

\* build_slots
SymbolAt(model, slot) ==
    CHOOSE s \in SymbolSet : Cum(model, s) <= slot /\ slot < Cum(model, s) + model.freq[s]

\* Model::read: what the header may carry.
Readable(model) ==
    \/ model = Raw
    \/ /\ model.coded
       /\ Total(model.freq) = Scale

-----------------------------------------------------------------------------
(***************************************************************************)
(* rANS.                                                                   *)
(***************************************************************************)
Refills(next) == next < RansLow

\* The state from which a put would leave 32 bits; 2^32 for a model of one
\* symbol.
CeilingWrapped(freq) == ((RansLow \div Scale) * Word * freq) % StateLimit
Ceiling(freq) == (RansLow \div Scale) * Word * freq

\* put
RansPut(coder, lane, model, s) ==
    LET x == coder.lanes[lane]
        freq == model.freq[s]
        full == x >= Ceiling(freq)
        y == IF full THEN x \div Word ELSE x
    IN [lanes |-> [coder.lanes EXCEPT
                     ![lane] = ((y \div freq) * Scale + (y % freq) + Cum(model, s)) % StateLimit],
        words |-> IF full THEN Append(coder.words, x % Word) ELSE coder.words]

\* get: the symbol, the state after it, and whether that takes a word.
RansSymbol(x, model) == SymbolAt(model, x % Scale)
RansState(x, model) ==
    LET s == RansSymbol(x, model)
    IN model.freq[s] * (x \div Scale) + (x % Scale) - Cum(model, s)

-----------------------------------------------------------------------------
(***************************************************************************)
(* Encoding: finish_with.                                                  *)
(***************************************************************************)
\* The raw field of a coded cell, mantissa below, sign on top; of a plain one,
\* the residue.  Fields are lists of bits, the low one first.
RawPart(c) ==
    LET b == Octave(c)
    IN Magnitude(c) - 2^(b - 1) + (IF c < 0 THEN 2^(b - 1) ELSE 0)

BitsOf(x, k) == [i \in 1..k |-> (x \div 2^(i - 1)) % 2]

RawField(model, v) ==
    LET c == Centred(v)
    IN IF ~model.coded THEN BitsOf(v, RawBits)
       ELSE IF c = 0 THEN <<>> ELSE BitsOf(RawPart(c), Octave(c))

\* Symbols are put from the last to the first, each in the lane of its index.
LaneOf(i) == i % Lanes

EncodeWith(models, rs, vs, start) ==
    LET coded == CellSeqs!SelectSeq([i \in DOMAIN vs |-> <<rs[i], Octave(Centred(vs[i]))>>],
                                LAMBDA x : models[x[1]].coded)
        n == Len(coded)
        coder[k \in 0..n] ==
          IF k = 0 THEN [lanes |-> [l \in 0..(Lanes - 1) |-> start], words |-> <<>>]
          ELSE LET i == n - k
               IN RansPut(coder[k - 1], LaneOf(i), models[coded[i + 1][1]], coded[i + 1][2])
    IN [models |-> models,
        lanes |-> coder[n].lanes,
        words |-> CellSeqs!Reverse(coder[n].words),
        raw |-> CellSeqs!FlattenSeq([i \in DOMAIN vs |-> RawField(models[rs[i]], vs[i])])]

ChosenModels(rs, vs) == [role \in 1..Roles |-> Chosen(Counts(rs, vs, role))]

\* finish
EncodeCells(rs, vs) == EncodeWith(ChosenModels(rs, vs), rs, vs, RansLow)

-----------------------------------------------------------------------------
(***************************************************************************)
(* What may arrive: the encoder's stream, or one that another choice of    *)
(* models or of first states makes, or one changed in transit.             *)
(***************************************************************************)
\* Models near the chosen one: a unit of frequency moved, or the other kind.
Moved(model) ==
    LET step(s, t, u) == IF u = s THEN -1 ELSE IF u = t THEN 1 ELSE 0
    IN {[coded |-> TRUE, freq |-> [u \in SymbolSet |-> model.freq[u] + step(move[1], move[2], u)]] :
          move \in {m \in SymbolSet \X SymbolSet : m[1] # m[2] /\ model.freq[m[1]] > 1}}

OtherModels(counts) ==
    LET chosen == Chosen(counts)
    IN IF Total(counts) = 0 THEN {[coded |-> TRUE, freq |-> [Raw.freq EXCEPT ![0] = Scale]]}
       ELSE (IF chosen.coded THEN {Raw} \cup Moved(chosen) ELSE {FromCounts(counts)})

OtherChoices ==
    LET models == ChosenModels(roles, pushed)
    IN {EncodeWith([models EXCEPT ![r] = m], roles, pushed, RansLow) :
          <<r, m>> \in UNION {{<<q, o>> : o \in OtherModels(Counts(roles, pushed, q))} :
                                q \in 1..Roles}}
       \cup {EncodeWith(models, roles, pushed, RansLow + 1)}

Changed(s) ==
    {[s EXCEPT !.lanes[l] = x] : l \in 0..(Lanes - 1), x \in {RansLow - 1, RansLow, RansLow + 5}}
    \cup {[s EXCEPT !.words = Append(@, 1)]}
    \cup (IF s.words = <<>> THEN {}
          ELSE {[s EXCEPT !.words = Tail(@)], [s EXCEPT !.words[1] = (@ + 1) % Word]})
    \cup {[s EXCEPT !.raw[i] = 1 - @] : i \in DOMAIN s.raw}
    \cup {[s EXCEPT !.raw = Append(@, 0)]}
    \cup (IF s.raw = <<>> THEN {} ELSE {[s EXCEPT !.raw = CellSeqs!Front(@)]})

-----------------------------------------------------------------------------
Push ==
    /\ phase = "push"
    /\ Len(pushed) < Len(roles)
    /\ \E v \in Values : pushed' = Append(pushed, v)
    /\ UNCHANGED <<phase, roles, stream, honest, lanes, pos, rawPos, index, filled>>

\* Decoder::new reads the models and the lanes.
Arrive ==
    /\ phase = "push"
    /\ Len(pushed) = Len(roles)
    /\ LET sent == EncodeCells(roles, pushed)
       IN \E s \in {sent} \cup OtherChoices \cup Changed(sent) :
            /\ stream' = s
            /\ honest' = (s = sent)
            /\ lanes' = s.lanes
            /\ phase' = IF /\ \A r \in 1..Roles : Readable(s.models[r])
                           /\ \A l \in 0..(Lanes - 1) : s.lanes[l] >= RansLow
                        THEN "fill" ELSE "malformed"
    /\ UNCHANGED <<roles, pushed, pos, rawPos, index, filled>>

Model == stream.models[roles[Len(filled) + 1]]

\* The number in the next k raw bits; {} when there are not as many.
NextRaw(k) ==
    IF rawPos + k > Len(stream.raw) THEN {}
    ELSE {CellSeqs!MapThenSumSet(LAMBDA i : stream.raw[rawPos + i] * 2^(i - 1), 1..k)}

Filling == phase = "fill" /\ Len(filled) < Len(roles)

IsResidue(v) == v < ModQ

\* fill, for a role sent as residues.
FillRaw ==
    /\ Filling /\ ~Model.coded
    /\ LET field == NextRaw(RawBits)
       IN \/ /\ \A v \in field : ~IsResidue(v)
             /\ phase' = "malformed"
             /\ UNCHANGED <<rawPos, filled>>
          \/ \E v \in field :
               /\ IsResidue(v)
               /\ filled' = Append(filled, v)
               /\ rawPos' = rawPos + RawBits
               /\ UNCHANGED phase
    /\ UNCHANGED <<roles, pushed, stream, honest, lanes, pos, index>>

\* fill, for a coded role: the octave from its lane, then mantissa and sign.
FitsModulus(magnitude) == magnitude <= ModQ \div 2

Residue(b, field) ==
    LET magnitude == 2^(b - 1) + (field % 2^(b - 1))
    IN IF field \div 2^(b - 1) # 0 THEN ModQ - magnitude ELSE magnitude

FillCoded ==
    /\ Filling /\ Model.coded
    /\ LET lane == LaneOf(index)
           b == RansSymbol(lanes[lane], Model)
           next == RansState(lanes[lane], Model)
           short == Refills(next)
           field == IF b = 0 THEN {0} ELSE NextRaw(b)
           refused == \/ short /\ pos = Len(stream.words)
                      \/ field = {}
                      \/ b # 0 /\ \A x \in field : ~FitsModulus(2^(b - 1) + (x % 2^(b - 1)))
       IN IF refused
          THEN /\ phase' = "malformed"
               /\ UNCHANGED <<lanes, pos, rawPos, index, filled>>
          ELSE /\ lanes' = [lanes EXCEPT ![lane] =
                              IF short THEN next * Word + stream.words[pos + 1] ELSE next]
               /\ pos' = IF short THEN pos + 1 ELSE pos
               /\ index' = index + 1
               /\ rawPos' = rawPos + b
               /\ \E x \in field :
                    filled' = Append(filled, IF b = 0 THEN 0 ELSE Residue(b, x))
               /\ UNCHANGED phase
    /\ UNCHANGED <<roles, pushed, stream, honest>>

\* finish: the models are those the encoder chooses for what was decoded, and
\* every section ends where the reading does.
ModelsAreChosen ==
    \A r \in 1..Roles : stream.models[r] = Chosen(Counts(roles, filled, r))

LanesAtRest == \A l \in 0..(Lanes - 1) : lanes[l] = RansLow

FinishCells ==
    /\ phase = "fill" /\ Len(filled) = Len(roles)
    /\ phase' = IF /\ ModelsAreChosen
                   /\ rawPos = Len(stream.raw)
                   /\ pos = Len(stream.words)
                   /\ LanesAtRest
                THEN "accepted" ELSE "malformed"
    /\ UNCHANGED <<roles, pushed, stream, honest, lanes, pos, rawPos, index, filled>>

CellsDone == phase \in {"accepted", "malformed"} /\ UNCHANGED octaveVars

OctavesInit ==
    /\ phase = "push"
    /\ roles \in RoleSequences
    /\ pushed = <<>> /\ filled = <<>>
    /\ stream = [models |-> <<>>, lanes |-> <<>>, words |-> <<>>, raw |-> <<>>]
    /\ honest = TRUE
    /\ lanes = [l \in 0..(Lanes - 1) |-> RansLow]
    /\ pos = 0 /\ rawPos = 0 /\ index = 0

OctavesNext == Push \/ Arrive \/ FillRaw \/ FillCoded \/ FinishCells \/ CellsDone

OctavesSpec == OctavesInit /\ [][OctavesNext]_octaveVars

-----------------------------------------------------------------------------
\* A histogram quantised from counts is a distribution over the scale in which
\* nothing that occurs has frequency zero, whatever rounding and the correction
\* of the largest do (from_counts).
HistogramsAreExact ==
    phase = "push" /\ pushed = <<>> =>
      \A counts \in [SymbolSet -> SampleCounts] :
        LET model == FromCounts(counts)
        IN Total(counts) # 0 =>
             /\ Total(model.freq) = Scale
             /\ \A s \in SymbolSet : model.freq[s] >= 0 /\ (model.freq[s] = 0 <=> counts[s] = 0)

\* The coder is one to one. What was pushed is what is filled, and an encoder's
\* stream is accepted, over roles that are coded and roles that are not, models
\* of one symbol among them; and a decoder "accepts exactly the bytes to_bytes
\* writes": a stream of another histogram, of other first states, with a bit or
\* a word changed, added or missing, is accepted only if it is the encoding of
\* the cells it decodes to.
CellsAreCodedOneWay ==
    /\ honest => /\ phase # "malformed"
                 /\ \A i \in DOMAIN filled : filled[i] = pushed[i]
    /\ phase = "accepted" => stream = EncodeCells(roles, filled)
=============================================================================

----------------------------- MODULE Transcript -----------------------------
(***************************************************************************)
(* The Fiat-Shamir transcript of src/common/hash.rs (HashWrapper).         *)
(*                                                                         *)
(* The hash state is the byte string absorbed so far: absorbing a matrix   *)
(* or a slice appends its entries and neither its shape nor its length.    *)
(* Sampling reads a copy of the state together with a counter and a label  *)
(* and advances the counter only.  The hash is taken to be ideal, so a     *)
(* challenge IS the triple it is derived from: the absorbed prefix, the    *)
(* position in the order of draws (the counter) and the label.             *)
(***************************************************************************)
EXTENDS Naturals, Sequences

\* A value the transcript absorbs: the data of an item is the sequence of its
\* entries; the item's shape is not part of what is absorbed.
NewTranscript == [absorbed |-> <<>>, drawn |-> <<>>]

Absorb(t, item) == [t EXCEPT !.absorbed = @ \o item.data]

\* One vector of challenges.  Its fills of the extendable output follow each
\* other with nothing absorbed in between, so one position stands for them.
Draw(t, label) ==
    [t EXCEPT !.drawn = Append(@, [label |-> label, at |-> Len(t.absorbed)])]

\* The index, in the order of draws, of the challenge drawn last.
LastDraw(t) == Len(t.drawn)

PrefixOf(s, t) == Len(s) <= Len(t) /\ \A i \in 1..Len(s) : s[i] = t[i]

\* Every challenge t has drawn is the one u drew at the same position.
SameChallenges(t, u) ==
    /\ PrefixOf(t.absorbed, u.absorbed)
    /\ PrefixOf(t.drawn, u.drawn)

Transcripts(Value, Name) ==
    [absorbed : Seq(Value), drawn : Seq([label : Name, at : Nat])]
=============================================================================

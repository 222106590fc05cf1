----------------------------- MODULE Selections -----------------------------
(***************************************************************************)
(* Sequences that a loop puts together by push_back and insert at the end, *)
(* one item after the other.                                               *)
(***************************************************************************)
EXTENDS Naturals, Sequences, SequencesExt

\* The first n of the sequences f[1], f[2], ... one behind the other.
Joined(f, n) == FlattenSeq([k \in 1 .. n |-> f[k]])

\* The elements of s at the positions in I, in their order.
Picks(s, I) == [k \in 1 .. Len(s) |-> IF k \in I THEN <<s[k]>> ELSE <<>>]
Selected(s, I) == Joined(Picks(s, I), Len(s))
=============================================================================

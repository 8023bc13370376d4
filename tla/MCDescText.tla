------------------------------ MODULE MCDescText ------------------------------
(***************************************************************************)
(* Every shard of one to three descriptions, each of at most two           *)
(* characters from Chars, with empty and repeated descriptions among them. *)
(***************************************************************************)
EXTENDS DescText, FiniteSets

CONSTANT Chars

\* A description may hold a plain character or a newline.
MultiLineChars == {"a", NL}

Descs == {""} \cup Chars \cup {c \o d : c, d \in Chars}

VARIABLE descs

Init == descs \in UNION {[1..n -> Descs] : n \in 1..3}

\* Each state is one shard; nothing changes it.
Next == UNCHANGED descs

Spec == Init /\ [][Next]_descs

\* Looking up position i (0-based) of the shard's evaluated, split text
\* gives the i-th description the file was written with, for every i, and
\* there are no more positions than descriptions: duplicates and empty
\* descriptions do not shift the positions the search index relies on.
PositionalLookup ==
  LET text == ShardText(descs)
  IN /\ Len(SplitLines(Unescape(text))) = Len(descs)
     /\ \A i \in 0..Len(descs) - 1 : LookupDesc(text, i) = descs[i + 1]
=============================================================================

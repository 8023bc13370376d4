------------------------------ MODULE DescText ------------------------------
(***************************************************************************)
(* The data argument of a description shard and how the search UI reads   *)
(* it back.  The file search.desc/glib/glib-desc-1-.js passes its         *)
(* descriptions as one double-quoted JS string literal in which they are   *)
(* separated by the escape \n; the UI (not in the repository; modelled     *)
(* from spec 3) splits the evaluated string at each newline and finds      *)
(* description N of the shard by position alone.                           *)
(*                                                                         *)
(* The file shows no other escape.  A backslash or a double quote inside a *)
(* description could only be written as \\ and \" in such a literal, and a *)
(* newline only as \n, the separator's own text.                           *)
(***************************************************************************)
EXTENDS Integers, Sequences, FragmentLayout

NL == "\n"

Head1(s) == SubSeq(s, 1, 1)
Rest(s, k) == SubSeq(s, k + 1, Len(s))

\* A character as the literal writes it.
EscapeChar(c) ==
  CASE c = NL     -> "\\n"
    [] c = "\\"   -> "\\\\"
    [] c = "\""   -> "\\\""
    [] OTHER      -> c

RECURSIVE EscapeDesc(_)
EscapeDesc(s) ==
  IF s = "" THEN "" ELSE EscapeChar(Head1(s)) \o EscapeDesc(Rest(s, 1))

\* The text between the quotes of the call: the escaped descriptions with
\* the two characters \n between neighbours.
ShardText(descs) ==
  Joined([i \in DOMAIN descs |-> EscapeDesc(descs[i])], "\\n")

\* The string the literal evaluates to: escapes are read left to right, so
\* \\ followed by n is a backslash and an n, not a newline.
RECURSIVE Unescape(_)
Unescape(lit) ==
  IF lit = "" THEN ""
  ELSE IF Head1(lit) = "\\"
       THEN (IF SubSeq(lit, 2, 2) = "n" THEN NL ELSE SubSeq(lit, 2, 2))
              \o Unescape(Rest(lit, 2))
       ELSE Head1(lit) \o Unescape(Rest(lit, 1))

\* data.split("\n") of the search UI (spec-modelled): the pieces between
\* newlines, an empty piece where two newlines meet or the text ends.
RECURSIVE SplitLines(_)
SplitLines(s) ==
  LET cuts == {i \in 1..Len(s) : SubSeq(s, i, i) = NL}
  IN IF cuts = {} THEN <<s>>
     ELSE LET i == CHOOSE i \in cuts : \A j \in cuts : i <= j
          IN <<SubSeq(s, 1, i - 1)>> \o SplitLines(Rest(s, i))

\* The description the UI finds at 0-based position idx of a shard text.
LookupDesc(text, idx) == SplitLines(Unescape(text))[idx + 1]
=============================================================================

--------------------------- MODULE FragmentLayout ---------------------------
(***************************************************************************)
(* The text of an Object.fromEntries data file and its trailing layout     *)
(* comment //{"start":S,"fragment_lengths":[L1,...,Ln]}.  The array of     *)
(* crate entries begins at character offset S (just past its "["), entry 1 *)
(* takes the next L1 characters, and every later entry i takes Li          *)
(* characters that begin with its separating ",".                          *)
(*                                                                         *)
(* An entry is ["<crate>",[<item>,...]] and an item is ["<html>"] or       *)
(* ["<html>",0].  Only the length of the html matters to the comment.     *)
(***************************************************************************)
EXTENDS Integers, Sequences, SequencesExt

Quote(x) == "\"" \o x \o "\""

\* Concatenation of a sequence of strings with sep between neighbours.
Joined(strs, sep) ==
  FoldLeft(LAMBDA acc, i : IF i = 1 THEN strs[1] ELSE acc \o sep \o strs[i],
           "", [i \in DOMAIN strs |-> i])

ItemText(item) ==
  "[" \o Quote(item.html) \o (IF item.flag THEN ",0" ELSE "") \o "]"

EntryText(e) ==
  "[" \o Quote(e.crate) \o ",["
      \o Joined([i \in DOMAIN e.items |-> ItemText(e.items[i])], ",") \o "]]"

\* Mutation: start is taken at the "[" instead of just past it.
PrefixBeforeBracket(decl, name) ==
  "(function() {\n    " \o decl \o " " \o name \o " = Object.fromEntries("

\* Line 2 up to the array: the IIFE opening and the declaration.
Prefix(decl, name) ==
  "(function() {\n    " \o decl \o " " \o name \o " = Object.fromEntries(["

\* The fragments that fragment_lengths measures.
Fragments(entries) ==
  [i \in DOMAIN entries |->
     IF i = 1 THEN EntryText(entries[1]) ELSE "," \o EntryText(entries[i])]

\* The trailing comment the file carries.
Layout(decl, name, entries) ==
  [start |-> Len(Prefix(decl, name)),
   lengths |-> [i \in DOMAIN entries |-> Len(Fragments(entries)[i])]]
=============================================================================

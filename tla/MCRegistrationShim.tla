------------------------- MODULE MCRegistrationShim -------------------------
(* Every page of the site: a trait page loads its one trait.impl script, a *)
(* type alias page its one type.impl script.                              *)
EXTENDS Integers, DocSite, RegistrationShim, FragmentLayout

MCPages == {{s} : s \in DOMAIN Site}

MCSlotOf == [s \in DOMAIN Site |-> Site[s].slot]

\* A stand-in for an HTML string of n characters (its content is inert).
RECURSIVE Html(_)
Html(n) ==
  IF n = 0 THEN ""
  ELSE LET half == Html(n \div 2)
       IN half \o half \o (IF n % 2 = 1 THEN "x" ELSE "")

\* The crate entries of a site file, rebuilt from its keys, its items'
\* html lengths and their ,0 field.
SiteEntries(f) ==
  [i \in DOMAIN f.crates |->
     [crate |-> f.crates[i],
      items |-> [j \in DOMAIN f.html[i] |->
                   [html |-> Html(f.html[i][j]), flag |-> f.flag]]]]

\* The layout comment of every data script the page loads is the one its
\* own text calls for: start is the length of its line 1-2 prefix (which
\* differs between var and const and between the two table names), and
\* fragment i is entry i's exact length, the separating "," counted for
\* every entry but the first.
RecordedLayoutMatches ==
  \A s \in page :
    LET f == Site[s]
        l == Layout(f.decl, f.slot, SiteEntries(f))
    IN f.meta => f.start = l.start /\ f.lengths = l.lengths
=============================================================================

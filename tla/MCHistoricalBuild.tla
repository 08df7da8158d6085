------------------------- MODULE MCHistoricalBuild -------------------------
(***************************************************************************)
(* Histories of three commits: the first may be the root, and any commit   *)
(* may follow a revision outside of the list.  The second content changes  *)
(* f, moves g to the other file with another hash and adds k; in the third *)
(* g has its first hash again.                                             *)
(***************************************************************************)
EXTENDS AnalyzeResults

MCParents == {p \in [1..N -> (0..N) \cup {None}] :
                \A c \in 1..N : IF p[c] = None THEN c = 1 ELSE p[c] < c}

Content(x, y) == [file \in Files |-> IF file = "x.o" THEN x ELSE y]
Table(f, g, k) == [s \in Symbols |-> CASE s = "f" -> f [] s = "g" -> g [] s = "k" -> k]

First == Content(Table("h1", "h1", None), Nothing)
Second == Content(Table("h2", None, "h1"), Table(None, "h2", None))
Third == Content(Table("h2", None, "h1"), Table(None, "h1", None))

MCSources == {source0 \in [0..N -> {First, Second, Third}] :
                /\ source0[0] = First /\ source0[N] # Second
                /\ \A c \in 1..(N - 1) : source0[c] # Third}
=============================================================================

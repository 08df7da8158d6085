------------------------ MODULE MCHistoryEvaluation ------------------------
(***************************************************************************)
(* Three builds.  The data of a revision is missing, or f calls g and one  *)
(* or the other has changed, or the record of g is broken, or a static g   *)
(* of another file hides g, or there are no functions.  Of the revisions   *)
(* that are no builds, 4 has no data.                                      *)
(***************************************************************************)
EXTENDS HistoryEvaluation

F == <<"function", "f">>
G == <<"function", "g">>
H == <<"function", "h">>
E(elem, hash, uses) == [elem |-> elem, hash |-> hash, uses |-> uses]

Full == <<E(F, 1, {G}), E(G, 1, {H}), E(H, 1, {})>>
Variable == <<E(<<"static variable", "v">>, 1, {F})>>

Datasets ==
  {<<>>, Full, Variable,
   <<E(F, 1, {G}), E(G, 1, {H}), E(H, 2, {})>>,
   <<E(F, 2, {G}), Broken, E(G, 1, {})>>,
   <<E(<<"static function", "g">>, 2, {}), E(F, 1, {G}), E(G, 1, {H})>>,
   <<E(<<"static variable", "v">>, 2, {F})>>}

MCHistories ==
  {h \in [0..4 -> Datasets] : h[0] \in {Full, Variable} /\ h[4] = <<>>}

MCParents == {p \in [1..3 -> (0..4) \cup {None}] :
                /\ p[1] \in {None, 0} /\ p[2] \in {0, 1, 4} /\ p[3] \in {0, 1, 2, 4}}

MCDiffs == {{}, {H}, {F, G}}
=============================================================================

--------------------------- MODULE MCObjectCache ---------------------------
(***************************************************************************)
(* Small instances of ObjectCache.  Versions 1 and 2 differ in their       *)
(* object code, 3 is 1 with a change its hash does not see (a comment).    *)
(***************************************************************************)
EXTENDS ObjectCache, TLC

MCTUHash == [v \in Versions |-> IF v = 2 THEN "h2" ELSE "h1"]
MCCode == [v \in Versions |-> IF v = 2 THEN "c2" ELSE "c1"]

InodeSymmetry == Permutations(Inodes)
=============================================================================

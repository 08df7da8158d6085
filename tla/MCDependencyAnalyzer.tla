------------------------ MODULE MCDependencyAnalyzer ------------------------
(***************************************************************************)
(* All call graphs of a few functions.                                     *)
(***************************************************************************)
EXTENDS DependencyAnalyzer, TLC

AllCallGraphs == UNION {[K -> SUBSET Symbols] : K \in SUBSET Symbols}

Symmetry == Permutations(Symbols) \cup Permutations(Hashes)
=============================================================================

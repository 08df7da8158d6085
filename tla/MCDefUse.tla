------------------------------ MODULE MCDefUse ------------------------------
(***************************************************************************)
(* All translation units with a few declarations.                          *)
(***************************************************************************)
EXTENDS DefUse, TLC

Symmetry == Permutations(Decls)
=============================================================================

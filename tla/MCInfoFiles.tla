---------------------------- MODULE MCInfoFiles ----------------------------
(***************************************************************************)
(* Two object files with a definition of their own and an inline function  *)
(* from a header that both include and that changes.                       *)
(***************************************************************************)
EXTENDS InfoFiles, TLC

MCElements ==
  [o \in Objs |-> [v \in 1..MaxVersion |->
     ("inline" :> v) @@ (o :> 1) @@ (IF v = 1 THEN "variable" :> 1 ELSE "function" :> 1)]]
=============================================================================

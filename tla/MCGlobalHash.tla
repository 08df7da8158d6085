---------------------------- MODULE MCGlobalHash ----------------------------
(***************************************************************************)
(* All use graphs over two functions and a variable, one of the functions  *)
(* with the name of the variable.                                          *)
(***************************************************************************)
EXTENDS GlobalHash

CONSTANTS a, b

MCNames == {a, b}

MCSymbols == {<<"function", a>>, <<"variable", a>>, <<"function", b>>}

AllGraphs == [MCSymbols -> SUBSET MCSymbols]
=============================================================================

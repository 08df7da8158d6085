------------------------------- MODULE DefUse -------------------------------
(***************************************************************************)
(* DefinitionUseVisitor of the clang plugin: a walk over the syntax tree   *)
(* of a translation unit that records, for every function and every        *)
(* variable with global storage, which functions and global variables its  *)
(* code refers to.  clang-hash-global builds its use graph from the lists. *)
(*                                                                         *)
(* The tree is any tree a C program can have: the walk meets declarations  *)
(* and references in any order, but each reference after the declaration   *)
(* it refers to.  The variables `within' and `outer' are about the tree,   *)
(* not state of the program: what a declaration really refers to, and      *)
(* which ones have a declaration of a function or global variable inside.  *)
(***************************************************************************)
EXTENDS Naturals, Sequences

CONSTANTS Decls, Null

ASSUME NullAssumption == Null \notin Decls

VARIABLES
  kind,               \* what each Decl is
  open,               \* the declarations around the walk's place, outermost first
  seen,               \* the declarations met so far
  CurrentDefinition,
  DefUseSilo,
  within,             \* the recorded kinds of declarations referred to inside
  outer

vars == <<kind, open, seen, CurrentDefinition, DefUseSilo, within, outer>>

\* FunctionDecl, VarDecl with hasGlobalStorage() (static and extern locals too),
\* and all the others: locals, parameters, types.
Kinds == {"function", "global", "other"}
Recorded(D) == kind[D] # "other"

Open == {open[i] : i \in 1..Len(open)}

TypeOK ==
  /\ kind \in [Decls -> Kinds]
  /\ open \in Seq(Decls)
  /\ seen \in SUBSET Decls
  /\ CurrentDefinition \in Decls \cup {Null}
  /\ DefUseSilo \in [Decls -> SUBSET Decls]
  /\ within \in [Decls -> SUBSET Decls]
  /\ outer \in SUBSET Decls

\* No constructor sets CurrentDefinition: it starts with what is on the stack,
\* where the visitor that ran before has left pointers to declarations.
Init ==
  /\ kind \in [Decls -> Kinds]
  /\ open = <<>>
  /\ seen = {}
  /\ CurrentDefinition \in Decls \cup {Null}
  /\ DefUseSilo = [D \in Decls |-> {}]
  /\ within = [D \in Decls |-> {}]
  /\ outer = {}

\* Where C has declarations: functions and global variables at top level and in
\* the bodies of functions, the others in everything but global variables.
MayDeclare(D) ==
  open # <<>> =>
    IF Recorded(D) THEN Len(open) = 1 /\ kind[open[1]] = "function"
                   ELSE kind[open[Len(open)]] # "global"

\* TraverseDecl up to the call of Inherited::TraverseDecl.
TraverseDecl(D) ==
  /\ D \notin seen
  /\ MayDeclare(D)
  /\ open' = Append(open, D)
  /\ seen' = seen \cup {D}
  /\ CurrentDefinition' = IF Recorded(D) THEN D ELSE CurrentDefinition
  /\ outer' = IF Recorded(D) THEN outer \cup Open ELSE outer
  /\ UNCHANGED <<kind, DefUseSilo, within>>

\* Mistake: CurrentDefinition stays.
LeaveKeeps ==
  /\ open # <<>>
  /\ open' = SubSeq(open, 1, Len(open) - 1)
  /\ UNCHANGED <<kind, seen, CurrentDefinition, DefUseSilo, within, outer>>

\* TraverseDecl after that call.
Leave ==
  /\ open # <<>>
  /\ open' = SubSeq(open, 1, Len(open) - 1)
  /\ CurrentDefinition' = IF Recorded(open[Len(open)]) THEN Null ELSE CurrentDefinition
  /\ UNCHANGED <<kind, seen, DefUseSilo, within, outer>>

Record(D) ==
  DefUseSilo' = IF CurrentDefinition = Null THEN DefUseSilo
                ELSE [DefUseSilo EXCEPT ![CurrentDefinition] = @ \cup {D}]

Refer(D) ==
  /\ open # <<>>
  /\ within' = [E \in Decls |-> IF E \in Open THEN within[E] \cup {D} ELSE within[E]]
  /\ UNCHANGED <<kind, open, seen, CurrentDefinition, outer>>

\* Mistake: references to variables are not recorded.
VisitDeclRefExprCalls(D) ==
  D \in seen /\ Recorded(D) /\ Refer(D) /\ IF kind[D] = "function" THEN Record(D) ELSE UNCHANGED DefUseSilo

VisitDeclRefExpr(D) == D \in seen /\ Recorded(D) /\ Refer(D) /\ Record(D)

VisitCallExpr(D) == D \in seen /\ kind[D] = "function" /\ Refer(D) /\ Record(D)

Next ==
  \/ Leave
  \/ \E D \in Decls : TraverseDecl(D) \/ VisitDeclRefExpr(D) \/ VisitCallExpr(D)

Spec == Init /\ [][Next]_vars

-----------------------------------------------------------------------------
(* Properties.                                                             *)

\* OnlyOwnUses: what is recorded for a definition is referred to inside it.  In
\* particular the value CurrentDefinition starts with is never used, because
\* a reference comes after a declaration, which resets it.
OnlyOwnUses == \A D \in Decls : DefUseSilo[D] \subseteq within[D]

\* A function or variable the walk is through with.
Finished(D) == D \in seen \ Open /\ Recorded(D)

\* PlainUsesRecorded: all that is referred to inside a definition is recorded for
\* it, if no function or global variable is declared inside.
PlainUsesRecorded == \A D \in Decls : Finished(D) /\ D \notin outer => DefUseSilo[D] = within[D]

\* AllUsesRecorded: the same of every definition ("Record all uses of interessting
\* definitions", HandleTranslationUnit).
AllUsesRecorded == \A D \in Decls : Finished(D) => DefUseSilo[D] = within[D]
=============================================================================

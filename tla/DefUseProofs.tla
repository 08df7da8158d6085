---------------------------- MODULE DefUseProofs ----------------------------
(***************************************************************************)
(* The visitor records nothing for a definition that its code does not     *)
(* refer to, and all of it if no definition is inside, in every            *)
(* translation unit.                                                       *)
(***************************************************************************)
EXTENDS DefUse, SequenceTheorems, TLAPS

\* What the declarations around the walk's place become in each step.
LEMMA PushedIs ==
  ASSUME TypeOK, NEW D \in Decls, TraverseDecl(D)
  PROVE  /\ open' \in Seq(Decls)
         /\ Len(open) \in Nat
         /\ Len(open') = Len(open) + 1
         /\ \A i \in 1..Len(open) : open'[i] = open[i]
         /\ open'[Len(open) + 1] = D
BY AppendProperties, LenProperties DEF TraverseDecl, TypeOK

LEMMA Pushed ==
  ASSUME TypeOK, NEW D \in Decls, TraverseDecl(D)
  PROVE  open' \in Seq(Decls) /\ Open' = Open \cup {D}
<1>1. /\ open' \in Seq(Decls)
      /\ Len(open) \in Nat
      /\ Len(open') = Len(open) + 1
      /\ \A i \in 1..Len(open) : open'[i] = open[i]
      /\ open'[Len(open) + 1] = D
  BY PushedIs
<1>2. \A i \in 1..Len(open') : i \in 1..Len(open) \/ i = Len(open) + 1
  BY <1>1
<1>3. 1..Len(open) \subseteq 1..Len(open') /\ Len(open) + 1 \in 1..Len(open')
  BY <1>1
<1> QED BY <1>1, <1>2, <1>3 DEF Open

LEMMA PoppedIs ==
  ASSUME TypeOK, Leave
  PROVE  /\ Len(open) \in Nat /\ Len(open) > 0
         /\ open' \in Seq(Decls)
         /\ Len(open') = Len(open) - 1
         /\ \A i \in 1..(Len(open) - 1) : open'[i] = open[i]
<1>1. Len(open) \in Nat /\ Len(open) > 0
  BY EmptySeq, LenProperties DEF Leave, TypeOK
<1> DEFINE n == Len(open) - 1
<1>2. open \in Seq(Decls) /\ open' = SubSeq(open, 1, n)
  BY DEF Leave, TypeOK
<1>3. 1 \in Nat /\ n \in Nat /\ 1 \in 1..(Len(open) + 1) /\ n \in 0..Len(open) /\ n + 1 - 1 = n
  BY <1>1
<1>4. \A i \in 1..n : i \in 1..Len(open) /\ 1 + i - 1 = i
  BY <1>1
<1> HIDE DEF n
<1>5. /\ SubSeq(open, 1, n) \in Seq(Decls)
      /\ Len(SubSeq(open, 1, n)) = n
      /\ \A i \in 1..n : SubSeq(open, 1, n)[i] = open[i]
  BY <1>2, <1>3, <1>4, SubSeqProperties
<1> QED BY <1>1, <1>2, <1>5 DEF n

LEMMA Popped ==
  ASSUME TypeOK, Leave
  PROVE  /\ open' \in Seq(Decls)
         /\ open[Len(open)] \in Decls
         /\ Open \subseteq Open' \cup {open[Len(open)]}
<1>1. Len(open) \in Nat /\ Len(open) > 0
  BY PoppedIs
<1>2. Len(open) \in 1..Len(open)
  BY <1>1
<1>3. /\ open' \in Seq(Decls)
      /\ Len(open') = Len(open) - 1
      /\ \A i \in 1..(Len(open) - 1) : open'[i] = open[i]
  BY PoppedIs
<1>4. \A i \in 1..Len(open) : i \in 1..(Len(open) - 1) \/ i = Len(open)
  BY <1>1
<1>5. open[Len(open)] \in Decls
  BY <1>2, ElementOfSeq DEF TypeOK
<1> QED BY <1>3, <1>4, <1>5 DEF Open

LEMMA TypeStep == TypeOK /\ [Next]_vars => TypeOK'
<1> SUFFICES ASSUME TypeOK, [Next]_vars PROVE TypeOK'
  OBVIOUS
<1>1. CASE UNCHANGED vars
  BY <1>1 DEF vars, TypeOK
<1>2. CASE Leave
  BY <1>2, Popped DEF Leave, TypeOK
<1>3. ASSUME NEW D \in Decls, TraverseDecl(D) PROVE TypeOK'
  <2>1. Open \subseteq Decls
    BY ElementOfSeq, LenProperties DEF Open, TypeOK
  <2> QED BY <1>3, <2>1, Pushed DEF TraverseDecl, TypeOK
<1>4. ASSUME NEW D \in Decls, Refer(D), Record(D) PROVE TypeOK'
  BY <1>4 DEF Refer, Record, TypeOK
<1> QED BY <1>1, <1>2, <1>3, <1>4 DEF Next, VisitDeclRefExpr, VisitCallExpr

\* Once a function or a global variable has been met, CurrentDefinition is null
\* or a definition around the walk's place.
CurrentInv ==
  CurrentDefinition # Null /\ (\E D \in seen : Recorded(D)) =>
    CurrentDefinition \in Open /\ Recorded(CurrentDefinition)

Inv == TypeOK /\ CurrentInv /\ OnlyOwnUses

LEMMA InvStep == Inv /\ [Next]_vars => Inv'
<1> SUFFICES ASSUME TypeOK, CurrentInv, OnlyOwnUses, [Next]_vars
             PROVE  CurrentInv' /\ OnlyOwnUses'
  BY TypeStep DEF Inv
<1>1. CASE UNCHANGED vars
  BY <1>1 DEF vars, CurrentInv, OnlyOwnUses, Open, Recorded
<1>2. CASE Leave
  <2>1. OnlyOwnUses'
    BY <1>2 DEF Leave, OnlyOwnUses
  <2>2. CASE Recorded(open[Len(open)])
    BY <1>2, <2>1, <2>2 DEF Leave, CurrentInv
  <2>3. CASE ~Recorded(open[Len(open)])
    <3>1. UNCHANGED <<kind, seen, CurrentDefinition>>
      BY <1>2, <2>3 DEF Leave
    <3> QED BY <1>2, <2>1, <2>3, <3>1, Popped DEF CurrentInv, Recorded
  <2> QED BY <2>2, <2>3
<1>3. ASSUME NEW D \in Decls, TraverseDecl(D) PROVE CurrentInv' /\ OnlyOwnUses'
  <2>1. OnlyOwnUses'
    BY <1>3 DEF TraverseDecl, OnlyOwnUses
  <2>2. /\ seen' = seen \cup {D}
        /\ kind' = kind
        /\ CurrentDefinition' = IF Recorded(D) THEN D ELSE CurrentDefinition
        /\ Open' = Open \cup {D}
    BY <1>3, Pushed DEF TraverseDecl
  <2> QED BY <2>1, <2>2 DEF CurrentInv, Recorded
<1>4. ASSUME NEW D \in Decls, D \in seen, Recorded(D), Refer(D), Record(D)
      PROVE  CurrentInv' /\ OnlyOwnUses'
  <2>1. CurrentInv'
    BY <1>4 DEF Refer, CurrentInv, Open, Recorded
  <2>2. CurrentDefinition = Null \/ CurrentDefinition \in Open
    BY <1>4 DEF CurrentInv
  <2> QED BY <1>4, <2>1, <2>2 DEF Refer, Record, OnlyOwnUses, TypeOK
<1> QED BY <1>1, <1>2, <1>3, <1>4 DEF Next, VisitDeclRefExpr, VisitCallExpr, Recorded

\* Whatever declarations a translation unit has and whatever CurrentDefinition
\* starts with, only what a definition refers to is recorded for it.
THEOREM DefUseOnlyOwn == Spec => []OnlyOwnUses
<1>1. Init => Inv
  BY DEF Init, Inv, TypeOK, CurrentInv, OnlyOwnUses
<1>2. Inv => OnlyOwnUses
  BY DEF Inv
<1> QED BY <1>1, <1>2, InvStep, PTL DEF Spec

(***************************************************************************)
(* What is referred to is recorded, too.                                   *)
(***************************************************************************)
\* A definition that has another one open inside of it is in outer.
NestInv ==
  \A i, j \in 1..Len(open) : i < j /\ Recorded(open[j]) => open[i] \in outer

\* While the walk is in a definition without inner ones, uses go to that one.
OwnInv == \A D \in Open : Recorded(D) /\ D \notin outer => CurrentDefinition = D

\* Lists are complete at any time, and empty before a declaration is met.
CompleteInv ==
  \A D \in Decls :
    /\ D \notin seen => DefUseSilo[D] = {} /\ within[D] = {}
    /\ Recorded(D) /\ D \notin outer => DefUseSilo[D] = within[D]

SeenInv == Open \subseteq seen

PlainInv == Inv /\ SeenInv /\ NestInv /\ OwnInv /\ CompleteInv

LEMMA SeenStep == TypeOK /\ SeenInv /\ [Next]_vars => SeenInv'
<1> SUFFICES ASSUME TypeOK, SeenInv, [Next]_vars PROVE SeenInv'
  OBVIOUS
<1>1. CASE UNCHANGED vars
  BY <1>1 DEF vars, SeenInv, Open
<1>2. CASE Leave
  BY <1>2, PoppedIs DEF Leave, SeenInv, Open
<1>3. ASSUME NEW D \in Decls, TraverseDecl(D) PROVE SeenInv'
  BY <1>3, Pushed DEF TraverseDecl, SeenInv
<1>4. ASSUME NEW D \in Decls, Refer(D) PROVE SeenInv'
  BY <1>4 DEF Refer, SeenInv, Open
<1> QED BY <1>1, <1>2, <1>3, <1>4 DEF Next, VisitDeclRefExpr, VisitCallExpr

LEMMA NestStep == TypeOK /\ NestInv /\ [Next]_vars => NestInv'
<1> SUFFICES ASSUME TypeOK, NestInv, [Next]_vars PROVE NestInv'
  OBVIOUS
<1>1. CASE UNCHANGED vars
  BY <1>1 DEF vars, NestInv, Recorded
<1>2. CASE Leave
  <2>1. kind' = kind /\ outer' = outer
    BY <1>2 DEF Leave
  <2>2. 1..Len(open') \subseteq 1..Len(open) /\ \A i \in 1..Len(open') : open'[i] = open[i]
    BY <1>2, PoppedIs
  <2> QED BY <2>1, <2>2 DEF NestInv, Recorded
<1>3. ASSUME NEW D \in Decls, TraverseDecl(D) PROVE NestInv'
  <2> SUFFICES ASSUME NEW i \in 1..Len(open'), NEW j \in 1..Len(open'), i < j,
                      Recorded(open[j])'
               PROVE  open'[i] \in outer'
    BY DEF NestInv
  <2>1. /\ Len(open) \in Nat /\ Len(open') = Len(open) + 1
        /\ \A k \in 1..Len(open) : open'[k] = open[k]
        /\ open'[Len(open) + 1] = D
    BY <1>3, PushedIs
  <2>2. i \in 1..Len(open)
    BY <2>1
  <2>3. kind' = kind /\ outer \subseteq outer'
    BY <1>3 DEF TraverseDecl
  <2>4. CASE j \in 1..Len(open)
    BY <2>1, <2>2, <2>3, <2>4 DEF NestInv, Recorded
  <2>5. CASE j = Len(open) + 1
    <3>1. Recorded(D)
      BY <2>1, <2>3, <2>5 DEF Recorded
    <3>2. outer' = outer \cup Open
      BY <1>3, <3>1 DEF TraverseDecl
    <3>3. open[i] \in Open
      BY <2>2 DEF Open
    <3> QED BY <2>1, <2>2, <3>2, <3>3
  <2> QED BY <2>1, <2>4, <2>5
<1>4. ASSUME NEW D \in Decls, Refer(D) PROVE NestInv'
  BY <1>4 DEF Refer, NestInv, Recorded
<1> QED BY <1>1, <1>2, <1>3, <1>4 DEF Next, VisitDeclRefExpr, VisitCallExpr

LEMMA OwnStep == TypeOK /\ SeenInv /\ NestInv /\ OwnInv /\ [Next]_vars => OwnInv'
<1> SUFFICES ASSUME TypeOK, SeenInv, NestInv, OwnInv, [Next]_vars PROVE OwnInv'
  OBVIOUS
<1>1. CASE UNCHANGED vars
  BY <1>1 DEF vars, OwnInv, Recorded, Open
<1>2. CASE Leave
  <2> SUFFICES ASSUME NEW D \in Open', Recorded(D)', D \notin outer' PROVE CurrentDefinition' = D
    BY DEF OwnInv
  <2>1. PICK i \in 1..(Len(open) - 1) : D = open[i]
    BY <1>2, PoppedIs DEF Open
  <2>2. Len(open) \in Nat /\ Len(open) > 0
    BY <1>2, PoppedIs
  <2>3. D \in Open /\ Recorded(D) /\ D \notin outer
    BY <1>2, <2>1, <2>2 DEF Open, Leave, Recorded
  <2>4. ~Recorded(open[Len(open)])
    BY <2>1, <2>2, <2>3 DEF NestInv
  <2> QED BY <1>2, <2>3, <2>4 DEF Leave, OwnInv
<1>3. ASSUME NEW D \in Decls, TraverseDecl(D) PROVE OwnInv'
  <2>1. Open' = Open \cup {D}
    BY <1>3, Pushed
  <2> QED BY <1>3, <2>1 DEF TraverseDecl, OwnInv, Recorded
<1>4. ASSUME NEW D \in Decls, Refer(D) PROVE OwnInv'
  BY <1>4 DEF Refer, OwnInv, Recorded, Open
<1> QED BY <1>1, <1>2, <1>3, <1>4 DEF Next, VisitDeclRefExpr, VisitCallExpr

LEMMA CompleteStep ==
  TypeOK /\ CurrentInv /\ SeenInv /\ OwnInv /\ CompleteInv /\ [Next]_vars => CompleteInv'
<1> SUFFICES ASSUME TypeOK, CurrentInv, SeenInv, OwnInv, CompleteInv, [Next]_vars
             PROVE  CompleteInv'
  OBVIOUS
<1>1. CASE UNCHANGED vars
  BY <1>1 DEF vars, CompleteInv, Recorded
<1>2. CASE Leave
  BY <1>2 DEF Leave, CompleteInv, Recorded
<1>3. ASSUME NEW D \in Decls, TraverseDecl(D) PROVE CompleteInv'
  BY <1>3 DEF TraverseDecl, CompleteInv, Recorded
<1>4. ASSUME NEW D \in Decls, D \in seen, Recorded(D), Refer(D), Record(D)
      PROVE  CompleteInv'
  <2> SUFFICES ASSUME NEW E \in Decls
               PROVE  /\ E \notin seen => DefUseSilo'[E] = {} /\ within'[E] = {}
                      /\ Recorded(E) /\ E \notin outer => DefUseSilo'[E] = within'[E]
    BY <1>4 DEF CompleteInv, Refer, Recorded
  <2>1. CurrentDefinition # Null => CurrentDefinition \in Open
    BY <1>4 DEF CurrentInv
  <2>2. within'[E] = IF E \in Open THEN within[E] \cup {D} ELSE within[E]
    BY <1>4 DEF Refer
  <2>3. DefUseSilo'[E] = IF E = CurrentDefinition /\ CurrentDefinition # Null
                         THEN DefUseSilo[E] \cup {D} ELSE DefUseSilo[E]
    BY <1>4 DEF Record, TypeOK
  <2>4. E \notin seen => DefUseSilo'[E] = {} /\ within'[E] = {}
    BY <2>1, <2>2, <2>3 DEF SeenInv, CompleteInv
  <2>5. E \in Open /\ Recorded(E) /\ E \notin outer => E = CurrentDefinition /\ E # Null
    BY NullAssumption DEF OwnInv
  <2> QED BY <2>1, <2>2, <2>3, <2>4, <2>5 DEF CompleteInv
<1> QED BY <1>1, <1>2, <1>3, <1>4 DEF Next, VisitDeclRefExpr, VisitCallExpr, Recorded

\* Whatever is referred to inside a function or global variable without an inner
\* one is recorded for it, in every translation unit.
THEOREM DefUsePlainUses == Spec => []PlainUsesRecorded
<1>1. Init => PlainInv
  BY DEF Init, PlainInv, Inv, TypeOK, CurrentInv, OnlyOwnUses, SeenInv, NestInv, OwnInv,
         CompleteInv, Open
<1>2. PlainInv /\ [Next]_vars => PlainInv'
  BY InvStep, SeenStep, NestStep, OwnStep, CompleteStep DEF PlainInv, Inv
<1>3. PlainInv => PlainUsesRecorded
  BY DEF PlainInv, CompleteInv, PlainUsesRecorded, Finished
<1> QED BY <1>1, <1>2, <1>3, PTL DEF Spec
=============================================================================

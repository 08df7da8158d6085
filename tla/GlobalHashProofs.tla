-------------------------- MODULE GlobalHashProofs --------------------------
(***************************************************************************)
(* Theorems about get_global_hash for every use graph, finite or not, and  *)
(* every order in which symbols are asked for and lists are gone through.  *)
(***************************************************************************)
EXTENDS GlobalHash, SequenceTheorems, TLAPS

\* The search, whoever asks for what.
SearchNext == Call \/ \E s \in Symbols : Start(s)

\* Only functions and variables use anything: what read_info_files drops is
\* empty.
PlainUses == \A s \in Symbols : Prefix(s) \notin Plain => uses[s] = {}

LEMMA StackFacts ==
  ASSUME TypeOK
  PROVE  /\ stack \in Seq(Frames)
         /\ Len(stack) \in Nat
         /\ \A i \in 1..Len(stack) : stack[i] \in Frames
         /\ Len(stack) > 0 => Top \in Frames
BY LenProperties DEF TypeOK, Top

LEMMA AbsorbedType ==
  ASSUME NEW frame \in Frames, NEW d \in Symbols, NEW hash \in SUBSET Symbols
  PROVE  Absorbed(frame, d, hash) \in Frames
BY DEF Absorbed, Frames

\* What Return does to the stack, at each place of it.
LEMMA ReturnStack ==
  ASSUME TypeOK, Return, Len(stack) # 1
  PROVE  /\ Len(stack) > 1
         /\ stack' \in Seq(Frames)
         /\ Len(stack') = Len(stack) - 1
         /\ \A i \in 1..(Len(stack) - 2) : stack'[i] = stack[i]
         /\ stack'[Len(stack) - 1] = Absorbed(stack[Len(stack) - 1], Top.symbol, Top.hash)
<1> DEFINE l == Len(stack)
           n == l - 1
           s == SubSeq(stack, 1, n)
           e == Absorbed(stack[n], Top.symbol, Top.hash)
<1>0. l > 0 /\ l \in Nat /\ l # 1
  BY StackFacts DEF Return
<1>1. l > 1 /\ n \in Nat /\ n > 0 /\ n \in 1..l
  <2> HIDE DEF l
  <2> QED BY <1>0
<1>2. /\ s \in Seq(Frames)
      /\ Len(s) = n
      /\ \A i \in 1..n : s[i] = stack[i]
  BY <1>1, StackFacts, SubSeqProperties
<1>3. e \in Frames
  BY <1>1, StackFacts, AbsorbedType DEF Frames
<1>4. stack' = [s EXCEPT ![n] = e]
  BY <1>1 DEF Return
<1> HIDE DEF s, e
<1>5. /\ stack' \in Seq(Frames)
      /\ Len(stack') = n
      /\ \A j \in 1..n : stack'[j] = IF j = n THEN e ELSE s[j]
  BY <1>1, <1>2, <1>3, <1>4, ExceptSeq
<1> QED
  BY <1>1, <1>2, <1>5 DEF e

\* What Absorb does to it.
LEMMA AbsorbStack ==
  ASSUME TypeOK, Len(stack) > 0, NEW d \in Symbols, NEW hash \in SUBSET Symbols, Absorb(d, hash)
  PROVE  /\ stack' \in Seq(Frames)
         /\ Len(stack') = Len(stack)
         /\ \A i \in 1..(Len(stack) - 1) : stack'[i] = stack[i]
         /\ stack'[Len(stack)] = Absorbed(Top, d, hash)
<1>1. Absorbed(Top, d, hash) \in Frames /\ Len(stack) \in 1..Len(stack) /\ stack \in Seq(Frames)
  BY StackFacts, AbsorbedType
<1>2. stack' = [stack EXCEPT ![Len(stack)] = Absorbed(Top, d, hash)]
  BY DEF Absorb
<1>3. /\ stack' \in Seq(Frames)
      /\ Len(stack') = Len(stack)
      /\ \A j \in 1..Len(stack) :
           stack'[j] = IF j = Len(stack) THEN Absorbed(Top, d, hash) ELSE stack[j]
  BY <1>1, <1>2, ExceptSeq
<1> QED BY <1>1, <1>3, StackFacts

\* What Descend does to it.
LEMMA DescendStack ==
  ASSUME TypeOK, NEW d \in Symbols, Descend(d)
  PROVE  /\ stack' \in Seq(Frames)
         /\ Len(stack') = Len(stack) + 1
         /\ \A i \in 1..Len(stack) : stack'[i] = stack[i]
         /\ stack'[Len(stack) + 1] = Frame(d)
         /\ Frame(d) \in Frames
<1>1. Frame(d) \in Frames /\ stack \in Seq(Frames)
  BY DEF Frame, Frames, used_definitions, TypeOK
<1> QED
  BY <1>1, AppendProperties DEF Descend

\* Type correctness.
LEMMA TypeInit == Init => TypeOK
BY GraphsAssumption DEF Init, TypeOK

LEMMA TypeStep == TypeOK /\ [SearchNext]_search => TypeOK'
<1> SUFFICES ASSUME TypeOK, [SearchNext]_search PROVE TypeOK'
  OBVIOUS
<1>1. CASE UNCHANGED search
  BY <1>1 DEF search, TypeOK
<1>2. ASSUME NEW s \in Symbols, Start(s) PROVE TypeOK'
  <2>1. Frame(s) \in Frames
    BY DEF Frame, Frames, used_definitions, TypeOK
  <2>2. <<>> \in Seq(Frames) /\ <<Frame(s)>> \in Seq(Frames)
    BY <2>1
  <2> QED BY <1>2, <2>2, AppendProperties DEF Start, TypeOK
<1>3. ASSUME NEW d \in Symbols, ReturnEarly(d) PROVE TypeOK'
  <2>1. PICK hash \in SUBSET Symbols : Absorb(d, hash)
    BY <1>3 DEF ReturnEarly, TypeOK
  <2> QED BY <1>3, <2>1, AbsorbStack DEF ReturnEarly, TypeOK
<1>4. ASSUME NEW d \in Symbols, Descend(d) PROVE TypeOK'
  BY <1>4, DescendStack DEF Descend, TypeOK
<1>5. CASE Return
  <2>1. Top \in Frames
    BY <1>5, StackFacts DEF Return
  <2>2. global_hashes' \in [Symbols -> SUBSET Symbols]
    BY <1>5, <2>1 DEF Return, TypeOK, Frames
  <2>3. stack' \in Seq(Frames)
    <3>1. CASE Len(stack) = 1
      BY <1>5, <3>1 DEF Return
    <3> QED BY <1>5, <3>1, ReturnStack
  <2> QED BY <1>5, <2>2, <2>3 DEF Return, TypeOK
<1> QED BY <1>1, <1>2, <1>3, <1>4, <1>5 DEF SearchNext, Call

\* Every step of the program is one of the search or leaves it alone.
LEMMA SearchStep == TypeOK /\ [Next]_vars => [SearchNext]_search
<1> SUFFICES ASSUME TypeOK, [Next]_vars PROVE [SearchNext]_search
  OBVIOUS
<1>1. ASSUME NEW x \in unchecked, Ask(x) PROVE \E s \in Symbols : Start(s)
  <2>1. Start(real_sym(x)) /\ real_sym(x) \in Symbols
    BY <1>1 DEF Ask, Start, TypeOK
  <2> QED BY <2>1
<1>2. ASSUME NEW x \in unchecked, NotFound(x) PROVE UNCHANGED search
  BY <1>2 DEF NotFound
<1>3. CASE Output
  BY <1>3 DEF Output
<1>4. CASE UNCHANGED vars
  BY <1>4 DEF vars
<1> QED BY <1>1, <1>2, <1>3, <1>4 DEF Next, SearchNext

-----------------------------------------------------------------------------
(* The stack.                                                              *)

\* Every active call is for a symbol with a local hash and without a digest,
\* called by the one below it, and no two are for the same symbol.
StackInv ==
  /\ \A i \in 1..Len(stack) :
       /\ stack[i].symbol \in local_hashes \ Done
       /\ stack[i].symbol \in stack[i].hash
       /\ stack[i].todo \subseteq used_definitions(stack[i].symbol)
  /\ \A i \in 1..(Len(stack) - 1) :
       stack[i + 1].symbol \in used_definitions(stack[i].symbol)
  /\ \A i, j \in 1..Len(stack) : stack[i].symbol = stack[j].symbol => i = j

Inv == TypeOK /\ StackInv

LEMMA InvType == Inv => TypeOK
BY DEF Inv

\* What the innermost call makes of a symbol on its list.
LEMMA EarlyHash ==
  ASSUME TypeOK, NEW d \in Symbols, ReturnEarly(d)
  PROVE  \E hash \in SUBSET Symbols :
           /\ Absorb(d, hash)
           /\ \/ d \notin local_hashes /\ hash = {}
              \/ d \in local_hashes \cap Done /\ hash = global_hashes[d]
              \/ d \in (local_hashes \cap currently_processed) \ Done /\ hash = {d}
BY DEF ReturnEarly, TypeOK

LEMMA StackInit == Init => Inv
BY TypeInit DEF Init, Inv, StackInv

LEMMA StackStep == Inv /\ [SearchNext]_search => Inv'
<1> SUFFICES ASSUME TypeOK, StackInv, [SearchNext]_search PROVE StackInv'
  BY TypeStep DEF Inv
<1>0. Len(stack) \in Nat /\ Len(stack') \in Nat /\ TypeOK'
  BY StackFacts, TypeStep, LenProperties DEF TypeOK
<1>1. CASE UNCHANGED search
  BY <1>1 DEF search, StackInv, Done, used_definitions
<1>2. ASSUME NEW s \in Symbols, Start(s) PROVE StackInv'
  <2>1. CASE s \in Done
    <3>1. Len(stack') = 0
      BY <1>2, <2>1 DEF Start
    <3> QED BY <3>1 DEF StackInv
  <2>2. CASE s \notin Done
    <3>1. Len(stack') = 1 /\ stack'[1] = Frame(s)
      BY <1>2, <2>2 DEF Start
    <3> QED BY <1>2, <2>2, <3>1 DEF Start, StackInv, Frame, Done, used_definitions
  <2> QED BY <2>1, <2>2
<1>3. ASSUME NEW d \in Symbols, ReturnEarly(d) PROVE StackInv'
  <2>1. PICK hash \in SUBSET Symbols : Absorb(d, hash)
    BY <1>3, EarlyHash
  <2>2. /\ Len(stack') = Len(stack)
        /\ \A i \in 1..(Len(stack) - 1) : stack'[i] = stack[i]
        /\ stack'[Len(stack)] = Absorbed(stack[Len(stack)], d, hash)
        /\ UNCHANGED <<local_hashes, global_hashes, uses>>
    BY <1>3, <2>1, AbsorbStack DEF ReturnEarly, Top
  <2>3. \A i \in 1..Len(stack') : /\ i \in 1..Len(stack)
                                  /\ stack'[i].symbol = stack[i].symbol
                                  /\ stack[i].hash \subseteq stack'[i].hash
                                  /\ stack'[i].todo \subseteq stack[i].todo
    BY <1>0, <2>2 DEF Absorbed
  <2> QED
    BY <1>0, <2>2, <2>3 DEF StackInv, Done, used_definitions
<1>4. ASSUME NEW d \in Symbols, Descend(d) PROVE StackInv'
  <2>1. /\ Len(stack) > 0
        /\ d \in stack[Len(stack)].todo
        /\ d \in local_hashes \ Done
        /\ \A i \in 1..Len(stack) : stack[i].symbol # d
        /\ UNCHANGED <<local_hashes, global_hashes, uses>>
    BY <1>4 DEF Descend, Top, currently_processed
  <2>2. /\ Len(stack') = Len(stack) + 1
        /\ \A i \in 1..Len(stack) : stack'[i] = stack[i]
        /\ stack'[Len(stack) + 1] = Frame(d)
    BY <1>4, DescendStack
  <2>3. Done' = Done
    BY <2>1 DEF Done
  <2>4. /\ stack'[Len(stack) + 1].symbol = d
        /\ stack'[Len(stack) + 1].todo = used_definitions(d)
        /\ stack'[Len(stack) + 1].hash = {d}
    BY <2>2 DEF Frame
  <2>5. Len(stack) \in 1..Len(stack)
    BY <1>0, <2>1
  <2>6. ASSUME NEW i \in 1..Len(stack')
        PROVE  i \in 1..Len(stack) \/ i = Len(stack) + 1
    BY <1>0, <2>2
  <2>7. ASSUME NEW i \in 1..Len(stack')
        PROVE  /\ stack'[i].symbol \in local_hashes' \ Done'
               /\ stack'[i].symbol \in stack'[i].hash
               /\ stack'[i].todo \subseteq used_definitions(stack'[i].symbol)
    <3>1. CASE i \in 1..Len(stack)
      BY <2>1, <2>2, <2>3, <3>1 DEF StackInv, used_definitions
    <3>2. CASE i = Len(stack) + 1
      BY <2>1, <2>3, <2>4, <3>2 DEF used_definitions
    <3> QED BY <2>6, <3>1, <3>2
  <2>8. ASSUME NEW i \in 1..(Len(stack') - 1)
        PROVE  stack'[i + 1].symbol \in used_definitions(stack'[i].symbol)
    <3>1. CASE i = Len(stack)
      BY <2>1, <2>2, <2>4, <2>5, <3>1 DEF StackInv, used_definitions
    <3>2. CASE i # Len(stack)
      <4>1. i \in 1..(Len(stack) - 1) /\ i \in 1..Len(stack) /\ i + 1 \in 1..Len(stack)
        BY <1>0, <2>2, <3>2
      <4> QED BY <2>1, <2>2, <4>1 DEF StackInv, used_definitions
    <3> QED BY <3>1, <3>2
  <2>9. ASSUME NEW i \in 1..Len(stack'), NEW j \in 1..Len(stack'),
               stack'[i].symbol = stack'[j].symbol
        PROVE  i = j
    <3>1. CASE i \in 1..Len(stack) /\ j \in 1..Len(stack)
      BY <2>2, <2>9, <3>1 DEF StackInv
    <3>2. CASE i = Len(stack) + 1 \/ j = Len(stack) + 1
      BY <2>1, <2>2, <2>4, <2>6, <2>9, <3>2
    <3> QED BY <2>6, <3>1, <3>2
  <2> QED
    BY <2>1, <2>7, <2>8, <2>9 DEF StackInv, used_definitions
<1>5. CASE Return
  <2>1. CASE Len(stack) = 1
    <3>1. Len(stack') = 0
      BY <1>5, <2>1 DEF Return
    <3> QED BY <3>1 DEF StackInv
  <2>2. CASE Len(stack) # 1
    <3>1. /\ Len(stack) > 1
          /\ Len(stack') = Len(stack) - 1
          /\ \A i \in 1..(Len(stack) - 2) : stack'[i] = stack[i]
          /\ stack'[Len(stack) - 1] = Absorbed(stack[Len(stack) - 1], Top.symbol, Top.hash)
      BY <1>5, <2>2, ReturnStack
    <3>2. /\ Done' \subseteq Done \cup {stack[Len(stack)].symbol}
          /\ UNCHANGED <<local_hashes, uses>>
      BY <1>5 DEF Return, Done, Top, TypeOK
    <3>3. \A i \in 1..Len(stack') : /\ i \in 1..(Len(stack) - 1)
                                    /\ stack'[i].symbol = stack[i].symbol
                                    /\ stack[i].hash \subseteq stack'[i].hash
                                    /\ stack'[i].todo \subseteq stack[i].todo
      BY <1>0, <3>1 DEF Absorbed
    <3>4. \A i \in 1..Len(stack') :
            /\ stack'[i].symbol \in local_hashes' \ Done'
            /\ stack'[i].symbol \in stack'[i].hash
            /\ stack'[i].todo \subseteq used_definitions(stack'[i].symbol)
      BY <1>0, <3>1, <3>2, <3>3 DEF StackInv
    <3>5. \A i \in 1..(Len(stack') - 1) :
            stack'[i + 1].symbol \in used_definitions(stack'[i].symbol)
      <4> SUFFICES ASSUME NEW i \in 1..(Len(stack') - 1)
                   PROVE  stack'[i + 1].symbol \in used_definitions(stack'[i].symbol)
        OBVIOUS
      <4>1. i \in 1..Len(stack') /\ i + 1 \in 1..Len(stack') /\ i \in 1..(Len(stack) - 1)
        BY <1>0, <3>1
      <4> QED BY <3>3, <4>1 DEF StackInv
    <3>6. \A i, j \in 1..Len(stack') : stack'[i].symbol = stack'[j].symbol => i = j
      BY <1>0, <3>1, <3>3 DEF StackInv
    <3> QED BY <3>2, <3>4, <3>5, <3>6 DEF StackInv, used_definitions
  <2> QED BY <2>1, <2>2
<1> QED BY <1>1, <1>2, <1>3, <1>4, <1>5 DEF SearchNext, Call

-----------------------------------------------------------------------------
(* What each step does, in the terms the next two arguments need.          *)

\* Only Return changes the memo table, by one new entry.
LEMMA MemoView ==
  ASSUME Inv, [SearchNext]_search
  PROVE  /\ UNCHANGED <<uses, local_hashes>>
         /\ \A s \in Done : global_hashes'[s] = global_hashes[s]
         /\ Done \subseteq Done'
         /\ Return => Done' = Done \cup {Top.symbol} /\ global_hashes'[Top.symbol] = Top.hash
         /\ ~Return => global_hashes' = global_hashes /\ Done' = Done
<1>1. CASE Return
  <2>1. /\ Top \in Frames
        /\ Top.symbol \notin Done
        /\ Top.symbol \in Top.hash
        /\ global_hashes' = [global_hashes EXCEPT ![Top.symbol] = Top.hash]
    BY <1>1, StackFacts DEF Return, Inv, StackInv, Top
  <2>2. Top.symbol \in Symbols
    BY <2>1 DEF Frames
  <2> QED
    BY <1>1, <2>1, <2>2 DEF Return, Inv, TypeOK, Done
<1>2. CASE ~Return
  BY <1>2 DEF SearchNext, Call, Start, ReturnEarly, Descend, Done, search
<1> QED BY <1>1, <1>2

\* After a step, an active call is one that was active, whose digest may have
\* absorbed more, or a new one that has absorbed its own local hash only.
LEMMA StackView ==
  ASSUME Inv, [SearchNext]_search, NEW i \in 1..Len(stack')
  PROVE  \/ /\ i \in 1..Len(stack)
            /\ stack'[i] = stack[i]
         \/ \E s \in local_hashes : stack'[i] = Frame(s)
         \/ /\ i = Len(stack)
            /\ \E d \in Symbols, hash \in SUBSET Symbols :
                 /\ ReturnEarly(d)
                 /\ d \in stack[i].todo
                 /\ stack'[i] = Absorbed(stack[i], d, hash)
                 /\ \/ d \notin local_hashes /\ hash = {}
                    \/ d \in local_hashes \cap Done /\ hash = global_hashes[d]
                    \/ d \in (local_hashes \cap currently_processed) \ Done /\ hash = {d}
         \/ /\ Return
            /\ i = Len(stack) - 1
            /\ i \in 1..Len(stack)
            /\ stack'[i] = Absorbed(stack[i], Top.symbol, Top.hash)
<1> USE DEF Inv
<1>0. Len(stack) \in Nat /\ Len(stack') \in Nat /\ stack' \in Seq(Frames)
  BY StackFacts, TypeStep, LenProperties DEF TypeOK
<1>1. CASE UNCHANGED search
  BY <1>1 DEF search
<1>2. ASSUME NEW s \in Symbols, Start(s) PROVE stack'[i] = Frame(s) /\ s \in local_hashes
  BY <1>2 DEF Start
<1>3. ASSUME NEW d \in Symbols, ReturnEarly(d)
      PROVE  \/ i \in 1..Len(stack) /\ stack'[i] = stack[i]
             \/ /\ i = Len(stack)
                /\ d \in stack[i].todo
                /\ \E hash \in SUBSET Symbols :
                     /\ stack'[i] = Absorbed(stack[i], d, hash)
                     /\ \/ d \notin local_hashes /\ hash = {}
                        \/ d \in local_hashes \cap Done /\ hash = global_hashes[d]
                        \/ d \in (local_hashes \cap currently_processed) \ Done /\ hash = {d}
  <2>1. PICK hash \in SUBSET Symbols :
           /\ Absorb(d, hash)
           /\ \/ d \notin local_hashes /\ hash = {}
              \/ d \in local_hashes \cap Done /\ hash = global_hashes[d]
              \/ d \in (local_hashes \cap currently_processed) \ Done /\ hash = {d}
    BY <1>3, EarlyHash
  <2>2. /\ Len(stack') = Len(stack)
        /\ \A j \in 1..(Len(stack) - 1) : stack'[j] = stack[j]
        /\ stack'[Len(stack)] = Absorbed(Top, d, hash)
        /\ d \in Top.todo
    BY <1>3, <2>1, AbsorbStack DEF ReturnEarly
  <2>3. i = Len(stack) \/ i \in 1..(Len(stack) - 1)
    BY <1>0, <2>2
  <2> QED BY <1>0, <2>1, <2>2, <2>3 DEF Top
<1>4. ASSUME NEW d \in Symbols, Descend(d)
      PROVE  \/ i \in 1..Len(stack) /\ stack'[i] = stack[i]
             \/ d \in local_hashes /\ stack'[i] = Frame(d)
  <2>1. i = Len(stack) + 1 \/ i \in 1..Len(stack)
    BY <1>0, <1>4, DescendStack
  <2> QED BY <1>4, <2>1, DescendStack DEF Descend
<1>5. ASSUME Return
      PROVE  \/ i \in 1..Len(stack) /\ stack'[i] = stack[i]
             \/ /\ i = Len(stack) - 1 /\ i \in 1..Len(stack)
                /\ stack'[i] = Absorbed(stack[i], Top.symbol, Top.hash)
  <2>1. Len(stack) # 1
    BY <1>5 DEF Return
  <2>2. /\ Len(stack) > 1
        /\ Len(stack') = Len(stack) - 1
        /\ \A j \in 1..(Len(stack) - 2) : stack'[j] = stack[j]
        /\ stack'[Len(stack) - 1] = Absorbed(stack[Len(stack) - 1], Top.symbol, Top.hash)
    BY <1>5, <2>1, ReturnStack
  <2>3. i \in 1..(Len(stack) - 2) \/ i = Len(stack) - 1
    BY <1>0, <2>2
  <2> QED BY <1>0, <2>2, <2>3
<1> QED BY <1>1, <1>2, <1>3, <1>4, <1>5 DEF SearchNext, Call

-----------------------------------------------------------------------------
(* Nothing but what is used.                                               *)

Within(S) ==
  /\ \A s \in Done \cap S : global_hashes[s] \subseteq S
  /\ \A i \in 1..Len(stack) : stack[i].symbol \in S => stack[i].hash \subseteq S

WithinInv == \A S \in SUBSET Symbols : Closed(S) => Within(S)

LEMMA WithinStep == Inv /\ WithinInv /\ [SearchNext]_search => WithinInv'
<1> SUFFICES ASSUME Inv, WithinInv, [SearchNext]_search, NEW S \in SUBSET Symbols, Closed(S)'
             PROVE  Within(S)'
  BY DEF WithinInv
<1>1. Closed(S) /\ Within(S)
  BY MemoView DEF Closed, WithinInv
<1>2. \A s \in Symbols : used_definitions(s) \subseteq uses[s]
  BY DEF used_definitions
<1>3. ASSUME NEW s \in Done', s \in S PROVE global_hashes'[s] \subseteq S
  <2>1. CASE s \in Done
    BY <1>1, <1>3, <2>1, MemoView DEF Within
  <2>2. CASE s \notin Done
    <3>1. Return /\ s = Top.symbol /\ global_hashes'[s] = Top.hash
      BY <1>3, <2>2, MemoView
    <3>2. Len(stack) \in 1..Len(stack)
      BY <3>1, StackFacts DEF Return, Inv
    <3> QED BY <1>1, <1>3, <3>1, <3>2 DEF Within, Top
  <2> QED BY <2>1, <2>2
<1>4. ASSUME NEW i \in 1..Len(stack'), stack'[i].symbol \in S
      PROVE  stack'[i].hash \subseteq S
  <2>1. CASE i \in 1..Len(stack) /\ stack'[i] = stack[i]
    BY <1>1, <1>4, <2>1 DEF Within
  <2>2. CASE \E s \in local_hashes : stack'[i] = Frame(s)
    BY <1>4, <2>2 DEF Frame
  <2>3. CASE /\ i = Len(stack)
             /\ \E d \in Symbols, hash \in SUBSET Symbols :
                  /\ ReturnEarly(d)
                  /\ d \in stack[i].todo
                  /\ stack'[i] = Absorbed(stack[i], d, hash)
                  /\ \/ d \notin local_hashes /\ hash = {}
                     \/ d \in local_hashes \cap Done /\ hash = global_hashes[d]
                     \/ d \in (local_hashes \cap currently_processed) \ Done /\ hash = {d}
    <3>1. PICK d \in Symbols, hash \in SUBSET Symbols :
                  /\ ReturnEarly(d)
                  /\ d \in stack[i].todo
                  /\ stack'[i] = Absorbed(stack[i], d, hash)
                  /\ \/ d \notin local_hashes /\ hash = {}
                     \/ d \in local_hashes \cap Done /\ hash = global_hashes[d]
                     \/ d \in (local_hashes \cap currently_processed) \ Done /\ hash = {d}
      BY <2>3
    <3>2. i \in 1..Len(stack)
      BY <2>3, <3>1, StackFacts DEF Inv, ReturnEarly
    <3>3. stack[i].symbol \in S /\ stack[i].symbol \in Symbols
      BY <1>4, <3>1 DEF Absorbed
    <3>4. d \in local_hashes => d \in S
      BY <1>1, <1>2, <3>1, <3>2, <3>3 DEF Closed, Inv, StackInv
    <3>5. hash \subseteq S
      BY <1>1, <3>1, <3>4 DEF Within
    <3> QED BY <1>1, <3>1, <3>2, <3>3, <3>5 DEF Within, Absorbed
  <2>4. CASE /\ Return
             /\ i = Len(stack) - 1
             /\ i \in 1..Len(stack)
             /\ stack'[i] = Absorbed(stack[i], Top.symbol, Top.hash)
    <3>1. /\ Len(stack) \in 1..Len(stack) /\ i \in 1..(Len(stack) - 1) /\ i + 1 = Len(stack)
      BY <2>4, StackFacts DEF Inv
    <3>2. stack[i].symbol \in S
      BY <1>4, <2>4 DEF Absorbed
    <3>3. stack[i + 1].symbol \in local_hashes /\ stack[i + 1].symbol \in used_definitions(stack[i].symbol)
      BY <3>1 DEF Inv, StackInv
    <3>4. Top.symbol \in S
      BY <1>1, <1>2, <3>1, <3>2, <3>3 DEF Closed, Top
    <3> QED BY <1>1, <2>4, <3>1, <3>2, <3>4 DEF Within, Absorbed, Top
  <2> QED BY <2>1, <2>2, <2>3, <2>4, StackView
<1> QED BY <1>3, <1>4 DEF Within

\* On every use graph, and whatever the invocation asked for before, a hash
\* depends on nothing but the definitions used directly or indirectly.
THEOREM GlobalHashNoFalseDependence == Spec => []NoFalseDependence
<1>1. Init => WithinInv
  BY DEF Init, WithinInv, Within, Done
<1>2. WithinInv => NoFalseDependence
  BY DEF WithinInv, Within, NoFalseDependence
<1> QED BY <1>1, <1>2, StackInit, StackStep, WithinStep, InvType, SearchStep, PTL DEF Spec

-----------------------------------------------------------------------------
(* All of what is used, for the symbol asked for first, when the lists of  *)
(* no symbol are dropped.                                                  *)

\* The symbols the search has met.
Known == Done \cup currently_processed

\* What a symbol uses is known, apart from what its call has yet to look at;
\* and digests depend on known symbols only.
KnownInv ==
  /\ PlainUses
  /\ \A s \in Done :
       /\ uses[s] \cap local_hashes \subseteq Known
       /\ global_hashes[s] \subseteq Known
  /\ \A i \in 1..Len(stack) :
       /\ (uses[stack[i].symbol] \cap local_hashes) \ stack[i].todo \subseteq Known
       /\ stack[i].hash \subseteq Known

\* Nothing happens before the first symbol is asked for; while it is searched
\* for, its call is the outermost one and the digests of all symbols that are
\* through have gone into some active call; then it has a digest, and for good.
FirstInv ==
  /\ Len(asked) = 0 => Done = {} /\ Len(stack) = 0
  /\ Len(asked) = 1 /\ Len(stack) > 0 =>
       /\ stack[1].symbol = asked[1]
       /\ \A s \in Done : \E i \in 1..Len(stack) : s \in stack[i].hash
  /\ Len(asked) > 0 /\ (Len(asked) > 1 \/ Len(stack) = 0) => asked[1] \in Done

CoverInv == KnownInv /\ FirstInv /\ DefinitionCovers

\* The search forgets nothing.
LEMMA KnownGrows ==
  ASSUME Inv, [SearchNext]_search
  PROVE  Known \subseteq Known'
<1> SUFFICES ASSUME NEW i \in 1..Len(stack) PROVE stack[i].symbol \in Known'
  BY MemoView DEF Known, currently_processed
<1> SUFFICES \/ stack[i].symbol \in Done'
             \/ \E j \in 1..Len(stack') : stack'[j].symbol = stack[i].symbol
  BY DEF Known, currently_processed
<1>0. TypeOK /\ Len(stack) \in Nat
  BY StackFacts DEF Inv
<1>1. CASE UNCHANGED search
  BY <1>1 DEF search
<1>2. ASSUME NEW s \in Symbols, Start(s) PROVE FALSE
  BY <1>0, <1>2 DEF Start
<1>3. ASSUME NEW d \in Symbols, ReturnEarly(d)
      PROVE  i \in 1..Len(stack') /\ stack'[i].symbol = stack[i].symbol
  <2>1. PICK hash \in SUBSET Symbols : Absorb(d, hash)
    BY <1>0, <1>3, EarlyHash
  <2>2. /\ Len(stack') = Len(stack)
        /\ \A j \in 1..(Len(stack) - 1) : stack'[j] = stack[j]
        /\ stack'[Len(stack)] = Absorbed(stack[Len(stack)], d, hash)
    BY <1>0, <1>3, <2>1, AbsorbStack DEF ReturnEarly, Top
  <2>3. i = Len(stack) \/ i \in 1..(Len(stack) - 1)
    BY <1>0
  <2> QED BY <1>0, <2>2, <2>3 DEF Absorbed
<1>4. ASSUME NEW d \in Symbols, Descend(d)
      PROVE  i \in 1..Len(stack') /\ stack'[i].symbol = stack[i].symbol
  BY <1>0, <1>4, DescendStack
<1>5. ASSUME Return
      PROVE  \/ stack[i].symbol \in Done'
             \/ i \in 1..Len(stack') /\ stack'[i].symbol = stack[i].symbol
  <2>1. CASE i = Len(stack)
    BY <1>5, <2>1, MemoView DEF Top
  <2>2. CASE i # Len(stack)
    <3>1. /\ Len(stack') = Len(stack) - 1
          /\ \A j \in 1..(Len(stack) - 2) : stack'[j] = stack[j]
          /\ stack'[Len(stack) - 1].symbol = stack[Len(stack) - 1].symbol
      <4>1. Len(stack) # 1
        BY <1>0, <2>2
      <4> QED BY <1>0, <1>5, <4>1, ReturnStack DEF Absorbed
    <3>2. i = Len(stack) - 1 \/ i \in 1..(Len(stack) - 2)
      BY <1>0, <2>2
    <3> QED BY <1>0, <3>1, <3>2
  <2> QED BY <2>1, <2>2
<1> QED BY <1>1, <1>2, <1>3, <1>4, <1>5 DEF SearchNext, Call

LEMMA KnownStep == Inv /\ KnownInv /\ [SearchNext]_search => KnownInv'
<1> SUFFICES ASSUME Inv, KnownInv, [SearchNext]_search PROVE KnownInv'
  OBVIOUS
<1>1. UNCHANGED <<uses, local_hashes>> /\ Known \subseteq Known'
  BY MemoView, KnownGrows
<1>2. \A s \in Symbols : used_definitions(s) = uses[s]
  BY DEF used_definitions, KnownInv, PlainUses
<1>3. ASSUME NEW s \in Done'
      PROVE  uses[s] \cap local_hashes \subseteq Known /\ global_hashes'[s] \subseteq Known
  <2>1. CASE s \in Done
    BY <2>1, MemoView DEF KnownInv
  <2>2. CASE s \notin Done
    <3>1. Return /\ s = Top.symbol /\ global_hashes'[s] = Top.hash
      BY <1>3, <2>2, MemoView
    <3>2. Len(stack) \in 1..Len(stack) /\ Top.todo = {}
      BY <3>1, StackFacts DEF Return, Inv
    <3> QED BY <3>1, <3>2 DEF KnownInv, Top
  <2> QED BY <2>1, <2>2
<1>4. ASSUME NEW i \in 1..Len(stack')
      PROVE  /\ (uses[stack'[i].symbol] \cap local_hashes) \ stack'[i].todo \subseteq Known'
             /\ stack'[i].hash \subseteq Known'
  <2>1. CASE i \in 1..Len(stack) /\ stack'[i] = stack[i]
    BY <1>1, <2>1 DEF KnownInv
  <2>2. CASE \E s \in local_hashes : stack'[i] = Frame(s)
    <3>1. PICK s \in local_hashes : stack'[i] = Frame(s)
      BY <2>2
    <3>2. s \in Symbols /\ s \in Known'
      BY <3>1 DEF Inv, TypeOK, Frame, Known, currently_processed
    <3> QED BY <1>2, <3>1, <3>2 DEF Frame
  <2>3. CASE /\ i = Len(stack)
             /\ \E d \in Symbols, hash \in SUBSET Symbols :
                  /\ ReturnEarly(d)
                  /\ d \in stack[i].todo
                  /\ stack'[i] = Absorbed(stack[i], d, hash)
                  /\ \/ d \notin local_hashes /\ hash = {}
                     \/ d \in local_hashes \cap Done /\ hash = global_hashes[d]
                     \/ d \in (local_hashes \cap currently_processed) \ Done /\ hash = {d}
    <3>1. PICK d \in Symbols, hash \in SUBSET Symbols :
                  /\ ReturnEarly(d)
                  /\ d \in stack[i].todo
                  /\ stack'[i] = Absorbed(stack[i], d, hash)
                  /\ \/ d \notin local_hashes /\ hash = {}
                     \/ d \in local_hashes \cap Done /\ hash = global_hashes[d]
                     \/ d \in (local_hashes \cap currently_processed) \ Done /\ hash = {d}
      BY <2>3
    <3>2. i \in 1..Len(stack)
      BY <2>3, <3>1, StackFacts DEF Inv, ReturnEarly
    <3>3. hash \subseteq Known /\ (d \in local_hashes => d \in Known)
      BY <3>1 DEF KnownInv, Known
    <3> QED BY <1>1, <3>1, <3>2, <3>3 DEF KnownInv, Absorbed
  <2>4. CASE /\ Return
             /\ i = Len(stack) - 1
             /\ i \in 1..Len(stack)
             /\ stack'[i] = Absorbed(stack[i], Top.symbol, Top.hash)
    <3>1. Len(stack) \in 1..Len(stack)
      BY <2>4, StackFacts DEF Inv
    <3>2. Top.symbol \in Known /\ Top.hash \subseteq Known
      BY <3>1 DEF KnownInv, Known, currently_processed, Top
    <3> QED BY <1>1, <2>4, <3>2 DEF KnownInv, Absorbed
  <2> QED BY <2>1, <2>2, <2>3, <2>4, StackView
<1> QED BY <1>1, <1>3, <1>4 DEF KnownInv, PlainUses

LEMMA NatCases ==
  ASSUME NEW n \in Nat
  PROVE  /\ n # 0 => n > 0
         /\ n # 0 /\ n # 1 => n > 1
         /\ n > 0 /\ ~(n > 1) => n = 1
         /\ n > 1 => n # 0 /\ n # 1 /\ n - 1 # 0
OBVIOUS

LEMMA FirstStep == Inv /\ KnownInv /\ FirstInv /\ [SearchNext]_search => FirstInv'
<1> SUFFICES ASSUME Inv, KnownInv, FirstInv, [SearchNext]_search PROVE FirstInv'
  OBVIOUS
<1>0. /\ TypeOK /\ TypeOK'
      /\ Len(stack) \in Nat /\ Len(asked) \in Nat
      /\ Len(stack') \in Nat /\ Len(asked') \in Nat
  BY StackStep, LenProperties DEF Inv, TypeOK
<1>1. CASE UNCHANGED search
  BY <1>1 DEF search, FirstInv, Done
<1>2. ASSUME NEW s \in Symbols, Start(s) PROVE FirstInv'
  <2>1. /\ Len(asked') = Len(asked) + 1
        /\ \A i \in 1..Len(asked) : asked'[i] = asked[i]
        /\ asked'[Len(asked) + 1] = s
        /\ Len(stack) = 0
        /\ stack' = IF s \in Done THEN <<>> ELSE <<Frame(s)>>
        /\ global_hashes' = global_hashes
    BY <1>0, <1>2, AppendProperties DEF Start, TypeOK
  <2>2. Done' = Done
    BY <2>1 DEF Done
  <2>3. CASE Len(asked) = 0
    <3>1. Done = {} /\ stack' = <<Frame(s)>>
      BY <2>1, <2>3 DEF FirstInv
    <3>2. asked'[1] = s /\ Len(asked') = 1
      BY <2>1, <2>3
    <3>3. Len(stack') = 1 /\ stack'[1].symbol = s
      BY <3>1 DEF Frame
    <3>4. Done' = {}
      BY <2>2, <3>1
    <3> QED BY <3>2, <3>3, <3>4 DEF FirstInv
  <2>4. CASE Len(asked) # 0
    <3>1. asked[1] \in Done
      BY <1>0, <2>1, <2>4 DEF FirstInv
    <3>2. asked'[1] \in Done'
      BY <1>0, <2>1, <2>2, <2>4, <3>1
    <3>3. Len(asked') # 0 /\ Len(asked') # 1
      BY <1>0, <2>1, <2>4
    <3> QED BY <3>2, <3>3 DEF FirstInv
  <2> QED BY <2>3, <2>4
<1>3. ASSUME NEW d \in Symbols, ReturnEarly(d) PROVE FirstInv'
  <2>1. PICK hash \in SUBSET Symbols : Absorb(d, hash)
    BY <1>0, <1>3, EarlyHash
  <2>2. /\ Len(stack) > 0
        /\ Len(stack') = Len(stack)
        /\ \A i \in 1..(Len(stack) - 1) : stack'[i] = stack[i]
        /\ stack'[Len(stack)] = Absorbed(stack[Len(stack)], d, hash)
        /\ UNCHANGED <<global_hashes, asked>>
    BY <1>0, <1>3, <2>1, AbsorbStack DEF ReturnEarly, Top
  <2>3. \A i \in 1..Len(stack) : /\ stack'[i].symbol = stack[i].symbol
                                 /\ stack[i].hash \subseteq stack'[i].hash
    BY <1>0, <2>2 DEF Absorbed
  <2>4. Done' = Done
    BY <2>2 DEF Done
  <2> QED BY <1>0, <2>2, <2>3, <2>4 DEF FirstInv
<1>4. ASSUME NEW d \in Symbols, Descend(d) PROVE FirstInv'
  <2>1. /\ Len(stack) > 0
        /\ Len(stack') = Len(stack) + 1
        /\ \A i \in 1..Len(stack) : stack'[i] = stack[i]
        /\ UNCHANGED <<global_hashes, asked>>
    BY <1>0, <1>4, DescendStack DEF Descend
  <2>2. Done' = Done
    BY <2>1 DEF Done
  <2>3. 1..Len(stack) \subseteq 1..Len(stack') /\ 1 \in 1..Len(stack)
    BY <1>0, <2>1
  <2> QED BY <1>0, <2>1, <2>2, <2>3 DEF FirstInv
<1>5. CASE Return
  <2>1. /\ Len(stack) > 0
        /\ asked' = asked
        /\ Done' = Done \cup {stack[Len(stack)].symbol}
        /\ stack[Len(stack)].symbol \in stack[Len(stack)].hash
    BY <1>0, <1>5, MemoView DEF Return, Top, Inv, StackInv
  <2>0. /\ Len(asked) > 0
        /\ Len(asked) # 1 => asked[1] \in Done
        /\ Len(asked) = 1 =>
             /\ stack[1].symbol = asked[1]
             /\ \A s \in Done : \E i \in 1..Len(stack) : s \in stack[i].hash
    <3>1. Len(asked) # 0
      BY <1>0, <2>1 DEF FirstInv
    <3>2. Len(asked) > 0 /\ (Len(asked) # 1 => Len(asked) > 1)
      BY <1>0, <3>1, NatCases
    <3> QED BY <2>1, <3>2 DEF FirstInv
  <2>2. CASE Len(stack) = 1
    <3>1. Len(stack') = 0
      BY <1>5, <2>2 DEF Return
    <3>2. asked[1] \in Done' /\ Len(asked') > 0
      BY <2>0, <2>1, <2>2
    <3> QED BY <1>0, <2>1, <3>1, <3>2 DEF FirstInv
  <2>3. CASE Len(stack) # 1
    <3>1. /\ Len(stack) > 1
          /\ Len(stack') = Len(stack) - 1
          /\ \A i \in 1..(Len(stack) - 2) : stack'[i] = stack[i]
          /\ stack'[Len(stack) - 1] =
               Absorbed(stack[Len(stack) - 1], stack[Len(stack)].symbol, stack[Len(stack)].hash)
      BY <1>0, <1>5, <2>3, ReturnStack DEF Top
    <3>2. \A i \in 1..(Len(stack) - 1) : /\ stack'[i].symbol = stack[i].symbol
                                         /\ stack[i].hash \subseteq stack'[i].hash
      BY <1>0, <3>1 DEF Absorbed
    <3>3. stack[Len(stack)].hash \subseteq stack'[Len(stack) - 1].hash
      BY <3>1 DEF Absorbed
    <3>4. /\ 1 \in 1..(Len(stack) - 1)
          /\ Len(stack) - 1 \in 1..Len(stack')
          /\ \A i \in 1..Len(stack) : i = Len(stack) \/ i \in 1..(Len(stack) - 1)
      BY <1>0, <3>1
    <3>5. ASSUME \A s \in Done : \E i \in 1..Len(stack) : s \in stack[i].hash, NEW s \in Done'
          PROVE  \E i \in 1..Len(stack') : s \in stack'[i].hash
      <4>1. PICK i \in 1..Len(stack) : s \in stack[i].hash
        BY <1>0, <2>1, <3>1, <3>5
      <4>2. CASE i = Len(stack)
        BY <3>3, <3>4, <4>1, <4>2
      <4>3. CASE i # Len(stack)
        BY <3>1, <3>2, <3>4, <4>1, <4>3
      <4> QED BY <4>2, <4>3
    <3>6. Len(asked') = 1 =>
            /\ stack'[1].symbol = asked'[1]
            /\ \A s \in Done' : \E i \in 1..Len(stack') : s \in stack'[i].hash
      BY <2>0, <2>1, <3>1, <3>2, <3>4, <3>5
    <3>7. Len(asked') > 0 /\ Len(stack') # 0 /\ (Len(asked') > 1 => asked'[1] \in Done')
      BY <1>0, <2>0, <2>1, <3>1, NatCases
    <3> QED BY <3>6, <3>7 DEF FirstInv
  <2> QED BY <2>2, <2>3
<1> QED BY <1>1, <1>2, <1>3, <1>4, <1>5 DEF SearchNext, Call

\* When the call for the first symbol returns, its digest is the set of all
\* symbols with a digest, and that set is closed.
LEMMA CoverStep == Inv /\ CoverInv /\ [SearchNext]_search => CoverInv'
<1> SUFFICES ASSUME Inv, CoverInv, [SearchNext]_search, asked' # <<>>, asked'[1] \in Done'
             PROVE  Covers(asked[1])'
  BY KnownStep, FirstStep DEF CoverInv, DefinitionCovers
<1>0. /\ TypeOK /\ KnownInv /\ KnownInv' /\ FirstInv /\ DefinitionCovers
      /\ Len(stack) \in Nat /\ Len(asked) \in Nat
      /\ UNCHANGED <<uses, local_hashes>>
  BY KnownStep, MemoView, LenProperties DEF CoverInv, Inv, TypeOK
<1>1. ASSUME asked[1] \in Done, asked # <<>>, asked'[1] = asked[1]
      PROVE  Covers(asked[1])'
  BY <1>0, <1>1, MemoView DEF Covers, Closed, DefinitionCovers
<1>2. CASE Return /\ asked[1] \notin Done
  <2>1. asked' = asked /\ Len(asked) > 0 /\ Len(stack) > 0
    BY <1>0, <1>2 DEF Return, TypeOK
  <2>2. Len(asked) = 1 /\ stack[1].symbol = asked[1]
    <3>1. ~(Len(asked) > 1)
      BY <1>0, <1>2, <2>1 DEF FirstInv
    <3>2. Len(asked) = 1
      BY <1>0, <2>1, <3>1, NatCases
    <3> QED BY <1>0, <2>1, <3>2 DEF FirstInv
  <2>3. /\ Done' = Done \cup {Top.symbol}
        /\ global_hashes'[Top.symbol] = Top.hash
        /\ Top.symbol = asked[1]
    BY <1>2, <2>1, MemoView
  <2>4. Len(stack) = 1 /\ stack[1] = Top
    <3>1. 1 \in 1..Len(stack) /\ Len(stack) \in 1..Len(stack)
      BY <1>0, <2>1
    <3> QED BY <2>2, <2>3, <3>1 DEF Inv, StackInv, Top
  <2>5. Len(stack') = 0
    BY <1>2, <2>4 DEF Return
  <2>6. Top.symbol \in Top.hash
    BY <2>1, <2>4 DEF Inv, StackInv
  <2>7. Done' \subseteq Top.hash
    BY <1>0, <2>1, <2>2, <2>3, <2>4, <2>6 DEF FirstInv
  <2>8. Known' = Done'
    BY <2>5 DEF Known, currently_processed
  <2>9. Top.hash \subseteq Done' /\ \A s \in Done' : uses'[s] \cap local_hashes' \subseteq Done'
    BY <1>0, <2>3, <2>8 DEF KnownInv
  <2> QED BY <2>1, <2>3, <2>6, <2>7, <2>9 DEF Covers, Closed
<1>3. CASE ~Return /\ asked[1] \notin Done
  <2>1. Done' = Done
    BY <1>3, MemoView
  <2>2. asked' # asked
    BY <1>3, <2>1
  <2>3. PICK s \in Symbols : Start(s)
    BY <1>3, <2>2 DEF SearchNext, Call, ReturnEarly, Descend, search
  <2>4. asked'[1] = IF Len(asked) = 0 THEN s ELSE asked[1]
    BY <1>0, <2>3, AppendProperties DEF Start, TypeOK
  <2> QED BY <1>0, <1>3, <2>1, <2>3, <2>4 DEF FirstInv, Start
<1>4. CASE asked[1] \in Done
  <2>1. asked # <<>> /\ Len(asked) > 0
    BY <1>0, <1>4 DEF FirstInv, TypeOK
  <2>2. asked'[1] = asked[1]
    <3>1. ASSUME NEW s \in Symbols, Start(s) PROVE asked'[1] = asked[1]
      BY <1>0, <2>1, <3>1, AppendProperties DEF Start, TypeOK
    <3> QED BY <3>1 DEF SearchNext, Call, Return, ReturnEarly, Descend, search
  <2> QED BY <1>1, <1>4, <2>1, <2>2
<1> QED BY <1>2, <1>3, <1>4

\* On every use graph in which static definitions use nothing, with cycles or
\* not, the digest of the symbol asked for first, and so what
\* clang-hash-global --definition prints depends on all that is used.
THEOREM GlobalHashDefinitionCovers ==
  ASSUME \A g \in Graphs, s \in Symbols : Prefix(s) \notin Plain => g[s] = {}
  PROVE  Spec => []DefinitionCovers
<1>1. Init => CoverInv
  BY GraphsAssumption DEF Init, PlainUses, CoverInv, KnownInv, FirstInv, DefinitionCovers, Done
<1>2. CoverInv => DefinitionCovers
  BY DEF CoverInv
<1> QED BY <1>1, <1>2, StackInit, StackStep, CoverStep, InvType, SearchStep, PTL DEF Spec

-----------------------------------------------------------------------------
(* All of what is used, for every symbol from which no cycle is reached.   *)

\* What a symbol uses leads to no cycle either.
LEMMA CycleFreeUses ==
  ASSUME TypeOK, NEW s \in Symbols, CycleFree(s), NEW d \in uses[s] \cap local_hashes
  PROVE  CycleFree(d)
<1> SUFFICES ASSUME NEW S \in SUBSET Symbols,
                    \A t \in Symbols : uses[t] \cap local_hashes \subseteq S => t \in S
             PROVE  d \in S
  BY DEF CycleFree
<1> DEFINE P == {t \in S : uses[t] \cap local_hashes \subseteq S}
<1>1. \A t \in Symbols : uses[t] \cap local_hashes \subseteq P => t \in P
  OBVIOUS
<1>2. P \in SUBSET Symbols
  OBVIOUS
<1>3. s \in P
  <2> HIDE DEF P
  <2> QED BY <1>1, <1>2 DEF CycleFree
<1> QED BY <1>3

\* A symbol on the list of the innermost call that is being processed closes
\* a cycle of active calls.
LEMMA StackCycle ==
  ASSUME Inv, PlainUses, Len(stack) > 0, NEW d \in Top.todo, d \in currently_processed
  PROVE  ~CycleFree(Top.symbol)
<1>0. /\ Len(stack) \in Nat /\ Len(stack) \in 1..Len(stack) /\ TypeOK
      /\ \A i \in 1..Len(stack) : stack[i] \in Frames
  BY StackFacts DEF Inv
<1>1. \A i \in 1..Len(stack) : /\ stack[i].symbol \in Symbols /\ stack[i].symbol \in local_hashes
                               /\ used_definitions(stack[i].symbol) = uses[stack[i].symbol]
  BY <1>0 DEF Frames, Inv, StackInv, used_definitions, PlainUses
<1>2. PICK k \in 1..Len(stack) : stack[k].symbol = d
  BY DEF currently_processed
<1> DEFINE S == {t \in Symbols : \A j \in k..Len(stack) : stack[j].symbol # t}
<1>3. ASSUME NEW t \in Symbols, t \notin S PROVE ~(uses[t] \cap local_hashes \subseteq S)
  <2>1. PICK j \in k..Len(stack) : stack[j].symbol = t
    BY <1>3
  <2>2. j \in 1..Len(stack)
    BY <1>0, <1>2
  <2>3. CASE j = Len(stack)
    <3>1. d \in uses[t] /\ d \in local_hashes
      BY <1>1, <1>2, <2>1, <2>2, <2>3 DEF Inv, StackInv, Top
    <3>2. d \notin S
      BY <1>0, <1>2
    <3> QED BY <3>1, <3>2
  <2>4. CASE j # Len(stack)
    <3>1. j \in 1..(Len(stack) - 1) /\ j + 1 \in 1..Len(stack) /\ j + 1 \in k..Len(stack)
      BY <1>0, <1>2, <2>2, <2>4
    <3>2. stack[j + 1].symbol \in uses[t] /\ stack[j + 1].symbol \in local_hashes
      BY <1>1, <2>1, <2>2, <3>1 DEF Inv, StackInv
    <3>3. stack[j + 1].symbol \notin S
      BY <3>1
    <3> QED BY <3>2, <3>3
  <2> QED BY <2>3, <2>4
<1>4. Top.symbol \notin S
  BY <1>0, <1>2 DEF Top
<1>5. S \in SUBSET Symbols
  OBVIOUS
<1> HIDE DEF S
<1> QED BY <1>3, <1>4, <1>5 DEF CycleFree

\* A call for a symbol that leads to no cycle has absorbed all that is used by
\* what it has absorbed, but for what is left of its own list.
FramesCover ==
  \A i \in 1..Len(stack) :
    CycleFree(stack[i].symbol) =>
      /\ (uses[stack[i].symbol] \cap local_hashes) \ stack[i].todo \subseteq stack[i].hash
      /\ \A x \in stack[i].hash \ {stack[i].symbol} :
           uses[x] \cap local_hashes \subseteq stack[i].hash

EveryInv == PlainUses /\ FramesCover /\ EveryHashCovers

LEMMA EveryStep == Inv /\ EveryInv /\ [SearchNext]_search => EveryInv'
<1> SUFFICES ASSUME Inv, EveryInv, [SearchNext]_search PROVE EveryInv'
  OBVIOUS
<1>0. /\ TypeOK /\ PlainUses /\ FramesCover /\ EveryHashCovers
      /\ UNCHANGED <<uses, local_hashes>>
      /\ \A i \in 1..Len(stack) : stack[i] \in Frames /\ stack[i].symbol \in stack[i].hash
  BY MemoView, StackFacts DEF EveryInv, Inv, StackInv
<1>1. /\ \A s : CycleFree(s)' <=> CycleFree(s)
      /\ \A s \in Symbols : used_definitions(s) = uses[s]
  BY <1>0 DEF CycleFree, used_definitions, PlainUses
<1>2. ASSUME Return, CycleFree(Top.symbol)
      PROVE  \A x \in Top.hash : uses[x] \cap local_hashes \subseteq Top.hash
  <2>1. Len(stack) \in 1..Len(stack) /\ Top.todo = {}
    BY <1>2, StackFacts DEF Return, Inv
  <2> QED BY <1>0, <1>2, <2>1 DEF FramesCover, Top
<1>3. EveryHashCovers'
  <2> SUFFICES ASSUME NEW s \in Done', CycleFree(s)
               PROVE  /\ s \in global_hashes'[s]
                      /\ \A x \in global_hashes'[s] :
                            uses[x] \cap local_hashes \subseteq global_hashes'[s]
    BY <1>0, <1>1 DEF EveryHashCovers, Covers, Closed
  <2>1. CASE s \in Done
    BY <1>0, <2>1, MemoView DEF EveryHashCovers, Covers, Closed
  <2>2. CASE s \notin Done
    <3>1. Return /\ s = Top.symbol /\ global_hashes'[s] = Top.hash
      BY <2>2, MemoView
    <3>2. Top.symbol \in Top.hash
      BY <1>0, <3>1, StackFacts DEF Return, Top
    <3> QED BY <1>2, <3>1, <3>2
  <2> QED BY <2>1, <2>2
<1>4. ASSUME NEW i \in 1..Len(stack'), CycleFree(stack'[i].symbol)
      PROVE  /\ (uses[stack'[i].symbol] \cap local_hashes) \ stack'[i].todo \subseteq stack'[i].hash
             /\ \A x \in stack'[i].hash \ {stack'[i].symbol} :
                  uses[x] \cap local_hashes \subseteq stack'[i].hash
  <2>1. CASE i \in 1..Len(stack) /\ stack'[i] = stack[i]
    BY <1>0, <1>4, <2>1 DEF FramesCover
  <2>2. CASE \E s \in local_hashes : stack'[i] = Frame(s)
    <3>1. PICK s \in local_hashes : stack'[i] = Frame(s)
      BY <2>2
    <3> QED BY <1>0, <1>1, <3>1 DEF TypeOK, Frame
  <2>3. ASSUME i \in 1..Len(stack), NEW d \in Symbols, NEW hash \in SUBSET Symbols,
               stack'[i] = Absorbed(stack[i], d, hash),
               d \in local_hashes => d \in hash,
               \A x \in hash : uses[x] \cap local_hashes \subseteq hash
        PROVE  /\ (uses[stack'[i].symbol] \cap local_hashes) \ stack'[i].todo \subseteq stack'[i].hash
               /\ \A x \in stack'[i].hash \ {stack'[i].symbol} :
                    uses[x] \cap local_hashes \subseteq stack'[i].hash
    <3>1. /\ stack'[i].symbol = stack[i].symbol /\ stack'[i].todo = stack[i].todo \ {d}
          /\ stack'[i].hash = stack[i].hash \cup hash
      BY <2>3 DEF Absorbed
    <3>2. /\ (uses[stack[i].symbol] \cap local_hashes) \ stack[i].todo \subseteq stack[i].hash
          /\ \A x \in stack[i].hash \ {stack[i].symbol} :
               uses[x] \cap local_hashes \subseteq stack[i].hash
      BY <1>0, <1>4, <2>3, <3>1 DEF FramesCover
    <3> QED BY <2>3, <3>1, <3>2
  <2>4. CASE /\ i = Len(stack)
             /\ \E d \in Symbols, hash \in SUBSET Symbols :
                  /\ ReturnEarly(d)
                  /\ d \in stack[i].todo
                  /\ stack'[i] = Absorbed(stack[i], d, hash)
                  /\ \/ d \notin local_hashes /\ hash = {}
                     \/ d \in local_hashes \cap Done /\ hash = global_hashes[d]
                     \/ d \in (local_hashes \cap currently_processed) \ Done /\ hash = {d}
    <3>1. PICK d \in Symbols, hash \in SUBSET Symbols :
                  /\ ReturnEarly(d)
                  /\ d \in stack[i].todo
                  /\ stack'[i] = Absorbed(stack[i], d, hash)
                  /\ \/ d \notin local_hashes /\ hash = {}
                     \/ d \in local_hashes \cap Done /\ hash = global_hashes[d]
                     \/ d \in (local_hashes \cap currently_processed) \ Done /\ hash = {d}
      BY <2>4
    <3>2. i \in 1..Len(stack) /\ Len(stack) > 0
      BY <2>4, <3>1, StackFacts DEF Inv, ReturnEarly
    <3>3. /\ stack'[i].symbol = stack[i].symbol /\ stack[i] = Top
          /\ stack[i].symbol \in Symbols /\ d \in uses[stack[i].symbol]
      BY <1>0, <1>1, <2>4, <3>1, <3>2 DEF Absorbed, Top, Frames, Inv, StackInv
    <3>4. d \in local_hashes => CycleFree(d)
      BY <1>0, <1>4, <3>3, CycleFreeUses
    <3>5. d \notin currently_processed
      BY <1>0, <1>4, <3>1, <3>2, <3>3, StackCycle
    <3>6. /\ d \in local_hashes => d \in hash
          /\ \A x \in hash : uses[x] \cap local_hashes \subseteq hash
      BY <1>0, <3>1, <3>4, <3>5 DEF EveryHashCovers, Covers, Closed
    <3> QED BY <2>3, <3>1, <3>2, <3>6
  <2>5. CASE /\ Return
             /\ i = Len(stack) - 1
             /\ i \in 1..Len(stack)
             /\ stack'[i] = Absorbed(stack[i], Top.symbol, Top.hash)
    <3>1. /\ Len(stack) \in 1..Len(stack) /\ Len(stack) \in Nat
      BY <2>5, StackFacts DEF Inv
    <3>2. i \in 1..(Len(stack) - 1) /\ i + 1 = Len(stack)
      BY <2>5, <3>1
    <3>3. /\ Top \in Frames /\ Top.symbol \in Top.hash /\ Top.symbol \in local_hashes
          /\ stack[i].symbol \in Symbols /\ Top.symbol \in uses[stack[i].symbol]
          /\ stack'[i].symbol = stack[i].symbol
      BY <1>0, <1>1, <2>5, <3>1, <3>2 DEF Absorbed, Top, Frames, Inv, StackInv
    <3>4. CycleFree(Top.symbol)
      BY <1>0, <1>4, <3>3, CycleFreeUses
    <3>5. \A x \in Top.hash : uses[x] \cap local_hashes \subseteq Top.hash
      BY <1>2, <2>5, <3>4
    <3>6. Top.symbol \in Symbols /\ Top.hash \in SUBSET Symbols
      BY <3>3 DEF Frames
    <3> QED BY <2>3, <2>5, <3>3, <3>5, <3>6
  <2> QED BY <2>1, <2>2, <2>4, <2>5, StackView
<1>5. FramesCover'
  BY <1>0, <1>1, <1>4 DEF FramesCover
<1> QED BY <1>0, <1>3, <1>5 DEF EveryInv, PlainUses

\* Every entry of the memo table that get_global_hash leaves behind, and not
\* only that of the first symbol, depends on all that is used, provided no
\* cycle of the use graph can be reached from its symbol: the shortcut that
\* currently_processed takes is then never taken.
THEOREM GlobalHashEveryHashCovers ==
  ASSUME \A g \in Graphs, s \in Symbols : Prefix(s) \notin Plain => g[s] = {}
  PROVE  Spec => []EveryHashCovers
<1>1. Init => EveryInv
  BY GraphsAssumption DEF Init, PlainUses, EveryInv, FramesCover, EveryHashCovers, Done
<1>2. EveryInv => EveryHashCovers
  BY DEF EveryInv
<1> QED BY <1>1, <1>2, StackInit, StackStep, EveryStep, InvType, SearchStep, PTL DEF Spec
=============================================================================

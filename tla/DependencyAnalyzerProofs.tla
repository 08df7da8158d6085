---------------------- MODULE DependencyAnalyzerProofs ----------------------
(***************************************************************************)
(* Theorems about dependency_analyzer, for every call graph and every      *)
(* order of its loops.  get_fake_global_hashes gives the fake hash 1 to    *)
(* impacted functions only, and to all those that lead to no recursion;    *)
(* get_impacted_funcs and get_dependees find all there is on any graph.    *)
(***************************************************************************)
EXTENDS DependencyAnalyzer, SequenceTheorems, FiniteSetTheorems, WellFoundedInduction, TLAPS

Frames == [symbol : Symbols, todo : SUBSET Symbols, hash : {0, 1}]

TypeInv ==
  /\ Functions \subseteq Symbols
  /\ call_graph \in [Functions -> SUBSET Symbols]
  /\ ones \subseteq Functions /\ zeros \subseteq Functions
  /\ stack \in Seq(Frames)

\* Every active call is for an unchanged function of the program, called by
\* the one below it; a call that has found a 1 looks at nothing more.
StackInv ==
  /\ \A i \in 1..Len(stack) :
       /\ stack[i].symbol \in Functions \ Changed
       /\ stack[i].todo \subseteq call_graph[stack[i].symbol]
       /\ stack[i].hash = 1 => stack[i].todo = {}
  /\ \A i \in 1..(Len(stack) - 1) : stack[i + 1].symbol \in stack[i].todo

\* A 1 is stored or passed on for impacted functions only.
OnesInv ==
  /\ ones \subseteq DependsOn(Changed)
  /\ \A i \in 1..Len(stack) : stack[i].hash = 1 => stack[i].symbol \in DependsOn(Changed)

\* A function that leads to no recursion gets a 0 only after all it calls.
ZerosInv ==
  /\ zeros \cap Changed = {}
  /\ \A s \in zeros : RecursionFree(s) => call_graph[s] \cap Functions \subseteq zeros
  /\ \A i \in 1..Len(stack) :
       RecursionFree(stack[i].symbol) /\ stack[i].hash = 0 =>
         (call_graph[stack[i].symbol] \cap Functions) \ stack[i].todo \subseteq zeros

\* The functions the search has met.
Met == ones \cup zeros \cup currently_processed

AskedInv == asked \subseteq Met

Inv == TypeInv /\ StackInv

-----------------------------------------------------------------------------
(* The definitions of the property.                                        *)

\* Changed functions are impacted, and so is what calls an impacted one.
LEMMA DependsOnFacts ==
  ASSUME TypeInv
  PROVE  /\ Changed \subseteq DependsOn(Changed)
         /\ \A s \in Functions, d \in DependsOn(Changed) :
              d \in call_graph[s] => s \in DependsOn(Changed)
         /\ \A S \in SUBSET Symbols :
              /\ Changed \subseteq S
              /\ \A s \in Functions : call_graph[s] \cap S # {} => s \in S
              => DependsOn(Changed) \subseteq S
<1>1. Changed \subseteq Symbols
  BY DEF TypeInv, Changed
<1> QED BY <1>1 DEF DependsOn, TypeInv

LEMMA RecursionFreeCalls ==
  ASSUME TypeInv, NEW s \in Functions, RecursionFree(s), NEW d \in call_graph[s] \cap Functions
  PROVE  RecursionFree(d)
<1> SUFFICES ASSUME NEW S \in SUBSET Functions,
                    \A t \in Functions : call_graph[t] \cap Functions \subseteq S => t \in S
             PROVE  d \in S
  BY DEF RecursionFree
<1> DEFINE P == {t \in S : call_graph[t] \cap Functions \subseteq S}
<1>1. \A t \in Functions : call_graph[t] \cap Functions \subseteq P => t \in P
  OBVIOUS
<1>2. P \in SUBSET Functions
  OBVIOUS
<1>3. s \in P
  <2> HIDE DEF P
  <2> QED BY <1>1, <1>2 DEF RecursionFree
<1> QED BY <1>3

\* A function on the list of the innermost call that is being processed closes
\* a cycle of active calls.
LEMMA StackCycle ==
  ASSUME Inv, Len(stack) \in Nat, Len(stack) > 0, NEW d \in Top.todo, d \in currently_processed
  PROVE  ~RecursionFree(Top.symbol)
<1>1. \A i \in 1..Len(stack) : /\ stack[i].symbol \in Functions
                               /\ stack[i].todo \subseteq call_graph[stack[i].symbol]
  BY DEF Inv, StackInv
<1>2. PICK k \in 1..Len(stack) : stack[k].symbol = d
  BY DEF currently_processed
<1> DEFINE S == {t \in Functions : \A j \in k..Len(stack) : stack[j].symbol # t}
<1>3. ASSUME NEW t \in Functions, t \notin S PROVE ~(call_graph[t] \cap Functions \subseteq S)
  <2>1. PICK j \in k..Len(stack) : stack[j].symbol = t
    BY <1>3
  <2>2. j \in 1..Len(stack)
    BY <1>2
  <2>3. CASE j = Len(stack)
    <3>1. d \in call_graph[t] /\ d \in Functions
      BY <1>1, <1>2, <2>1, <2>2, <2>3 DEF Top
    <3>2. d \notin S
      BY <1>2
    <3> QED BY <3>1, <3>2
  <2>4. CASE j # Len(stack)
    <3>1. j \in 1..(Len(stack) - 1) /\ j + 1 \in 1..Len(stack) /\ j + 1 \in k..Len(stack)
      BY <1>2, <2>2, <2>4
    <3>2. stack[j + 1].symbol \in call_graph[t] /\ stack[j + 1].symbol \in Functions
      BY <1>1, <2>1, <2>2, <3>1 DEF Inv, StackInv
    <3>3. stack[j + 1].symbol \notin S
      BY <3>1
    <3> QED BY <3>2, <3>3
  <2> QED BY <2>3, <2>4
<1>4. Top.symbol \notin S
  BY <1>2 DEF Top
<1>5. S \in SUBSET Functions
  OBVIOUS
<1> HIDE DEF S
<1> QED BY <1>3, <1>4, <1>5 DEF RecursionFree

-----------------------------------------------------------------------------
(* What the steps do to the stack.                                         *)

LEMMA StackFacts ==
  ASSUME TypeInv
  PROVE  /\ Len(stack) \in Nat
         /\ stack # <<>> <=> Len(stack) > 0
         /\ \A i \in 1..Len(stack) : stack[i] \in Frames
         /\ Len(stack) > 0 => Len(stack) \in 1..Len(stack) /\ Top \in Frames
BY LenProperties DEF TypeInv, Top

LEMMA AddedFacts ==
  ASSUME NEW frame \in Frames, NEW d \in Symbols, NEW hash \in {0, 1}
  PROVE  /\ Added(frame, d, hash) \in Frames
         /\ Added(frame, d, hash).symbol = frame.symbol
         /\ hash = 1 => Added(frame, d, hash).todo = {}
         /\ hash = 0 => Added(frame, d, hash).todo = frame.todo \ {d}
         /\ Added(frame, d, hash).hash = hash
<1>1. /\ Added(frame, d, hash) \in Frames
      /\ Added(frame, d, hash).symbol = frame.symbol
      /\ Added(frame, d, hash).todo = IF hash = 1 THEN {} ELSE frame.todo \ {d}
      /\ Added(frame, d, hash).hash = hash
  BY DEF Added, Frames
<1> QED BY <1>1

LEMMA AddStack ==
  ASSUME TypeInv, Len(stack) > 0, NEW d \in Symbols, NEW hash \in {0, 1}, Add(d, hash)
  PROVE  /\ stack' \in Seq(Frames)
         /\ Len(stack') = Len(stack)
         /\ \A i \in 1..(Len(stack) - 1) : stack'[i] = stack[i]
         /\ stack'[Len(stack)] = Added(Top, d, hash)
<1>1. Added(Top, d, hash) \in Frames /\ Len(stack) \in 1..Len(stack) /\ stack \in Seq(Frames)
  BY StackFacts, AddedFacts DEF TypeInv
<1>2. stack' = [stack EXCEPT ![Len(stack)] = Added(Top, d, hash)]
  BY DEF Add
<1>3. /\ stack' \in Seq(Frames)
      /\ Len(stack') = Len(stack)
      /\ \A j \in 1..Len(stack) :
           stack'[j] = IF j = Len(stack) THEN Added(Top, d, hash) ELSE stack[j]
  BY <1>1, <1>2, ExceptSeq
<1> QED BY <1>1, <1>3, StackFacts

LEMMA DescendStack ==
  ASSUME TypeInv, NEW d \in Symbols, Descend(d)
  PROVE  /\ stack' \in Seq(Frames)
         /\ Len(stack') = Len(stack) + 1
         /\ \A i \in 1..Len(stack) : stack'[i] = stack[i]
         /\ stack'[Len(stack) + 1] = Frame(d)
<1>1. Frame(d) \in Frames /\ stack \in Seq(Frames)
  BY DEF Frame, Frames, Descend, TypeInv
<1> QED
  BY <1>1, AppendProperties DEF Descend

LEMMA ReturnStack ==
  ASSUME TypeInv, Return, Len(stack) # 1
  PROVE  /\ Len(stack) > 1
         /\ stack' \in Seq(Frames)
         /\ Len(stack') = Len(stack) - 1
         /\ \A i \in 1..(Len(stack) - 2) : stack'[i] = stack[i]
         /\ stack'[Len(stack) - 1] = Added(stack[Len(stack) - 1], Top.symbol, Top.hash)
<1> DEFINE l == Len(stack)
           n == l - 1
           s == SubSeq(stack, 1, n)
           e == Added(stack[n], Top.symbol, Top.hash)
<1>0. l > 0 /\ l \in Nat /\ l # 1
  BY StackFacts DEF Return
<1>1. l > 1 /\ n \in Nat /\ n > 0 /\ n # 0 /\ n \in 1..l /\ n \in 1..n
  <2> HIDE DEF l
  <2> QED BY <1>0
<1>2. /\ s \in Seq(Frames)
      /\ Len(s) = n
      /\ \A i \in 1..n : s[i] = stack[i]
  BY <1>1, SubSeqProperties DEF TypeInv
<1>3. e \in Frames
  <2>1. stack[n] \in Frames /\ Top.symbol \in Symbols /\ Top.hash \in {0, 1}
    BY <1>0, <1>1, StackFacts DEF Frames
  <2> QED BY <2>1, AddedFacts
<1>4. stack' = [s EXCEPT ![n] = Added(s[n], Top.symbol, Top.hash)]
  BY <1>1 DEF Return
<1>5. stack' = [s EXCEPT ![n] = e]
  BY <1>1, <1>2, <1>4
<1> HIDE DEF s, e
<1>6. /\ stack' \in Seq(Frames)
      /\ Len(stack') = n
      /\ \A j \in 1..n : stack'[j] = IF j = n THEN e ELSE s[j]
  BY <1>1, <1>2, <1>3, <1>5, ExceptSeq
<1> QED
  BY <1>1, <1>2, <1>6 DEF e

\* What the innermost call gets for a function it does not descend into.
LEMMA EarlyHash ==
  ASSUME NEW d \in Symbols, ReturnEarly(d)
  PROVE  \E hash \in {0, 1} :
           /\ Add(d, hash)
           /\ hash = 1 => d \in ones \cup Changed /\ ones' = ones \cup {d}
           /\ hash = 0 => /\ d \in zeros \cup currently_processed \/ d \notin Functions
                          /\ ones' = ones
BY DEF ReturnEarly

-----------------------------------------------------------------------------
(* The steps.                                                              *)

\* The search reads its inputs only, and forgets no result.
LEMMA InputsView ==
  ASSUME [Next]_vars
  PROVE  /\ UNCHANGED inputs
         /\ Functions' = Functions /\ Changed' = Changed
         /\ DependsOn(Changed)' = DependsOn(Changed)
         /\ \A s : RecursionFree(s)' <=> RecursionFree(s)
         /\ ones \subseteq ones' /\ zeros \subseteq zeros'
<1>1. /\ UNCHANGED <<call_graph, local_hashes, prev_hashes>>
      /\ ones \subseteq ones' /\ zeros \subseteq zeros'
  BY DEF Next, Ask, ReturnEarly, Descend, Return, vars, inputs
<1>2. Functions' = Functions
  BY <1>1 DEF Functions
<1>3. Changed' = Changed
  BY <1>1, <1>2 DEF Changed, get_changed_functions
<1>4. \A s : RecursionFree(s)' <=> RecursionFree(s)
  BY <1>1, <1>2 DEF RecursionFree
<1>5. DependsOn(Changed)' = DependsOn(Changed)
  BY <1>1, <1>2, <1>3 DEF DependsOn
<1> QED BY <1>1, <1>2, <1>3, <1>4, <1>5 DEF inputs

\* What a step adds to the results.
LEMMA ResultsView ==
  ASSUME Inv, [Next]_vars
  PROVE  /\ \A s \in ones' : \/ s \in ones \cup Changed
                             \/ Len(stack) > 0 /\ Return /\ s = Top.symbol /\ Top.hash = 1
         /\ \A s \in zeros' : \/ s \in zeros
                              \/ /\ Len(stack) > 0 /\ Return /\ s = Top.symbol
                                 /\ Top.hash = 0 /\ Top.todo = {}
<1>1. CASE Return
  <2>1. Len(stack) > 0 /\ Top.hash \in {0, 1} /\ Top.todo = {}
    BY <1>1, StackFacts DEF Return, Inv, Frames
  <2> QED BY <1>1, <2>1 DEF Return
<1>2. CASE ~Return
  BY <1>2 DEF Next, Ask, ReturnEarly, Descend, vars
<1> QED BY <1>1, <1>2

LEMMA TypeStep ==
  ASSUME Inv, [Next]_vars
  PROVE  TypeInv'
<1>0. TypeInv
  BY DEF Inv
<1>1. ones' \subseteq Functions /\ zeros' \subseteq Functions
  <2>1. Len(stack) > 0 => Top.symbol \in Functions
    BY <1>0, StackFacts DEF Inv, StackInv, Top
  <2> QED BY <1>0, <2>1, ResultsView DEF TypeInv, Changed
<1>2. stack' \in Seq(Frames)
  <2>1. CASE UNCHANGED vars
    BY <1>0, <2>1 DEF vars, TypeInv
  <2>2. ASSUME NEW s \in Symbols, Ask(s) PROVE stack' \in Seq(Frames)
    <3>1. Frame(s) \in Frames
      BY <1>0, <2>2 DEF Frame, Frames, Ask, TypeInv
    <3>2. <<>> \in Seq(Frames) /\ <<Frame(s)>> \in Seq(Frames)
      BY <3>1
    <3> QED BY <2>2, <3>2 DEF Ask
  <2>3. ASSUME NEW d \in Symbols, ReturnEarly(d) PROVE stack' \in Seq(Frames)
    <3>1. PICK hash \in {0, 1} : Add(d, hash)
      BY <2>3, EarlyHash
    <3> QED BY <1>0, <2>3, <3>1, AddStack, StackFacts DEF ReturnEarly
  <2>4. ASSUME NEW d \in Symbols, Descend(d) PROVE stack' \in Seq(Frames)
    BY <1>0, <2>4, DescendStack
  <2>5. CASE Return
    <3>1. CASE Len(stack) = 1
      BY <2>5, <3>1 DEF Return
    <3> QED BY <1>0, <2>5, <3>1, ReturnStack
  <2> QED BY <2>1, <2>2, <2>3, <2>4, <2>5 DEF Next
<1> QED BY <1>0, <1>1, <1>2, InputsView DEF TypeInv, inputs

\* After a step, an active call is one that was active, a new one, or one that
\* has added the hash of a function on its list: 1 for an impacted one, 0 for
\* one that has a 0, for a library function, or to break a recursion.
LEMMA FrameView ==
  ASSUME Inv, OnesInv, [Next]_vars, NEW i \in 1..Len(stack')
  PROVE  \/ i \in 1..Len(stack) /\ stack'[i] = stack[i]
         \/ \E s \in Functions \ Changed : stack'[i] = Frame(s)
         \/ /\ i \in 1..Len(stack)
            /\ \E d \in stack[i].todo, hash \in {0, 1} :
                 /\ stack'[i] = Added(stack[i], d, hash)
                 /\ hash = 1 => d \in DependsOn(Changed)
                 /\ hash = 0 => \/ d \in zeros' \/ d \notin Functions
                                \/ ~RecursionFree(stack[i].symbol)
<1>0. /\ TypeInv /\ TypeInv' /\ Len(stack) \in Nat /\ Len(stack') \in Nat
      /\ Len(stack) > 0 => /\ Len(stack) \in 1..Len(stack)
                           /\ Top \in Frames /\ Top = stack[Len(stack)]
      /\ zeros \subseteq zeros'
  BY StackFacts, TypeStep, InputsView, LenProperties DEF Inv, TypeInv, Top
<1>1. CASE UNCHANGED vars
  BY <1>1 DEF vars
<1>2. ASSUME NEW s \in Symbols, Ask(s)
      PROVE  s \in Functions \ Changed /\ stack'[i] = Frame(s)
  <2>1. s \notin Changed /\ s \in Functions /\ stack' = <<Frame(s)>>
    BY <1>2 DEF Ask
  <2> QED BY <2>1
<1>3. ASSUME NEW d \in Symbols, ReturnEarly(d)
      PROVE  \/ i \in 1..Len(stack) /\ stack'[i] = stack[i]
             \/ /\ i = Len(stack)
                /\ d \in stack[i].todo
                /\ \E hash \in {0, 1} :
                     /\ stack'[i] = Added(stack[i], d, hash)
                     /\ hash = 1 => d \in DependsOn(Changed)
                     /\ hash = 0 => \/ d \in zeros' \/ d \notin Functions
                                    \/ ~RecursionFree(stack[i].symbol)
  <2>1. PICK hash \in {0, 1} :
           /\ Add(d, hash)
           /\ hash = 1 => d \in ones \cup Changed
           /\ hash = 0 => d \in zeros \cup currently_processed \/ d \notin Functions
    BY <1>3, EarlyHash
  <2>2. Len(stack) > 0 /\ d \in Top.todo
    BY <1>0, <1>3, StackFacts DEF ReturnEarly
  <2>3. /\ Len(stack') = Len(stack)
        /\ \A j \in 1..(Len(stack) - 1) : stack'[j] = stack[j]
        /\ stack'[Len(stack)] = Added(Top, d, hash)
    BY <1>0, <2>1, <2>2, AddStack
  <2>4. i = Len(stack) \/ (i \in 1..(Len(stack) - 1) /\ i \in 1..Len(stack))
    BY <1>0, <2>3
  <2>5. hash = 1 => d \in DependsOn(Changed)
    BY <1>0, <2>1, DependsOnFacts DEF OnesInv
  <2>6. hash = 0 => \/ d \in zeros' \/ d \notin Functions
                    \/ ~RecursionFree(Top.symbol)
    BY <1>0, <2>1, <2>2, StackCycle
  <2> QED BY <1>0, <2>2, <2>3, <2>4, <2>5, <2>6
<1>4. ASSUME NEW d \in Symbols, Descend(d)
      PROVE  \/ i \in 1..Len(stack) /\ stack'[i] = stack[i]
             \/ d \in Functions \ Changed /\ stack'[i] = Frame(d)
  <2>1. i \in 1..Len(stack) \/ i = Len(stack) + 1
    BY <1>0, <1>4, DescendStack
  <2> QED BY <1>0, <1>4, <2>1, DescendStack DEF Descend
<1>5. CASE Return
  <2>1. CASE Len(stack) = 1
    BY <1>5, <2>1 DEF Return
  <2>2. CASE Len(stack) # 1
    <3>1. /\ Len(stack) > 1
          /\ Len(stack') = Len(stack) - 1
          /\ \A j \in 1..(Len(stack) - 2) : stack'[j] = stack[j]
          /\ stack'[Len(stack) - 1] = Added(stack[Len(stack) - 1], Top.symbol, Top.hash)
      BY <1>0, <1>5, <2>2, ReturnStack
    <3>2. /\ i \in 1..Len(stack)
          /\ i = Len(stack) - 1 \/ i \in 1..(Len(stack) - 2)
          /\ i = Len(stack) - 1 => i \in 1..(Len(stack) - 1) /\ i + 1 = Len(stack)
      BY <1>0, <3>1
    <3>3. i = Len(stack) - 1 => Top.symbol \in stack[i].todo
      BY <1>0, <3>1, <3>2 DEF Inv, StackInv
    <3>4. Top.hash = 1 => Top.symbol \in DependsOn(Changed)
      BY <1>0, <3>1 DEF OnesInv
    <3>5. Top.hash \in {0, 1} /\ (Top.hash = 0 => Top.symbol \in zeros')
      BY <1>0, <1>5, <3>1 DEF Return, Frames
    <3> QED BY <3>1, <3>2, <3>3, <3>4, <3>5
  <2> QED BY <2>1, <2>2
<1> QED BY <1>1, <1>2, <1>3, <1>4, <1>5 DEF Next

\* The same, for what later lemmas use of a call that has added a hash.
LEMMA FrameAdded ==
  ASSUME TypeInv, NEW i \in 1..Len(stack), NEW d \in stack[i].todo, NEW hash \in {0, 1}
  PROVE  /\ Added(stack[i], d, hash).symbol = stack[i].symbol
         /\ Added(stack[i], d, hash).hash = hash
         /\ hash = 1 => Added(stack[i], d, hash).todo = {}
         /\ hash = 0 => Added(stack[i], d, hash).todo = stack[i].todo \ {d}
<1>1. stack[i] \in Frames /\ d \in Symbols
  BY StackFacts DEF Frames
<1> QED BY <1>1 DEF Added, Frames

LEMMA StackStep ==
  ASSUME Inv, OnesInv, [Next]_vars
  PROVE  StackInv'
<1>0. /\ TypeInv /\ Len(stack) \in Nat /\ Len(stack') \in Nat /\ UNCHANGED call_graph
      /\ Functions' = Functions /\ Changed' = Changed
  BY StackFacts, TypeStep, InputsView, LenProperties DEF Inv, TypeInv, inputs
<1>1. ASSUME NEW i \in 1..Len(stack')
      PROVE  /\ stack'[i].symbol \in Functions \ Changed
             /\ stack'[i].todo \subseteq call_graph[stack'[i].symbol]
             /\ stack'[i].hash = 1 => stack'[i].todo = {}
  <2>1. CASE i \in 1..Len(stack) /\ stack'[i] = stack[i]
    BY <2>1 DEF Inv, StackInv
  <2>2. CASE \E s \in Functions \ Changed : stack'[i] = Frame(s)
    BY <2>2 DEF Frame
  <2>3. CASE /\ i \in 1..Len(stack)
             /\ \E d \in stack[i].todo, hash \in {0, 1} : stack'[i] = Added(stack[i], d, hash)
    <3>1. PICK d \in stack[i].todo, hash \in {0, 1} : stack'[i] = Added(stack[i], d, hash)
      BY <2>3
    <3>2. /\ stack'[i].symbol = stack[i].symbol
          /\ stack'[i].todo \subseteq stack[i].todo
          /\ stack'[i].hash = 1 => stack'[i].todo = {}
      <4>1. /\ stack'[i].symbol = stack[i].symbol /\ stack'[i].hash = hash
            /\ hash = 1 => stack'[i].todo = {}
            /\ hash = 0 => stack'[i].todo = stack[i].todo \ {d}
        <5>1. TypeInv /\ i \in 1..Len(stack) /\ d \in stack[i].todo /\ hash \in {0, 1}
          BY <1>0, <2>3
        <5>2. /\ Added(stack[i], d, hash).symbol = stack[i].symbol
              /\ Added(stack[i], d, hash).hash = hash
              /\ hash = 1 => Added(stack[i], d, hash).todo = {}
              /\ hash = 0 => Added(stack[i], d, hash).todo = stack[i].todo \ {d}
          BY ONLY <5>1, FrameAdded
        <5> QED BY <3>1, <5>2
      <4> QED BY <4>1
    <3> QED BY <2>3, <3>2 DEF Inv, StackInv
  <2> QED BY <2>1, <2>2, <2>3, FrameView
<1>2. ASSUME NEW i \in 1..(Len(stack') - 1)
      PROVE  stack'[i + 1].symbol \in stack'[i].todo
  <2>1. CASE UNCHANGED vars
    BY <2>1 DEF vars, Inv, StackInv
  <2>2. ASSUME NEW s \in Symbols, Ask(s) PROVE FALSE
    <3>1. Len(stack') = 0 \/ Len(stack') = 1
      BY <2>2 DEF Ask
    <3>2. \A n \in Nat : i \in 1..(n - 1) => n # 0 /\ n # 1
      OBVIOUS
    <3> QED BY <1>0, <3>1, <3>2
  <2>3. ASSUME NEW d \in Symbols, ReturnEarly(d) PROVE stack'[i + 1].symbol \in stack'[i].todo
    <3>1. PICK hash \in {0, 1} : Add(d, hash)
      BY <2>3, EarlyHash
    <3>2. Len(stack) > 0 /\ Top \in Frames /\ Top = stack[Len(stack)]
      BY <1>0, <2>3, StackFacts DEF ReturnEarly, Top
    <3>3. /\ Len(stack') = Len(stack)
          /\ \A j \in 1..(Len(stack) - 1) : stack'[j] = stack[j]
          /\ stack'[Len(stack)].symbol = stack[Len(stack)].symbol
      BY <1>0, <3>1, <3>2, AddStack, AddedFacts
    <3>4. /\ i \in 1..(Len(stack) - 1)
          /\ i + 1 = Len(stack) \/ i + 1 \in 1..(Len(stack) - 1)
      BY <1>0, <3>3
    <3> QED BY <3>3, <3>4 DEF Inv, StackInv
  <2>4. ASSUME NEW d \in Symbols, Descend(d) PROVE stack'[i + 1].symbol \in stack'[i].todo
    <3>1. d \in stack[Len(stack)].todo
      BY <2>4 DEF Descend, Top
    <3>2. /\ i \in 1..Len(stack)
          /\ i = Len(stack) \/ (i \in 1..(Len(stack) - 1) /\ i + 1 \in 1..Len(stack))
      BY <1>0, <2>4, DescendStack
    <3>3. /\ \A j \in 1..Len(stack) : stack'[j] = stack[j]
          /\ stack'[Len(stack) + 1].symbol = d
      <4>1. /\ \A j \in 1..Len(stack) : stack'[j] = stack[j]
            /\ stack'[Len(stack) + 1] = Frame(d)
        BY <1>0, <2>4, DescendStack
      <4> QED BY <4>1 DEF Frame
    <3>4. CASE i = Len(stack)
      BY <3>1, <3>2, <3>3, <3>4
    <3>5. CASE i \in 1..(Len(stack) - 1) /\ i + 1 \in 1..Len(stack)
      BY <3>2, <3>3, <3>5 DEF Inv, StackInv
    <3> QED BY <3>2, <3>4, <3>5
  <2>5. CASE Return
    <3>1. Len(stack) # 1
      BY <1>2, <2>5 DEF Return
    <3>2. Top \in Frames /\ Len(stack) > 1
      BY <1>0, <2>5, <3>1, ReturnStack, StackFacts
    <3>3. Len(stack) - 1 \in 1..Len(stack)
      BY <1>0, <3>2
    <3>4. /\ Len(stack') = Len(stack) - 1
          /\ \A j \in 1..(Len(stack) - 2) : stack'[j] = stack[j]
          /\ stack'[Len(stack) - 1].symbol = stack[Len(stack) - 1].symbol
      <4>1. stack[Len(stack) - 1] \in Frames /\ Top.symbol \in Symbols /\ Top.hash \in {0, 1}
        BY <1>0, <3>2, <3>3, StackFacts DEF Frames
      <4> QED BY <1>0, <2>5, <3>1, <4>1, ReturnStack, AddedFacts
    <3>5. /\ i \in 1..(Len(stack) - 1) /\ i \in 1..(Len(stack) - 2)
          /\ i + 1 = Len(stack) - 1 \/ i + 1 \in 1..(Len(stack) - 2)
      BY <1>0, <3>4
    <3> QED BY <3>4, <3>5 DEF Inv, StackInv
  <2> QED BY <2>1, <2>2, <2>3, <2>4, <2>5 DEF Next
<1> QED BY <1>0, <1>1, <1>2 DEF StackInv

LEMMA OnesStep ==
  ASSUME Inv, OnesInv, [Next]_vars
  PROVE  OnesInv'
<1>0. TypeInv /\ DependsOn(Changed)' = DependsOn(Changed)
  BY InputsView DEF Inv
<1>1. ones' \subseteq DependsOn(Changed)
  <2>1. Len(stack) > 0 /\ Top.hash = 1 => Top.symbol \in DependsOn(Changed)
    BY <1>0, StackFacts DEF OnesInv, Top
  <2> QED BY <1>0, <2>1, ResultsView, DependsOnFacts DEF OnesInv
<1>2. ASSUME NEW i \in 1..Len(stack'), stack'[i].hash = 1
      PROVE  stack'[i].symbol \in DependsOn(Changed)
  <2>1. CASE i \in 1..Len(stack) /\ stack'[i] = stack[i]
    BY <1>2, <2>1 DEF OnesInv
  <2>2. CASE \E s \in Functions \ Changed : stack'[i] = Frame(s)
    BY <1>2, <2>2 DEF Frame
  <2>3. CASE /\ i \in 1..Len(stack)
             /\ \E d \in stack[i].todo, hash \in {0, 1} :
                  /\ stack'[i] = Added(stack[i], d, hash)
                  /\ hash = 1 => d \in DependsOn(Changed)
    <3>1. PICK d \in stack[i].todo, hash \in {0, 1} :
                  /\ stack'[i] = Added(stack[i], d, hash)
                  /\ hash = 1 => d \in DependsOn(Changed)
      BY <2>3
    <3>2. stack'[i].symbol = stack[i].symbol /\ hash = 1
      BY <1>0, <1>2, <2>3, <3>1, FrameAdded
    <3>3. d \in call_graph[stack[i].symbol] /\ stack[i].symbol \in Functions
      BY <2>3, <3>1 DEF Inv, StackInv
    <3> QED BY <1>0, <3>1, <3>2, <3>3, DependsOnFacts
  <2> QED BY <2>1, <2>2, <2>3, FrameView
<1> QED BY <1>0, <1>1, <1>2 DEF OnesInv

LEMMA ZerosStep ==
  ASSUME Inv, OnesInv, ZerosInv, [Next]_vars
  PROVE  ZerosInv'
<1>0. /\ TypeInv /\ UNCHANGED call_graph /\ zeros \subseteq zeros'
      /\ Functions' = Functions /\ Changed' = Changed
      /\ \A s : RecursionFree(s)' <=> RecursionFree(s)
  BY InputsView DEF Inv, inputs
<1>1. ASSUME NEW s \in zeros'
      PROVE  s \notin Changed /\ (RecursionFree(s) => call_graph[s] \cap Functions \subseteq zeros')
  <2>1. CASE s \in zeros
    BY <1>0, <2>1 DEF ZerosInv
  <2>2. CASE Len(stack) > 0 /\ s = Top.symbol /\ Top.hash = 0 /\ Top.todo = {}
    <3>1. Len(stack) \in 1..Len(stack)
      BY <1>0, <2>2, StackFacts
    <3>2. s \notin Changed
      BY <2>2, <3>1 DEF Inv, StackInv, Top
    <3> QED BY <1>0, <2>2, <3>1, <3>2 DEF ZerosInv, Top
  <2> QED BY <2>1, <2>2, ResultsView
<1>2. ASSUME NEW i \in 1..Len(stack'), RecursionFree(stack'[i].symbol), stack'[i].hash = 0
      PROVE  (call_graph[stack'[i].symbol] \cap Functions) \ stack'[i].todo \subseteq zeros'
  <2>1. CASE i \in 1..Len(stack) /\ stack'[i] = stack[i]
    BY <1>0, <1>2, <2>1 DEF ZerosInv
  <2>2. CASE \E s \in Functions \ Changed : stack'[i] = Frame(s)
    BY <2>2 DEF Frame
  <2>3. CASE /\ i \in 1..Len(stack)
             /\ \E d \in stack[i].todo, hash \in {0, 1} :
                  /\ stack'[i] = Added(stack[i], d, hash)
                  /\ hash = 0 => \/ d \in zeros' \/ d \notin Functions
                                 \/ ~RecursionFree(stack[i].symbol)
    <3>1. PICK d \in stack[i].todo, hash \in {0, 1} :
                  /\ stack'[i] = Added(stack[i], d, hash)
                  /\ hash = 0 => \/ d \in zeros' \/ d \notin Functions
                                 \/ ~RecursionFree(stack[i].symbol)
      BY <2>3
    <3>2. /\ stack'[i].symbol = stack[i].symbol /\ hash = 0
          /\ stack'[i].todo = stack[i].todo \ {d}
      BY <1>0, <1>2, <2>3, <3>1, FrameAdded
    <3>3. stack[i].hash = 0
      <4>1. stack[i].hash \in {0, 1}
        BY <1>0, <2>3, StackFacts DEF Frames
      <4> QED BY <2>3, <3>1, <4>1 DEF Inv, StackInv
    <3> QED BY <1>0, <1>2, <2>3, <3>1, <3>2, <3>3 DEF ZerosInv
  <2> QED BY <2>1, <2>2, <2>3, FrameView
<1> QED BY <1>0, <1>1, <1>2 DEF ZerosInv

\* The search forgets no function that it has met.
LEMMA AskedStep ==
  ASSUME Inv, AskedInv, [Next]_vars
  PROVE  AskedInv'
<1>0. /\ TypeInv /\ Len(stack) \in Nat
      /\ Len(stack) > 0 => Top \in Frames /\ Top = stack[Len(stack)]
      /\ ones \subseteq ones' /\ zeros \subseteq zeros'
  BY StackFacts, InputsView DEF Inv, Top
<1>1. CASE UNCHANGED vars
  BY <1>1 DEF vars, AskedInv, Met, currently_processed
<1>2. ASSUME NEW s \in Symbols, Ask(s) PROVE AskedInv'
  <2>1. currently_processed = {} /\ asked' = asked \cup {s}
    BY <1>2 DEF Ask, currently_processed
  <2>2. s \in Met'
    <3>1. CASE s \in ones \cup zeros \cup Changed
      BY <1>0, <1>2, <3>1 DEF Ask, Met
    <3>2. CASE s \notin ones \cup zeros \cup Changed
      <4>1. stack' = <<Frame(s)>>
        BY <1>2, <3>2 DEF Ask
      <4>2. Len(stack') = 1 /\ stack'[1].symbol = s
        BY <4>1 DEF Frame
      <4> QED BY <4>2 DEF Met, currently_processed
    <3> QED BY <3>1, <3>2
  <2> QED BY <1>0, <2>1, <2>2 DEF AskedInv, Met
<1>3. ASSUME asked' = asked,
             \A i \in 1..Len(stack) :
               \/ stack[i].symbol \in ones' \cup zeros'
               \/ \E j \in 1..Len(stack') : stack'[j].symbol = stack[i].symbol
      PROVE  AskedInv'
  <2>1. currently_processed \subseteq Met'
    BY <1>3 DEF currently_processed, Met
  <2> QED BY <1>0, <1>3, <2>1 DEF AskedInv, Met
<1>4. ASSUME NEW d \in Symbols, ReturnEarly(d) PROVE AskedInv'
  <2>1. PICK hash \in {0, 1} : Add(d, hash)
    BY <1>4, EarlyHash
  <2>2. Len(stack) > 0 /\ asked' = asked
    BY <1>0, <1>4, StackFacts DEF ReturnEarly
  <2>3. /\ Len(stack') = Len(stack)
        /\ \A j \in 1..(Len(stack) - 1) : stack'[j] = stack[j]
        /\ stack'[Len(stack)].symbol = stack[Len(stack)].symbol
    BY <1>0, <2>1, <2>2, AddStack, AddedFacts
  <2>4. \A i \in 1..Len(stack) : i = Len(stack) \/ i \in 1..(Len(stack) - 1)
    BY <1>0
  <2>5. \A i \in 1..Len(stack) : i \in 1..Len(stack') /\ stack'[i].symbol = stack[i].symbol
    BY <2>3, <2>4
  <2> QED BY <1>3, <2>2, <2>5
<1>5. ASSUME NEW d \in Symbols, Descend(d) PROVE AskedInv'
  <2>1. \A i \in 1..Len(stack) : i \in 1..Len(stack') /\ stack'[i].symbol = stack[i].symbol
    BY <1>0, <1>5, DescendStack
  <2> QED BY <1>3, <1>5, <2>1 DEF Descend
<1>6. CASE Return
  <2>1. asked' = asked /\ Len(stack) > 0 /\ Top.symbol \in ones' \cup zeros'
    BY <1>0, <1>6, StackFacts DEF Return
  <2>2. ASSUME NEW i \in 1..Len(stack), i # Len(stack)
        PROVE  i \in 1..Len(stack') /\ stack'[i].symbol = stack[i].symbol
    <3>1. Len(stack) # 1 /\ Len(stack) - 1 \in 1..Len(stack)
      BY <1>0, <2>2
    <3>2. stack[Len(stack) - 1] \in Frames /\ Top.symbol \in Symbols /\ Top.hash \in {0, 1}
      BY <1>0, <2>1, <3>1, StackFacts DEF Frames
    <3>3. /\ Len(stack') = Len(stack) - 1
          /\ \A j \in 1..(Len(stack) - 2) : stack'[j] = stack[j]
          /\ stack'[Len(stack) - 1].symbol = stack[Len(stack) - 1].symbol
      BY <1>0, <1>6, <3>1, <3>2, ReturnStack, AddedFacts
    <3>4. /\ i \in 1..Len(stack')
          /\ i = Len(stack) - 1 \/ i \in 1..(Len(stack) - 2)
      BY <1>0, <2>2, <3>3
    <3> QED BY <3>3, <3>4
  <2> QED BY <1>0, <1>3, <2>1, <2>2
<1> QED BY <1>1, <1>2, <1>4, <1>5, <1>6 DEF Next

FakeInv == Inv /\ OnesInv /\ ZerosInv /\ AskedInv

LEMMA FakeImplies ==
  ASSUME FakeInv
  PROVE  FakeExact
<1>0. TypeInv /\ ones \subseteq DependsOn(Changed)
  BY DEF FakeInv, Inv, OnesInv
<1>1. ASSUME stack = <<>>, asked = Functions, NEW s \in DependsOn(Changed), RecursionFree(s)
      PROVE  s \in ones
  <2> DEFINE S == Functions \ {t \in zeros : RecursionFree(t)}
  <2>1. Functions \subseteq ones \cup zeros
    BY <1>1 DEF FakeInv, AskedInv, Met, currently_processed
  <2>2. Changed \subseteq S
    BY DEF FakeInv, ZerosInv, Changed
  <2>3. ASSUME NEW u \in Functions, NEW d \in call_graph[u] \cap S, u \notin S PROVE FALSE
    <3>1. u \in zeros /\ RecursionFree(u)
      BY <2>3
    <3>2. d \in zeros /\ RecursionFree(d)
      BY <1>0, <2>3, <3>1, RecursionFreeCalls DEF FakeInv, ZerosInv
    <3> QED BY <2>3, <3>2
  <2>4. S \in SUBSET Symbols
    BY <1>0 DEF TypeInv
  <2>5. s \in S
    <3> HIDE DEF S
    <3> QED BY <1>0, <1>1, <2>2, <2>3, <2>4, DependsOnFacts
  <2> QED BY <1>1, <2>1, <2>5
<1> QED BY <1>0, <1>1 DEF FakeExact, get_impacted_funcs_fake_hash

\* get_impacted_funcs_fake_hash is right where its shortcuts cannot hurt: on
\* every call graph and in every order it reports impacted functions only,
\* and at its end all of them that lead to no recursion.
THEOREM DependencyAnalyzerFakeExact == Spec => []FakeExact
<1>1. Init => FakeInv
  <2> SUFFICES ASSUME Init PROVE FakeInv
    OBVIOUS
  <2>1. PICK K \in SUBSET Symbols : call_graph \in [K -> SUBSET Symbols]
    BY CallGraphsAssumption DEF Init
  <2>2. Functions \subseteq Symbols /\ call_graph \in [Functions -> SUBSET Symbols]
    BY <2>1 DEF Functions
  <2>3. Len(stack) = 0 /\ stack \in Seq(Frames) /\ ones = {} /\ zeros = {} /\ asked = {}
    BY DEF Init
  <2> QED BY <2>2, <2>3 DEF FakeInv, Inv, TypeInv, StackInv, OnesInv, ZerosInv, AskedInv
<1>2. FakeInv /\ [Next]_vars => FakeInv'
  BY TypeStep, StackStep, OnesStep, ZerosStep, AskedStep DEF FakeInv, Inv
<1> QED BY <1>1, <1>2, FakeImplies, PTL DEF Spec

-----------------------------------------------------------------------------
(* The searches for callers and callees.                                   *)

\* A set of natural numbers that is not empty has a least element.
LEMMA LeastNat ==
  ASSUME NEW T \in SUBSET Nat, T # {}
  PROVE  \E i \in T : \A j \in T : i <= j
<1>1. PICK i \in T : \A j \in T : ~ (<<j, i>> \in OpToRel(<, Nat))
  BY NatLessThanWellFounded, WFMin
<1>2. ASSUME NEW j \in T PROVE i <= j
  <2>1. <<j, i>> \in Nat \X Nat
    OBVIOUS
  <2>2. j < i => <<j, i>> \in OpToRel(<, Nat)
    BY <2>1, Zenon DEF OpToRel
  <2>3. ~(j < i)
    BY <1>1, <2>2
  <2> QED BY <2>3
<1> QED BY <1>2

\* Among sets of elements of a finite set there is one that no other contains.
LEMMA Maximal ==
  ASSUME NEW D, IsFiniteSet(D), NEW Q \in SUBSET SUBSET D, Q # {}
  PROVE  \E P \in Q : \A R \in Q : P \subseteq R => R = P
<1> DEFINE rest(P) == Cardinality(D \ P)
           T == {rest(P) : P \in Q}
<1>1. \A P \in Q : IsFiniteSet(D \ P) /\ rest(P) \in Nat
  BY FS_Difference, FS_CardinalityType
<1>2. T \in SUBSET Nat /\ T # {}
  BY <1>1
<1>3. \E n \in T : \A j \in T : n <= j
  <2> HIDE DEF T
  <2> QED BY <1>2, LeastNat
<1>4. PICK P \in Q : \A R \in Q : rest(P) <= rest(R)
  BY <1>3
<1>5. ASSUME NEW R \in Q, P \subseteq R PROVE R = P
  <2>1. D \ R \subseteq D \ P
    BY <1>5
  <2>2. rest(R) <= rest(P) /\ (rest(R) = rest(P) => D \ R = D \ P)
    BY <1>1, <2>1, FS_Subset
  <2>3. rest(R) = rest(P)
    <3>1. rest(P) \in Nat /\ rest(R) \in Nat /\ rest(P) <= rest(R) /\ rest(R) <= rest(P)
      BY <1>1, <1>4, <2>2
    <3> HIDE DEF rest
    <3> QED BY <3>1
  <2> QED BY <1>5, <2>2, <2>3
<1> QED BY <1>5

\* What can be reached from s over next, in one step or more.
Reached(D, next, s) ==
  {t \in D : \A S \in SUBSET D : next[s] \subseteq S /\ (\A x \in S : next[x] \subseteq S) => t \in S}

\* What a call of the search returns, given what the other calls return.
Returned(next, found, processed, s) ==
  IF s \in processed THEN {}
  ELSE next[s] \cup UNION {found[processed \cup {s}][t] : t \in next[s]}

\* The call for a symbol that is not being processed.
LEMMA ReturnedOpen ==
  ASSUME NEW next, NEW found, NEW processed, NEW s, s \notin processed
  PROVE  Returned(next, found, processed, s) =
           next[s] \cup UNION {found[processed \cup {s}][t] : t \in next[s]}
BY Zenon DEF Returned

\* found is what the recursive definition asks for.
Solves(D, next, found) ==
  found = [processed \in SUBSET D |-> [s \in D |-> Returned(next, found, processed, s)]]

\* The recursive definition has a solution: the least table that has what the
\* calls collect.
LEMMA Solvable ==
  ASSUME NEW D, NEW next \in [D -> SUBSET D]
  PROVE  \E found : Solves(D, next, found)
<1> DEFINE Tables == [SUBSET D -> [D -> SUBSET D]]
           Within(g, P, s) == /\ next[s] \subseteq g[P][s]
                              /\ \A t \in next[s] : g[P \cup {s}][t] \subseteq g[P][s]
           Has(g) == \A P \in SUBSET D, s \in D : s \notin P => Within(g, P, s)
           least == [P \in SUBSET D |-> [s \in D |->
                       {x \in D : \A g \in Tables : Has(g) => x \in g[P][s]}]]
           once == [P \in SUBSET D |-> [s \in D |-> Returned(next, least, P, s)]]
<1>1. least \in Tables /\ \A P \in SUBSET D, s \in D :
        least[P][s] = {x \in D : \A g \in Tables : Has(g) => x \in g[P][s]}
  OBVIOUS
<1>2. \A P \in SUBSET D, s \in D : P \cup {s} \in SUBSET D /\ next[s] \subseteq D
  OBVIOUS
<1>3. \A P \in SUBSET D, s \in D : once[P][s] = Returned(next, least, P, s)
  <2> HIDE DEF least
  <2> QED OBVIOUS
<1>4. \A P \in SUBSET D, s \in D : Returned(next, least, P, s) \subseteq D
  <2> HIDE DEF least
  <2> QED BY <1>1, <1>2 DEF Returned
<1>5. \A g \in Tables : Has(g) => \A P \in SUBSET D, s \in D : least[P][s] \subseteq g[P][s]
  BY <1>1
<1>6. \A P \in SUBSET D, s \in D : once[P][s] \subseteq least[P][s]
  <2> SUFFICES ASSUME NEW P \in SUBSET D, NEW s \in D, NEW x \in Returned(next, least, P, s)
               PROVE  x \in least[P][s]
    BY <1>3
  <2>1. x \in D /\ s \notin P
    <3> HIDE DEF least, once, Tables, Has
    <3>1. x \in D
      BY <1>4
    <3> QED BY <3>1 DEF Returned
  <2>2. ASSUME NEW g \in Tables, Has(g) PROVE x \in g[P][s]
    <3>1. Within(g, P, s)
      BY <2>1, <2>2
    <3>2. \A t \in next[s] : least[P \cup {s}][t] \subseteq g[P \cup {s}][t]
      BY <1>2, <1>5, <2>2
    <3> HIDE DEF least, Has, Tables
    <3> QED BY <2>1, <3>1, <3>2 DEF Returned
  <2> HIDE DEF Has, Tables
  <2> QED BY <1>1, <2>1, <2>2
<1>7. once \in Tables
  <2> HIDE DEF least
  <2> QED BY <1>4
<1>8. Has(once)
  <2> SUFFICES ASSUME NEW P \in SUBSET D, NEW s \in D, s \notin P PROVE Within(once, P, s)
    OBVIOUS
  <2>1. once[P][s] = next[s] \cup UNION {least[P \cup {s}][t] : t \in next[s]}
    <3> HIDE DEF least, once, Tables, Within, Has
    <3>1. Returned(next, least, P, s) = next[s] \cup UNION {least[P \cup {s}][t] : t \in next[s]}
      BY ReturnedOpen
    <3>2. once[P][s] = Returned(next, least, P, s)
      BY <1>3
    <3> QED BY <3>1, <3>2, Zenon
  <2>2. \A t \in next[s] : once[P \cup {s}][t] \subseteq least[P \cup {s}][t]
    BY <1>2, <1>6
  <2>3. next[s] \subseteq once[P][s] /\ \A t \in next[s] : least[P \cup {s}][t] \subseteq once[P][s]
    <3> HIDE DEF least, once
    <3> QED BY <2>1
  <2> HIDE DEF least, once
  <2> QED BY <2>2, <2>3
<1>9. \A P \in SUBSET D, s \in D : least[P][s] = once[P][s]
  <2> HIDE DEF least, once, Has, Tables
  <2> QED BY <1>5, <1>6, <1>7, <1>8
<1>10. least = once
  <2>1. /\ least = [P \in SUBSET D |-> [s \in D |-> least[P][s]]]
        /\ once = [P \in SUBSET D |-> [s \in D |-> once[P][s]]]
    <3> HIDE DEF least, once
    <3> QED BY <1>1, <1>7
  <2> HIDE DEF least, once
  <2> QED BY <1>9, <2>1
<1> QED
  <2> HIDE DEF least
  <2> QED BY <1>10 DEF Solves

LEMMA SearchSolves ==
  ASSUME NEW D, NEW next \in [D -> SUBSET D]
  PROVE  \E found : Solves(D, next, found) /\ search(next) = found[{}]
<1> DEFINE found == CHOOSE f : Solves(D, next, f)
<1>1. Solves(D, next, found)
  BY Solvable
<1>2. DOMAIN next = D
  OBVIOUS
<1>3. search(next) = found[{}]
  BY <1>2 DEF search, Solves, Returned
<1> QED BY <1>1, <1>3
\* However cycles are broken, the search finds all that can be reached.
LEMMA SearchExact ==
  ASSUME NEW D, IsFiniteSet(D), NEW next \in [D -> SUBSET D], NEW s \in D
  PROVE  search(next)[s] = Reached(D, next, s)
<1>1. PICK found : Solves(D, next, found) /\ search(next) = found[{}]
  BY SearchSolves
<1> DEFINE Sound(P) == \A r \in D : found[P][r] \subseteq Reached(D, next, r)
           Full(P) == \A r \in D \ P : /\ next[r] \subseteq found[P][r]
                                       /\ \A t \in found[P][r] \ P : next[t] \subseteq found[P][r]
           Bad == {P \in SUBSET D : ~(Sound(P) /\ Full(P))}
<1>2. \A P \in SUBSET D, r \in D : found[P][r] = Returned(next, found, P, r)
  <2>1. found = [P \in SUBSET D |-> [r \in D |-> Returned(next, found, P, r)]]
    BY <1>1 DEF Solves
  <2>2. \A P \in SUBSET D : found[P] = [r \in D |-> Returned(next, found, P, r)]
    BY <2>1
  <2> QED BY <2>2
<1>3. \A r \in D : next[r] \subseteq D /\ next[r] \subseteq Reached(D, next, r)
  BY DEF Reached
<1>4. \A r \in D : \A t \in next[r] : Reached(D, next, t) \subseteq Reached(D, next, r)
  <2> SUFFICES ASSUME NEW r \in D, NEW t \in next[r], NEW x \in Reached(D, next, t), NEW S \in SUBSET D,
                      next[r] \subseteq S, \A y \in S : next[y] \subseteq S
               PROVE  x \in S
    BY DEF Reached
  <2> QED BY DEF Reached
<1>5. ASSUME NEW P \in SUBSET D, \A r \in D \ P : Sound(P \cup {r}) /\ Full(P \cup {r})
      PROVE  Sound(P) /\ Full(P)
  <2> SUFFICES ASSUME NEW r \in D
               PROVE  /\ found[P][r] \subseteq Reached(D, next, r)
                      /\ r \notin P => /\ next[r] \subseteq found[P][r]
                                       /\ \A t \in found[P][r] \ P : next[t] \subseteq found[P][r]
    OBVIOUS
  <2>1. CASE r \in P
    BY <1>2, <2>1 DEF Returned
  <2>2. CASE r \notin P
    <3>1. found[P][r] = next[r] \cup UNION {found[P \cup {r}][t] : t \in next[r]}
      <4>1. found[P][r] = Returned(next, found, P, r)
        BY <1>2
      <4> QED BY <2>2, <4>1 DEF Returned
    <3>2. Sound(P \cup {r}) /\ Full(P \cup {r})
      BY <1>5, <2>2
    <3>3. found[P][r] \subseteq Reached(D, next, r)
      <4>1. \A t \in next[r] : found[P \cup {r}][t] \subseteq Reached(D, next, r)
        BY <1>3, <1>4, <3>2
      <4> QED BY <1>3, <3>1, <4>1
    <3>4. \A t \in next[r] : t \in P \cup {r} => found[P \cup {r}][t] = {}
      <4>1. P \cup {r} \in SUBSET D
        OBVIOUS
      <4> QED BY <1>2, <1>3, <4>1 DEF Returned
    <3>5. ASSUME NEW t \in found[P][r] \ P PROVE next[t] \subseteq found[P][r]
      <4>1. CASE t = r
        BY <3>1, <4>1
      <4>2. CASE t # r /\ t \in next[r]
        <5>1. t \in D \ (P \cup {r})
          BY <1>3, <3>5, <4>2
        <5>2. next[t] \subseteq found[P \cup {r}][t]
          BY <3>2, <5>1
        <5>3. found[P \cup {r}][t] \subseteq found[P][r]
          BY <3>1, <4>2
        <5> QED BY <5>2, <5>3
      <4>3. CASE t # r /\ t \notin next[r]
        <5>1. PICK u \in next[r] : t \in found[P \cup {r}][u]
          BY <3>1, <3>5, <4>3
        <5>2. u \in D \ (P \cup {r})
          BY <1>3, <3>4, <5>1
        <5>3. next[t] \subseteq found[P \cup {r}][u]
          BY <3>2, <3>5, <4>3, <5>1, <5>2
        <5> QED BY <3>1, <5>3
      <4> QED BY <4>1, <4>2, <4>3
    <3> QED BY <3>1, <3>3, <3>5
  <2> QED BY <2>1, <2>2
<1>6. Bad = {}
  <2> SUFFICES ASSUME Bad # {} PROVE FALSE
    OBVIOUS
  <2>1. Bad \in SUBSET SUBSET D
    OBVIOUS
  <2>2. PICK P \in Bad : \A R \in Bad : P \subseteq R => R = P
    <3> HIDE DEF Bad
    <3> QED BY <2>1, Maximal
  <2>3. \A r \in D \ P : P \cup {r} \in SUBSET D /\ P \cup {r} \notin Bad
    <3>1. ASSUME NEW r \in D \ P, P \cup {r} \in Bad PROVE FALSE
      <4> HIDE DEF Bad
      <4> QED BY <2>2, <3>1
    <3> QED BY <2>2, <3>1
  <2>4. P \in SUBSET D /\ ~(Sound(P) /\ Full(P))
    BY <2>2
  <2>5. \A r \in D \ P : Sound(P \cup {r}) /\ Full(P \cup {r})
    <3> HIDE DEF Sound, Full
    <3> QED BY <2>3
  <2> HIDE DEF Sound, Full, Bad
  <2> QED BY <1>5, <2>4, <2>5
<1>7. {} \in SUBSET D /\ Sound({}) /\ Full({})
  <2> HIDE DEF Sound, Full
  <2> QED BY <1>6
<1>8. found[{}][s] \subseteq Reached(D, next, s)
  BY <1>7
<1>9. Reached(D, next, s) \subseteq found[{}][s]
  <2>1. found[{}][s] \in SUBSET D
    BY <1>8 DEF Reached
  <2>2. next[s] \subseteq found[{}][s] /\ \A x \in found[{}][s] : next[x] \subseteq found[{}][s]
    BY <1>7
  <2> QED BY <2>1, <2>2 DEF Reached
<1> QED BY <1>1, <1>8, <1>9

\* The call graph and the hashes are those of functions of the program.
InputsInv ==
  /\ Functions \subseteq Symbols
  /\ call_graph \in [Functions -> SUBSET Symbols]
  /\ DOMAIN local_hashes = Functions /\ DOMAIN prev_hashes \subseteq Symbols

LEMMA InputsHold == Spec => []InputsInv
<1>1. Init => InputsInv
  <2> SUFFICES ASSUME Init PROVE InputsInv
    OBVIOUS
  <2>1. PICK K \in SUBSET Symbols : call_graph \in [K -> SUBSET Symbols]
    BY CallGraphsAssumption DEF Init
  <2>2. PICK L \in SUBSET Symbols : prev_hashes \in [L -> Hashes]
    BY DEF Init
  <2> QED BY <2>1, <2>2 DEF Init, InputsInv, Functions
<1>2. InputsInv /\ [Next]_vars => InputsInv'
  BY DEF InputsInv, Functions, Next, vars, inputs, Ask, ReturnEarly, Descend, Return
<1> QED BY <1>1, <1>2, PTL DEF Spec

\* get_impacted_funcs finds the callers of C, direct or not.
LEMMA ImpactedIs ==
  ASSUME InputsInv, NEW C \in SUBSET Symbols
  PROVE  get_impacted_funcs(C) = DependsOn(C)
<1> DEFINE next == [s \in Symbols |-> callers(s)]
           closed(S) == \A s \in Functions : call_graph[s] \cap S # {} => s \in S
<1>1. next \in [Symbols -> SUBSET Symbols]
  BY DEF InputsInv, callers
<1>2. \A s \in Symbols : get_dependents(s) = Reached(Symbols, next, s)
  <2> HIDE DEF next
  <2>1. \A s \in Symbols : search(next)[s] = Reached(Symbols, next, s)
    BY <1>1, SearchExact, CallGraphsAssumption
  <2> QED BY <2>1 DEF get_dependents, next
<1>3. \A S \in SUBSET Symbols : closed(S) <=> \A x \in S : next[x] \subseteq S
  BY DEF InputsInv, callers
<1>4. DependsOn(C) = {s \in Symbols : \A S \in SUBSET Symbols : C \subseteq S /\ closed(S) => s \in S}
  BY DEF DependsOn
<1>5. \A s \in C : get_dependents(s) = Reached(Symbols, next, s)
  BY <1>2
<1> HIDE DEF next, closed
<1>6. get_impacted_funcs(C) \subseteq DependsOn(C)
  <2>0. get_impacted_funcs(C) \subseteq Symbols
    BY <1>5 DEF get_impacted_funcs, Reached
  <2> SUFFICES ASSUME NEW x \in get_impacted_funcs(C), NEW S \in SUBSET Symbols,
                      C \subseteq S, closed(S)
               PROVE  x \in S
    BY <1>4, <2>0
  <2>1. CASE x \in C
    BY <2>1
  <2>2. ASSUME NEW s \in C, x \in Reached(Symbols, next, s) PROVE x \in S
    <3>1. next[s] \subseteq S /\ \A y \in S : next[y] \subseteq S
      BY <1>3
    <3> QED BY <2>2, <3>1 DEF Reached
  <2> QED BY <1>5, <2>1, <2>2 DEF get_impacted_funcs
<1>7. DependsOn(C) \subseteq get_impacted_funcs(C)
  <2> DEFINE S == get_impacted_funcs(C)
  <2>1. S = C \cup UNION {Reached(Symbols, next, s) : s \in C}
    BY <1>5 DEF get_impacted_funcs
  <2>2. S \in SUBSET Symbols /\ C \subseteq S
    BY <2>1 DEF Reached
  <2>3. \A s \in C : /\ next[s] \subseteq Reached(Symbols, next, s)
                     /\ \A x \in Reached(Symbols, next, s) : next[x] \subseteq Reached(Symbols, next, s)
    BY <1>1 DEF Reached
  <2>4. \A x \in S : next[x] \subseteq S
    <3> HIDE DEF S
    <3> QED BY <2>1, <2>3
  <2>5. closed(S)
    <3> HIDE DEF S
    <3> QED BY <1>3, <2>2, <2>4
  <2> HIDE DEF S
  <2>6. DependsOn(C) \subseteq S
    BY <1>4, <2>2, <2>5
  <2> QED BY <2>6 DEF S
<1> QED BY <1>6, <1>7

\* get_dependees finds the functions of the program that are called, direct or not.
LEMMA DependeesAre ==
  ASSUME InputsInv, NEW s \in Functions
  PROVE  get_dependees(s) = CalledBy(s)
<1> DEFINE next == [t \in Functions |-> call_graph[t] \cap Functions]
           closed(S) == \A t \in S \cap Functions : call_graph[t] \subseteq S
<1>1. next \in [Functions -> SUBSET Functions] /\ \A t \in Functions : next[t] = call_graph[t] \cap Functions
  OBVIOUS
<1>2. IsFiniteSet(Functions)
  BY CallGraphsAssumption, FS_Subset DEF InputsInv
<1>3. get_dependees(s) = Reached(Functions, next, s)
  <2> HIDE DEF next
  <2>1. search(next)[s] = Reached(Functions, next, s)
    BY <1>1, <1>2, SearchExact
  <2> QED BY <2>1 DEF get_dependees, next
<1>4. CalledBy(s) = {t \in Functions : \A S \in SUBSET Symbols :
                       call_graph[s] \subseteq S /\ closed(S) => t \in S}
  BY DEF CalledBy
<1> HIDE DEF next
<1>5. ASSUME NEW t \in Reached(Functions, next, s), NEW S \in SUBSET Symbols,
             call_graph[s] \subseteq S, closed(S)
      PROVE  t \in S
  <2>1. S \cap Functions \in SUBSET Functions
    OBVIOUS
  <2>2. next[s] \subseteq S \cap Functions /\ \A x \in S \cap Functions : next[x] \subseteq S \cap Functions
    BY <1>1, <1>5
  <2> QED BY <1>5, <2>1, <2>2 DEF Reached
<1>6. ASSUME NEW t \in CalledBy(s), NEW S \in SUBSET Functions, next[s] \subseteq S,
             \A x \in S : next[x] \subseteq S
      PROVE  t \in S
  <2> DEFINE U == S \cup (Symbols \ Functions)
  <2>1. U \in SUBSET Symbols /\ call_graph[s] \subseteq U /\ closed(U)
    BY <1>1, <1>6 DEF InputsInv
  <2>2. t \in Functions /\ t \in U
    <3> HIDE DEF U, closed
    <3> QED BY <1>4, <1>6, <2>1
  <2> QED BY <2>2
<1>7. Reached(Functions, next, s) \subseteq CalledBy(s)
  <2>1. Reached(Functions, next, s) \subseteq Functions
    BY DEF Reached
  <2> HIDE DEF closed
  <2> QED BY <1>4, <1>5, <2>1
<1>8. CalledBy(s) \subseteq Reached(Functions, next, s)
  <2>1. CalledBy(s) \subseteq Functions
    BY <1>4
  <2> QED BY <1>6, <2>1 DEF Reached
<1> QED BY <1>3, <1>7, <1>8

LEMMA ChangedSymbols == InputsInv => get_changed_functions \in SUBSET Symbols
  BY DEF InputsInv, get_changed_functions

\* get_impacted_funcs and get_dependees, whose searches break off at every
\* function that an active call is for, find all callers and all callees on
\* every call graph, cyclic or not, and nothing else.
THEOREM DependencyAnalyzerImpactedExact == Spec => []ImpactedExact
<1>1. InputsInv => ImpactedExact
  BY ChangedSymbols, ImpactedIs, DependeesAre DEF ImpactedExact
<1> QED BY <1>1, InputsHold, PTL

\* What --impacted-functions leaves out need not be looked at again: it is
\* unchanged, with all the code below it.
THEOREM DependencyAnalyzerUnimpacted == Spec => []UnimpactedUnchanged
<1>1. InputsInv => UnimpactedUnchanged
  <2> DEFINE C == get_changed_functions
             unimpacted == Functions \ get_impacted_funcs(C)
  <2> SUFFICES ASSUME InputsInv, NEW s \in unimpacted
               PROVE  /\ s \in DOMAIN prev_hashes /\ prev_hashes[s] = local_hashes[s]
                      /\ \A t \in call_graph[s] :
                           t \in unimpacted \/ t \notin Functions \cup DOMAIN prev_hashes
    BY DEF UnimpactedUnchanged
  <2>1. C \in SUBSET Symbols
    BY ChangedSymbols
  <2>2. get_impacted_funcs(C) = DependsOn(C)
    <3> HIDE DEF C
    <3> QED BY <2>1, ImpactedIs
  <2>3. C \subseteq DependsOn(C) /\ \A r \in Functions : call_graph[r] \cap DependsOn(C) # {} => r \in DependsOn(C)
    <3> HIDE DEF C
    <3> QED BY <2>1 DEF DependsOn, InputsInv
  <2>4. s \in Functions /\ s \notin DependsOn(C)
    BY <2>2
  <2>5. s \in DOMAIN prev_hashes /\ prev_hashes[s] = local_hashes[s]
    BY <2>3, <2>4 DEF get_changed_functions, InputsInv
  <2>6. ASSUME NEW t \in call_graph[s], t \in Functions \cup DOMAIN prev_hashes PROVE t \in unimpacted
    <3>1. t \notin DependsOn(C)
      BY <2>3, <2>4
    <3>2. t \in Functions
      BY <2>3, <2>6, <3>1 DEF get_changed_functions, InputsInv
    <3> QED BY <2>2, <3>1, <3>2
  <2> QED BY <2>5, <2>6
<1> QED BY <1>1, InputsHold, PTL
=============================================================================

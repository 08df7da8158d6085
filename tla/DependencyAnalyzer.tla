------------------------- MODULE DependencyAnalyzer -------------------------
(***************************************************************************)
(* dependency_analyzer: which functions a change impacts.  Two versions of *)
(* a program are compared by the local hashes of their functions; what the *)
(* changed functions impact is computed over the call graph of the new     *)
(* version, once by collecting the callers (get_impacted_funcs) and once,  *)
(* "for efficience", by get_fake_global_hash: a search like that of        *)
(* clang-hash-global, with 1 as the hash of a changed function and 0 as    *)
(* that of the others.                                                     *)
(*                                                                         *)
(* The order of the loops over Python's dicts and sets is left open.       *)
(***************************************************************************)
EXTENDS Naturals, Sequences, FiniteSets

CONSTANTS
  Symbols,       \* names of functions
  Hashes,        \* local hashes
  CallGraphs     \* call graphs: the functions a function of the program uses

ASSUME CallGraphsAssumption ==
  /\ IsFiniteSet(Symbols)
  /\ \A g \in CallGraphs : \E K \in SUBSET Symbols : g \in [K -> SUBSET Symbols]

VARIABLES
  call_graph,    \* of the new version, by read_info_files_functions_only
  local_hashes,  \* of the new version
  prev_hashes,   \* local hashes of the old version
  ones, zeros,   \* global_hashes: the symbols with the fake hash 1 and 0
  stack,         \* active calls of get_fake_global_hash, the innermost one last
  asked          \* symbols get_fake_global_hashes is through with, or busy with

inputs == <<call_graph, local_hashes, prev_hashes>>
vars == <<inputs, ones, zeros, stack, asked>>

Functions == DOMAIN call_graph

-----------------------------------------------------------------------------
(* The changed functions.                                                  *)

\* Mistake: deleted functions are left out.
ChangedKept ==
  {s \in DOMAIN local_hashes : s \in DOMAIN prev_hashes => local_hashes[s] # prev_hashes[s]}

get_changed_functions ==
  LET current_functions  == DOMAIN local_hashes
      previous_functions == DOMAIN prev_hashes
      modified == {s \in current_functions \cap previous_functions :
                     local_hashes[s] # prev_hashes[s]}
      added    == current_functions \ previous_functions
      deleted  == previous_functions \ current_functions
  IN  modified \cup added \cup deleted

-----------------------------------------------------------------------------
(* The callers of a function and the functions it calls, direct or not.    *)

callers(symbol) == {s \in Functions : symbol \in call_graph[s]}

\* The body of both searches: next has the neighbours of every function, and
\* processed holds the functions of the active calls, "to break recursion".
search(next) ==
  LET found[processed \in SUBSET DOMAIN next] ==
        [s \in DOMAIN next |->
           IF s \in processed THEN {}
           ELSE next[s] \cup UNION {found[processed \cup {s}][t] : t \in next[s]}]
  IN  found[{}]

\* Mistake: the callers' callers are left out when one of them is processed.
searchCut(next) ==
  LET found[processed \in SUBSET DOMAIN next] ==
        [s \in DOMAIN next |->
           IF s \in processed \/ next[s] \cap processed # {} THEN {}
           ELSE next[s] \cup UNION {found[processed \cup {s}][t] : t \in next[s]}]
  IN  found[{}]

DependentsCut(symbol) == searchCut([s \in Symbols |-> callers(s)])[symbol]

get_dependents(symbol) == search([s \in Symbols |-> callers(s)])[symbol]

\* For a function of the program; the code raises KeyError for any other.
get_dependees(symbol) == search([s \in Functions |-> call_graph[s] \cap Functions])[symbol]

get_impacted_funcs(changed) == changed \cup UNION {get_dependents(s) : s \in changed}

-----------------------------------------------------------------------------
(* get_fake_global_hashes.  A frame has hash 1 once the sum over the used  *)
(* definitions is not 0, and then the loop over them is left.              *)

\* The local hash of a symbol of the program is 1.
Changed == get_changed_functions \cap Functions

Frame(s) == [symbol |-> s, todo |-> call_graph[s], hash |-> 0]
Top == stack[Len(stack)]
currently_processed == {stack[i].symbol : i \in 1..Len(stack)}

Init ==
  /\ call_graph \in CallGraphs
  /\ local_hashes \in [DOMAIN call_graph -> Hashes]
  /\ prev_hashes \in UNION {[K -> Hashes] : K \in SUBSET Symbols}
  /\ ones = {} /\ zeros = {}
  /\ stack = <<>>
  /\ asked = {}

\* The loop over all symbols of the program.
Ask(s) ==
  /\ stack = <<>>
  /\ s \in Functions \ asked
  /\ asked' = asked \cup {s}
  /\ IF s \in ones \cup zeros \cup Changed
     THEN stack' = <<>> /\ ones' = ones \cup (Changed \cap {s})
     ELSE stack' = <<Frame(s)>> /\ UNCHANGED ones
  /\ UNCHANGED <<inputs, zeros>>

\* A call takes d off its list and adds what the call for d gave.
Added(frame, d, hash) ==
  [frame EXCEPT !.todo = IF hash = 1 THEN {} ELSE @ \ {d}, !.hash = hash]

Add(d, hash) == stack' = [stack EXCEPT ![Len(stack)] = Added(Top, d, hash)]

\* Mistake: what the memo table holds is not looked at.
ReturnEarlyForgets(d) ==
  /\ stack # <<>>
  /\ d \in Top.todo
  /\ \/ d \in Changed /\ Add(d, 1) /\ ones' = ones \cup {d}
     \/ /\ d \in (ones \cup zeros \cup currently_processed) \ Changed \/ d \notin Functions
        /\ Add(d, 0)
        /\ UNCHANGED ones
  /\ UNCHANGED <<inputs, zeros, asked>>

\* get_fake_global_hash(d) returns at once: a library function, or the memo
\* table has it, or it is changed, or it is being processed.
ReturnEarly(d) ==
  /\ stack # <<>>
  /\ d \in Top.todo
  /\ \/ d \in ones /\ Add(d, 1) /\ UNCHANGED ones
     \/ d \in Changed \ ones /\ Add(d, 1) /\ ones' = ones \cup {d}
     \/ /\ d \in zeros \cup (currently_processed \ Changed) \/ d \notin Functions
        /\ Add(d, 0)
        /\ UNCHANGED ones
  /\ UNCHANGED <<inputs, zeros, asked>>

Descend(d) ==
  /\ stack # <<>>
  /\ d \in Top.todo
  /\ d \in Functions \ (ones \cup zeros \cup Changed \cup currently_processed)
  /\ stack' = Append(stack, Frame(d))
  /\ UNCHANGED <<inputs, ones, zeros, asked>>

\* The innermost call stores its hash and returns it to its caller.
Return ==
  /\ stack # <<>>
  /\ Top.todo = {}
  /\ IF Top.hash = 1
     THEN ones' = ones \cup {Top.symbol} /\ UNCHANGED zeros
     ELSE zeros' = zeros \cup {Top.symbol} /\ UNCHANGED ones
  /\ LET n == Len(stack) - 1
     IN  stack' = IF n = 0 THEN <<>>
                  ELSE [SubSeq(stack, 1, n) EXCEPT ![n] = Added(@, Top.symbol, Top.hash)]
  /\ UNCHANGED <<inputs, asked>>

Next == Return \/ \E d \in Symbols : Ask(d) \/ ReturnEarly(d) \/ Descend(d)

Spec == Init /\ [][Next]_vars

get_impacted_funcs_fake_hash == ones

-----------------------------------------------------------------------------
(* Properties.                                                             *)

\* C and all functions that call one of C, directly or indirectly.
DependsOn(C) ==
  LET CallerClosed(S) == \A s \in Functions : call_graph[s] \cap S # {} => s \in S
  IN  {s \in Symbols : \A S \in SUBSET Symbols : C \subseteq S /\ CallerClosed(S) => s \in S}

\* The functions of the program that s calls, directly or indirectly.
CalledBy(s) ==
  LET CalleeClosed(S) == \A t \in S \cap Functions : call_graph[t] \subseteq S
  IN  {t \in Functions : \A S \in SUBSET Symbols :
         call_graph[s] \subseteq S /\ CalleeClosed(S) => t \in S}

\* ImpactedExact: --impacted-functions lists the changed functions and all that
\* depend on them, no others, and --dependees all that a function calls, whatever
\* cycles the searches have to break.
ImpactedExact ==
  asked = {} =>
    /\ get_impacted_funcs(get_changed_functions) = DependsOn(get_changed_functions)
    /\ \A s \in Functions : get_dependees(s) = CalledBy(s)

\* UnimpactedUnchanged: a function that is not listed is unchanged, and so are,
\* all the way down, the functions it calls: each is unlisted too, or the
\* program had and has no code for it.
UnimpactedUnchanged ==
  asked = {} =>
    LET unimpacted == Functions \ get_impacted_funcs(get_changed_functions)
    IN  \A s \in unimpacted :
          /\ s \in DOMAIN prev_hashes /\ prev_hashes[s] = local_hashes[s]
          /\ \A t \in call_graph[s] : t \in unimpacted \/ t \notin Functions \cup DOMAIN prev_hashes

\* s is not recursive and calls no recursive function, directly or indirectly.
RecursionFree(s) ==
  \A S \in SUBSET Functions :
    (\A t \in Functions : call_graph[t] \cap Functions \subseteq S => t \in S) => s \in S

\* FakeExact: get_impacted_funcs_fake_hash only ever holds functions impacted by
\* the changed ones, and in the end all of them that lead to no recursion.
FakeExact ==
  /\ get_impacted_funcs_fake_hash \subseteq DependsOn(Changed)
  /\ stack = <<>> /\ asked = Functions =>
       \A s \in DependsOn(Changed) : RecursionFree(s) => s \in get_impacted_funcs_fake_hash
=============================================================================

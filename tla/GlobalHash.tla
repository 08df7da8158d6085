----------------------------- MODULE GlobalHash -----------------------------
(***************************************************************************)
(* get_global_hash of clang-hash-global: the hash of a definition and of   *)
(* everything it uses, by a depth-first search over the used definitions   *)
(* that read_info_files of chashutil.py collected.  One memo table serves  *)
(* all the symbols one invocation asks for, and currently_processed breaks *)
(* cycles.                                                                 *)
(*                                                                         *)
(* The recursion is an explicit stack of frames, one per active call.  A   *)
(* digest is abstracted to the set of the symbols whose local hashes it    *)
(* has absorbed, that is, on whose change it depends.  The order of a list *)
(* of used definitions is left open, and so is the order of the symbols to *)
(* check.                                                                  *)
(*                                                                         *)
(* clang-hash-global is asked for names without their prefix, and          *)
(* dependency_analyzer for every symbol with a local hash as it is.        *)
(***************************************************************************)
EXTENDS Naturals, Sequences, FiniteSets

CONSTANTS
  Names,          \* names of definitions
  Symbols,        \* prefixed names: <<"function", n>>, <<"static variable", n>>, ...
  Graphs          \* use graphs: which symbols the code of a symbol uses

ASSUME GraphsAssumption ==
  /\ Symbols \subseteq STRING \X Names
  /\ Graphs \subseteq [Symbols -> SUBSET Symbols]

VARIABLES
  uses,              \* what the code of each symbol uses
  local_hashes,      \* the symbols with a local hash; others are library symbols
  mode,              \* which loop asks for digests
  symbols_to_check,  \* what it asks for
  unchecked,         \* what is left of that
  status,            \* how the program ended
  global_hashes,     \* the memo table: the digest of each symbol, {} if none yet
  stack,             \* the active calls, the innermost one last
  asked              \* the symbols get_global_hash was asked for so far, in order

given == <<uses, local_hashes, mode, symbols_to_check>>
search == <<uses, local_hashes, global_hashes, stack, asked>>
vars == <<given, unchecked, status, search>>

\* The options of clang-hash-global that ask for global hashes, and
\* get_global_hashes of dependency_analyzer.
Modes == {"--definition", "--object-file", "--all", "analyzer"}

Prefix(s) == s[1]
Plain == {"function", "variable"}

\* What is left of the use graph by read_info_files: only the prefixes
\* 'function' and 'variable' keep their list of used definitions.
used_definitions(s) == IF Prefix(s) \in Plain THEN uses[s] ELSE {}

Frame(s) == [symbol |-> s, todo |-> used_definitions(s), hash |-> {s}]

\* The keys of the memo table: no digest is empty.
Done == {s \in Symbols : global_hashes[s] # {}}

Top == stack[Len(stack)]
currently_processed == {stack[i].symbol : i \in 1..Len(stack)}

Frames == [symbol : Symbols, todo : SUBSET Symbols, hash : SUBSET Symbols]

TypeOK ==
  /\ uses \in [Symbols -> SUBSET Symbols]
  /\ local_hashes \subseteq Symbols
  /\ global_hashes \in [Symbols -> SUBSET Symbols]
  /\ stack \in Seq(Frames)
  /\ asked \in Seq(Symbols)

\* What each mode may have to check: any one name, the functions and variables
\* in the record of one object file, or the keys of local_hashes.
Requests ==
  CASE mode = "--definition" -> {{n} : n \in Names}
    [] mode = "--object-file" ->
         {{s[2] : s \in record} : record \in SUBSET {s \in local_hashes : Prefix(s) \in Plain}}
    [] OTHER -> {local_hashes}

Init ==
  /\ uses \in Graphs
  /\ local_hashes \in SUBSET Symbols
  /\ mode \in Modes
  /\ symbols_to_check \in Requests
  /\ unchecked = symbols_to_check
  /\ status = "searching"
  /\ global_hashes = [s \in Symbols |-> {}]
  /\ stack = <<>>
  /\ asked = <<>>

\* The first of the possible prefixes with a local hash; otherwise a symbol that
\* has none.  The analyzer's symbols have their prefix.  --all looks for a
\* second prefix before the one its symbols have.
real_sym(x) ==
  IF mode = "analyzer" THEN x
  ELSE IF <<"function", x>> \in local_hashes THEN <<"function", x>>
  ELSE <<"variable", x>>

Found(x) == real_sym(x) \in local_hashes

\* get_global_hash(s), called by the loop.
Start(s) ==
  /\ Len(stack) = 0
  /\ s \in local_hashes
  /\ asked' = Append(asked, s)
  /\ stack' = IF s \in Done THEN <<>> ELSE <<Frame(s)>>
  /\ UNCHANGED <<uses, local_hashes, global_hashes>>

\* The loop takes the next symbol.  What it stores in global_hashes under the
\* name without prefix is always the digest of real_sym(x).
Ask(x) ==
  /\ status = "searching"
  /\ x \in unchecked
  /\ unchecked' = unchecked \ {x}
  /\ Start(real_sym(x))
  /\ UNCHANGED <<mode, symbols_to_check, status>>

\* "Error: symbol not found", exit status 1.
NotFound(x) ==
  /\ status = "searching"
  /\ Len(stack) = 0
  /\ x \in unchecked
  /\ ~Found(x)
  /\ status' = "not found"
  /\ UNCHANGED <<given, unchecked, search>>

\* All digests are there and are printed, written or returned.
Output ==
  /\ status = "searching"
  /\ Len(stack) = 0
  /\ unchecked = {}
  /\ status' = "printed"
  /\ UNCHANGED <<given, unchecked, search>>

\* A call has taken d off its list and absorbed what get_global_hash(d) gave.
Absorbed(frame, d, hash) ==
  [symbol |-> frame.symbol, todo |-> frame.todo \ {d}, hash |-> frame.hash \cup hash]

Absorb(d, hash) == stack' = [stack EXCEPT ![Len(stack)] = Absorbed(Top, d, hash)]

\* Mistake: a symbol from the memo table contributes nothing.
ReturnEarlyEmpty(d) ==
  /\ Len(stack) > 0
  /\ d \in Top.todo
  /\ \/ d \notin local_hashes \/ d \in Done
     \/ d \in (local_hashes \cap currently_processed) \ Done
  /\ Absorb(d, IF d \in currently_processed THEN {d} ELSE {})
  /\ UNCHANGED <<uses, local_hashes, global_hashes, asked>>

\* Mistake: a library symbol is looked up like any other.
ReturnEarlyNoLibrary(d) ==
  /\ Len(stack) > 0
  /\ d \in Top.todo
  /\ \/ d \in local_hashes \cap Done /\ Absorb(d, global_hashes[d])
     \/ d \in (local_hashes \cap currently_processed) \ Done /\ Absorb(d, {d})
  /\ UNCHANGED <<uses, local_hashes, global_hashes, asked>>

\* get_global_hash(d) returns at once: d has no local hash, or is in the memo
\* table, or is being processed and its local hash has to do.
ReturnEarly(d) ==
  /\ Len(stack) > 0
  /\ d \in Top.todo
  /\ \/ d \notin local_hashes /\ Absorb(d, {})
     \/ d \in local_hashes \cap Done /\ Absorb(d, global_hashes[d])
     \/ d \in (local_hashes \cap currently_processed) \ Done /\ Absorb(d, {d})
  /\ UNCHANGED <<uses, local_hashes, global_hashes, asked>>

\* Mistake: the callee goes on with its caller's md5 object.
DescendShared(d) ==
  /\ Len(stack) > 0
  /\ d \in Top.todo
  /\ d \in local_hashes \ (Done \cup currently_processed)
  /\ stack' = Append(stack, [Frame(d) EXCEPT !.hash = @ \cup Top.hash])
  /\ UNCHANGED <<uses, local_hashes, global_hashes, asked>>

\* get_global_hash(d) has to look at what d uses.
Descend(d) ==
  /\ Len(stack) > 0
  /\ d \in Top.todo
  /\ d \in local_hashes \ (Done \cup currently_processed)
  /\ stack' = Append(stack, Frame(d))
  /\ UNCHANGED <<uses, local_hashes, global_hashes, asked>>

\* Mistake: the caller does not absorb what the call returns.
ReturnDropped ==
  /\ Len(stack) > 0
  /\ Top.todo = {}
  /\ global_hashes' = [global_hashes EXCEPT ![Top.symbol] = Top.hash]
  /\ stack' = IF Len(stack) = 1 THEN <<>>
              ELSE LET n == Len(stack) - 1
                   IN  [SubSeq(stack, 1, n) EXCEPT ![n] =
                          Absorbed(stack[n], Top.symbol, {})]
  /\ UNCHANGED <<uses, local_hashes, asked>>

\* The innermost call is through its list: it stores its digest and returns
\* it, and the caller, if there is one, absorbs it.
Return ==
  /\ Len(stack) > 0
  /\ Top.todo = {}
  /\ global_hashes' = [global_hashes EXCEPT ![Top.symbol] = Top.hash]
  /\ stack' = IF Len(stack) = 1 THEN <<>>
              ELSE LET n == Len(stack) - 1
                   IN  [SubSeq(stack, 1, n) EXCEPT ![n] =
                          Absorbed(stack[n], Top.symbol, Top.hash)]
  /\ UNCHANGED <<uses, local_hashes, asked>>

Call == Return \/ \E d \in Symbols : ReturnEarly(d) \/ Descend(d)

Next ==
  \/ Call /\ UNCHANGED <<mode, symbols_to_check, unchecked, status>>
  \/ \E x \in unchecked : Ask(x) \/ NotFound(x)
  \/ Output

Spec == Init /\ [][Next]_vars

\* A Python program runs on.
FairSpec == Spec /\ WF_vars(Next)

-----------------------------------------------------------------------------
(* Properties.                                                             *)

\* S contains, with a symbol, all the definitions its code uses.
Closed(S) == \A s \in S : uses[s] \cap local_hashes \subseteq S

\* The digest of s depends on s and, transitively, on all that is used.
Covers(s) == s \in global_hashes[s] /\ Closed(global_hashes[s])

\* DefinitionCovers: clang-hash-global --definition, with its fresh memo table,
\* gives a hash that a change of any definition used directly or indirectly
\* changes, on every use graph, with cycles or not.
DefinitionCovers == asked # <<>> /\ asked[1] \in Done => Covers(asked[1])

\* No cycle of the use graph can be reached from s.
CycleFree(s) ==
  \A S \in SUBSET Symbols :
    (\A t \in Symbols : uses[t] \cap local_hashes \subseteq S => t \in S) => s \in S

\* EveryHashCovers: so does every entry of the memo table, in whatever order an
\* invocation asks, if the definition uses no mutual recursion (docstring of
\* get_global_hash: "over all used definitions").
EveryHashCovers == \A s \in Done : CycleFree(s) => Covers(s)

\* NoFalseDependence: a hash depends on nothing that is not used.
NoFalseDependence ==
  \A s \in Done, S \in SUBSET Symbols : s \in S /\ Closed(S) => global_hashes[s] \subseteq S

\* Answered: on every graph the search ends, with a digest for all that was to
\* be checked or, if any of it has no local hash under the prefixes tried, with
\* an error.  (So --all always ends with an error unless there are no hashes.)
Answered ==
  <>[](/\ Len(stack) = 0
       /\ IF \A x \in symbols_to_check : Found(x)
          THEN status = "printed" /\ {real_sym(x) : x \in symbols_to_check} \subseteq Done
          ELSE status = "not found")
=============================================================================

---------------------- MODULE HistoryEvaluationProofs -----------------------
(***************************************************************************)
(* Theorems about the scripts that evaluate a history, for any number of   *)
(* builds, any parents and any data: what is kept of the previous commit   *)
(* is as good as what the files hold of the parent, so the local and the   *)
(* global script evaluate the same commits, and the local one is exact.    *)
(* Where uses have no cycles the recursion of the global hashes is well    *)
(* defined, and two hashes are the same exactly if all that is reached     *)
(* from the definition is; so the global script is exact too, and the call *)
(* graph script reports what it reports.                                   *)
(***************************************************************************)
EXTENDS HistoryEvaluation, FiniteSetTheorems, WellFoundedInduction, TLAPS

TypeInv ==
  /\ script \in Scripts \cup {"end"}
  /\ counter \in Nat
  /\ parent \in [Builds -> Revs \cup {None}]
  /\ stats = [s \in Scripts |-> [empty |-> stats[s].empty, commits |-> stats[s].commits]]

\* The data kept of a commit is what its file holds.
PrevInv ==
  script \in Scripts /\ prev.commit # None => prev.hashes = local_hashes(script, prev.commit)

\* The commits that a script should evaluate, and note as without data.
ToEvaluate(scr) ==
  {c \in Builds : /\ parent[c] # None /\ read_chash_data(c) # <<>>
                  /\ local_hashes(scr, parent[c]) # Empty}

WithoutData(scr) ==
  {c \in Builds : /\ parent[c] # None
                  /\ read_chash_data(c) = <<>> \/ local_hashes(scr, parent[c]) = Empty}

\* The builds that a script is through with.
After(scr) == CASE scr = "local" -> {"global", "callgraph", "end"}
                [] scr = "global" -> {"callgraph", "end"}
                [] scr = "callgraph" -> {"end"}

Reached(scr) == {c \in Builds : (script = scr /\ c < counter) \/ script \in After(scr)}

StatsInv ==
  /\ \A s \in {"local", "global"} :
       /\ Evaluated(s) = ToEvaluate(s) \cap Reached(s)
       /\ stats[s].empty = WithoutData(s) \cap Reached(s)
  /\ Evaluated("callgraph") \subseteq ToEvaluate("callgraph") \cap Reached("callgraph")

OutcomeInv ==
  /\ outcome = [s \in Scripts |-> outcome[s]]
  /\ script \in {"local", "global"} => outcome["global"] = None

Inv == TypeInv /\ PrevInv /\ StatsInv /\ OutcomeInv /\ LocalExact

-----------------------------------------------------------------------------
(* The data does not change.                                               *)

LEMMA DataKept ==
  ASSUME UNCHANGED <<parent, data>>
  PROVE  /\ \A rev : read_chash_data(rev)' = read_chash_data(rev)
         /\ \A scr, rev : local_hashes(scr, rev)' = local_hashes(scr, rev)
         /\ \A scr : ToEvaluate(scr)' = ToEvaluate(scr) /\ WithoutData(scr)' = WithoutData(scr)
<1>1. \A rev : read_chash_data(rev)' = read_chash_data(rev)
  BY DEF read_chash_data
<1>2. \A scr, rev : Entries(scr, rev)' = Entries(scr, rev)
  BY <1>1 DEF Entries
<1>3. \A scr, rev : Latest(scr, rev)' = Latest(scr, rev)
  BY <1>1, <1>2 DEF Latest
<1>4. \A scr, rev : local_hashes(scr, rev)' = local_hashes(scr, rev)
  BY <1>3 DEF local_hashes
<1>5. \A scr : ToEvaluate(scr)' = ToEvaluate(scr) /\ WithoutData(scr)' = WithoutData(scr)
  BY <1>1, <1>4 DEF ToEvaluate, WithoutData
<1> QED BY <1>1, <1>4, <1>5

\* The local and the global script find data of the same revisions, and the
\* call graph script of no others.
LEMMA SameData ==
  ASSUME NEW rev
  PROVE  /\ local_hashes("local", rev) = Empty <=> local_hashes("global", rev) = Empty
         /\ local_hashes("global", rev) = Empty => local_hashes("callgraph", rev) = Empty
<1>1. ASSUME NEW scr PROVE local_hashes(scr, rev) = Empty <=> Entries(scr, rev) = {}
  <2>1. DOMAIN Latest(scr, rev) = {} <=> Entries(scr, rev) = {}
    BY DEF Latest
  <2>2. DOMAIN local_hashes(scr, rev) = DOMAIN Latest(scr, rev)
    BY DEF local_hashes
  <2>3. local_hashes(scr, rev) = Empty <=> DOMAIN Latest(scr, rev) = {}
    BY DEF local_hashes, Empty
  <2> QED BY <2>1, <2>3
<1>2. Entries("local", rev) = Entries("global", rev) /\ Entries("callgraph", rev) \subseteq Entries("global", rev)
  BY DEF Entries
<1> QED BY <1>1, <1>2

LEMMA SameCommitsData ==
  /\ ToEvaluate("local") = ToEvaluate("global") /\ WithoutData("local") = WithoutData("global")
  /\ ToEvaluate("callgraph") \subseteq ToEvaluate("global")
BY SameData DEF ToEvaluate, WithoutData

\* Whether it is read or reused, the data of the parent is that of its file.
LEMMA OfParentHashes ==
  ASSUME PrevInv, script \in Scripts, NEW c \in Builds, parent[c] # None
  PROVE  OfParent(c).hashes = local_hashes(script, parent[c])
BY DEF PrevInv, OfParent, Reusable

-----------------------------------------------------------------------------
(* The steps.                                                              *)

LEMMA NoteEmptyView ==
  ASSUME TypeInv, script \in Scripts, NEW c \in Builds, NoteEmpty(c)
  PROVE  /\ stats' = [s \in Scripts |-> [empty |-> stats'[s].empty, commits |-> stats'[s].commits]]
         /\ \A s \in Scripts : s # script => stats'[s] = stats[s]
         /\ stats'[script].commits = stats[script].commits
         /\ stats'[script].empty = stats[script].empty \cup {c}
<1> DEFINE rec(s) == [empty |-> stats[s].empty, commits |-> stats[s].commits]
<1>1. stats = [s \in Scripts |-> rec(s)]
  BY DEF TypeInv
<1> DEFINE new == stats[script].empty \cup {c}
<1>2. stats' = [stats EXCEPT ![script] = [@ EXCEPT !.empty = new]]
  BY DEF NoteEmpty
<1> HIDE DEF new
<1>3. stats' = [s \in Scripts |-> IF s = script THEN [rec(s) EXCEPT !.empty = new] ELSE rec(s)]
  BY <1>1, <1>2
<1>4. /\ stats' = [s \in Scripts |-> [empty |-> stats'[s].empty, commits |-> stats'[s].commits]]
      /\ \A s \in Scripts : s # script => stats'[s] = stats[s]
      /\ stats'[script].commits = stats[script].commits
      /\ stats'[script].empty = new
  BY <1>1, <1>3
<1> QED BY <1>4 DEF new

LEMMA NoteChangedView ==
  ASSUME TypeInv, script \in Scripts, NEW c \in Builds, NEW changed, NEW named,
         NoteChanged(c, changed, named)
  PROVE  /\ stats' = [s \in Scripts |-> [empty |-> stats'[s].empty, commits |-> stats'[s].commits]]
         /\ \A s \in Scripts : s # script => stats'[s] = stats[s]
         /\ stats'[script].empty = stats[script].empty
         /\ DOMAIN stats'[script].commits = DOMAIN stats[script].commits \cup {c}
         /\ stats'[script].commits[c].changed = changed
         /\ stats'[script].commits[c].named = named
         /\ \A d \in DOMAIN stats[script].commits :
              d # c => stats'[script].commits[d] = stats[script].commits[d]
<1> DEFINE rec(s) == [empty |-> stats[s].empty, commits |-> stats[s].commits]
           note == [changed |-> changed, named |-> named,
                    count |-> Cardinality(DOMAIN local_hashes(script, c))]
           old == stats[script].commits
           new == [d \in DOMAIN old \cup {c} |-> IF d = c THEN note ELSE old[d]]
<1>1. stats = [s \in Scripts |-> rec(s)]
  BY DEF TypeInv
<1>2. stats' = [stats EXCEPT ![script] = [@ EXCEPT !.commits = new]]
  BY DEF NoteChanged
<1>3. stats' = [s \in Scripts |-> IF s = script THEN [rec(s) EXCEPT !.commits = new] ELSE rec(s)]
  <2> HIDE DEF new
  <2> QED BY <1>1, <1>2
<1>4. /\ stats' = [s \in Scripts |-> [empty |-> stats'[s].empty, commits |-> stats'[s].commits]]
      /\ \A s \in Scripts : s # script => stats'[s] = stats[s]
      /\ stats'[script].empty = stats[script].empty
      /\ stats'[script].commits = new
  <2> HIDE DEF new
  <2> QED BY <1>1, <1>3
<1>5. /\ DOMAIN new = DOMAIN old \cup {c} /\ new[c] = note
      /\ \A d \in DOMAIN old : d # c => new[d] = old[d]
  OBVIOUS
<1>6. note.changed = changed /\ note.named = named
  OBVIOUS
<1> QED BY <1>4, <1>5, <1>6

\* The counters of a script after it has dealt with build c.
LEMMA Advance ==
  ASSUME Inv, NEW c \in Builds, At(c), UNCHANGED <<parent, data, script, outcome>>,
         stats' = [s \in Scripts |-> [empty |-> stats'[s].empty, commits |-> stats'[s].commits]],
         \A s \in Scripts : s # script => stats'[s] = stats[s],
         DOMAIN stats'[script].commits = DOMAIN stats[script].commits \cup (ToEvaluate(script) \cap {c}),
         stats'[script].empty = stats[script].empty \cup (WithoutData(script) \cap {c})
  PROVE  TypeInv' /\ StatsInv' /\ OutcomeInv'
<1>0. script \in Scripts /\ counter = c /\ counter' = counter + 1 /\ counter \in Nat
  BY DEF At, Inv, TypeInv
<1>1. TypeInv'
  BY <1>0 DEF Inv, TypeInv
<1>2. OutcomeInv'
  BY DEF Inv, OutcomeInv
<1>3. \A s \in Scripts : script \notin After(script)
  BY <1>0 DEF After, Scripts
<1>4. /\ Reached(script)' = Reached(script) \cup {c}
      /\ \A s : s # script => Reached(s)' = Reached(s)
  <2>1. \A d \in Builds : d < c + 1 <=> d < c \/ d = c
    BY EvaluationAssumption DEF Builds
  <2>2. c \in Builds
    OBVIOUS
  <2>3. Reached(script) = {d \in Builds : d < c} /\ Reached(script)' = {d \in Builds : d < c + 1}
    BY <1>0, <1>3 DEF Reached
  <2>4. \A s : s # script => Reached(s)' = Reached(s)
    BY DEF Reached
  <2> QED BY <2>1, <2>2, <2>3, <2>4
<1>5. StatsInv'
  <2>1. \A s : ToEvaluate(s)' = ToEvaluate(s) /\ WithoutData(s)' = WithoutData(s)
    BY DataKept
  <2>2. ASSUME NEW s \in {"local", "global"}
        PROVE  /\ DOMAIN stats'[s].commits = ToEvaluate(s) \cap Reached(s)'
               /\ stats'[s].empty = WithoutData(s) \cap Reached(s)'
    <3>1. /\ DOMAIN stats[s].commits = ToEvaluate(s) \cap Reached(s)
          /\ stats[s].empty = WithoutData(s) \cap Reached(s)
      BY DEF Inv, StatsInv, Evaluated
    <3>2. CASE s = script
      BY <1>4, <3>1, <3>2
    <3>3. CASE s # script
      BY <1>4, <3>1, <3>3 DEF Scripts
    <3> QED BY <3>2, <3>3
  <2>3. DOMAIN stats'["callgraph"].commits \subseteq ToEvaluate("callgraph") \cap Reached("callgraph")'
    <3>1. DOMAIN stats["callgraph"].commits \subseteq ToEvaluate("callgraph") \cap Reached("callgraph")
      BY DEF Inv, StatsInv, Evaluated
    <3>2. CASE "callgraph" = script
      BY <1>4, <3>1, <3>2
    <3>3. CASE "callgraph" # script
      BY <1>4, <3>1, <3>3 DEF Scripts
    <3> QED BY <3>2, <3>3
  <2> QED BY <2>1, <2>2, <2>3 DEF StatsInv, Evaluated
<1> QED BY <1>1, <1>2, <1>5

\* What has been noted of a commit by the local script stays.
LEMMA LocalKept ==
  ASSUME LocalExact, UNCHANGED <<parent, data>>, stats'["local"].commits = stats["local"].commits
  PROVE  LocalExact'
<1>1. \A scr, rev : local_hashes(scr, rev)' = local_hashes(scr, rev)
  BY DataKept
<1> QED BY <1>1 DEF LocalExact, Evaluated, Changed, Common, Names

\* What Save keeps.
LEMMA Saved ==
  ASSUME NEW c, NEW global, Save(c, global), UNCHANGED <<parent, data, script>>
  PROVE  PrevInv'
<1>1. \A scr, rev : local_hashes(scr, rev)' = local_hashes(scr, rev)
  BY DataKept
<1>2. prev'.commit = c /\ prev'.hashes = local_hashes(script, c)
  BY DEF Save
<1> QED BY <1>1, <1>2 DEF PrevInv

LEMMA PrevKept ==
  ASSUME PrevInv, UNCHANGED <<parent, data, script, prev>>
  PROVE  PrevInv'
BY DataKept DEF PrevInv

LEMMA BuildStep ==
  ASSUME Inv, NEW c \in Builds,
         \/ SkipFirst(c) \/ SkipEmpty(c) \/ SkipEmptyParent(c)
         \/ EvaluateLocal(c) \/ EvaluateGlobal(c) \/ EvaluateCallGraph(c)
  PROVE  Inv'
<1>0. /\ TypeInv /\ PrevInv /\ LocalExact /\ At(c) /\ script \in Scripts
      /\ UNCHANGED <<parent, data, script, outcome>>
  BY DEF Inv, At, SkipFirst, SkipEmpty, SkipEmptyParent, EvaluateLocal, EvaluateGlobal,
         EvaluateCallGraph, Evaluable
<1>1. CASE SkipFirst(c)
  <2>1. stats' = stats /\ prev' = prev /\ parent[c] = None
    BY <1>1 DEF SkipFirst
  <2>2. c \notin ToEvaluate(script) /\ c \notin WithoutData(script)
    BY <2>1 DEF ToEvaluate, WithoutData
  <2>3. stats' = [s \in Scripts |-> [empty |-> stats'[s].empty, commits |-> stats'[s].commits]]
    BY <1>0, <2>1 DEF TypeInv
  <2>4. TypeInv' /\ StatsInv' /\ OutcomeInv'
    BY <1>0, <2>1, <2>2, <2>3, Advance
  <2> QED BY <1>0, <2>1, <2>4, LocalKept, PrevKept DEF Inv
<1>2. CASE SkipEmpty(c)
  <2>1. NoteEmpty(c) /\ prev' = prev /\ parent[c] # None /\ read_chash_data(c) = <<>>
    BY <1>2 DEF SkipEmpty
  <2>2. c \notin ToEvaluate(script) /\ c \in WithoutData(script)
    BY <2>1 DEF ToEvaluate, WithoutData
  <2>3. TypeInv' /\ StatsInv' /\ OutcomeInv'
    BY <1>0, <2>1, <2>2, NoteEmptyView, Advance
  <2>4. stats'["local"].commits = stats["local"].commits
    BY <1>0, <2>1, NoteEmptyView DEF Scripts
  <2> QED BY <1>0, <2>1, <2>3, <2>4, LocalKept, PrevKept DEF Inv
<1>3. CASE SkipEmptyParent(c)
  <2>1. /\ NoteEmpty(c) /\ parent[c] # None /\ OfParent(c).hashes = Empty
        /\ Save(c, prev.global)
    BY <1>3 DEF SkipEmptyParent
  <2>2. c \notin ToEvaluate(script) /\ c \in WithoutData(script)
    BY <1>0, <2>1, OfParentHashes DEF ToEvaluate, WithoutData
  <2>3. TypeInv' /\ StatsInv' /\ OutcomeInv'
    BY <1>0, <2>1, <2>2, NoteEmptyView, Advance
  <2>4. stats'["local"].commits = stats["local"].commits
    BY <1>0, <2>1, NoteEmptyView DEF Scripts
  <2> QED BY <1>0, <2>1, <2>3, <2>4, LocalKept, Saved DEF Inv
<1>4. ASSUME NEW changed, NEW named, NEW global,
             NoteChanged(c, changed, named), Save(c, global), Evaluable(c)
      PROVE  TypeInv' /\ StatsInv' /\ OutcomeInv' /\ PrevInv'
  <2>1. parent[c] # None /\ read_chash_data(c) # <<>> /\ OfParent(c).hashes # Empty
    BY <1>4 DEF Evaluable
  <2>2. c \in ToEvaluate(script) /\ c \notin WithoutData(script)
    BY <1>0, <2>1, OfParentHashes DEF ToEvaluate, WithoutData
  <2>3. TypeInv' /\ StatsInv' /\ OutcomeInv'
    BY <1>0, <1>4, <2>2, NoteChangedView, Advance
  <2> QED BY <1>0, <1>4, <2>3, Saved
<1>5. CASE EvaluateLocal(c)
  <2> DEFINE now == local_hashes("local", c)
             before == local_hashes("local", parent[c])
             changed == {e \in DOMAIN now \cap DOMAIN before : now[e] # before[e]}
  <2>1. script = "local" /\ Evaluable(c) /\ parent[c] # None /\ Save(c, Empty)
    BY <1>5 DEF EvaluateLocal, Evaluable
  <2>2. OfParent(c).hashes = before
    BY <1>0, <2>1, OfParentHashes
  <2>3. NoteChanged(c, changed, {})
    BY <1>5, <2>1, <2>2 DEF EvaluateLocal
  <2> HIDE DEF changed
  <2>4. TypeInv' /\ StatsInv' /\ OutcomeInv' /\ PrevInv'
    BY <1>4, <2>1, <2>3
  <2>5. /\ DOMAIN stats'["local"].commits = DOMAIN stats["local"].commits \cup {c}
        /\ stats'["local"].commits[c].changed = changed
        /\ \A d \in DOMAIN stats["local"].commits :
             d # c => stats'["local"].commits[d] = stats["local"].commits[d]
    BY <1>0, <2>1, <2>3, NoteChangedView
  <2>6. \A scr, rev : local_hashes(scr, rev)' = local_hashes(scr, rev)
    BY <1>0, DataKept
  <2>7. ASSUME NEW d \in DOMAIN stats'["local"].commits
        PROVE  stats'["local"].commits[d].changed =
                 {e \in DOMAIN local_hashes("local", d) \cap DOMAIN local_hashes("local", parent[d]) :
                    local_hashes("local", d)[e] # local_hashes("local", parent[d])[e]}
    <3>1. CASE d = c
      BY <2>5, <3>1 DEF changed
    <3>2. CASE d # c
      BY <1>0, <2>5, <3>2 DEF LocalExact, Evaluated, Changed, Common, Names
    <3> QED BY <3>1, <3>2
  <2>8. LocalExact'
    BY <1>0, <2>6, <2>7 DEF LocalExact, Evaluated, Changed, Common, Names
  <2> QED BY <2>4, <2>8 DEF Inv
<1>6. ASSUME script # "local", TypeInv', StatsInv', OutcomeInv', PrevInv',
             NEW changed, NEW named, NoteChanged(c, changed, named)
      PROVE  Inv'
  <2>1. stats'["local"].commits = stats["local"].commits
    BY <1>0, <1>6, NoteChangedView DEF Scripts
  <2> QED BY <1>0, <1>6, <2>1, LocalKept DEF Inv
<1>7. CASE EvaluateGlobal(c)
  <2>1. PICK changed, global : NoteChanged(c, changed, {}) /\ Save(c, global)
    BY <1>7 DEF EvaluateGlobal
  <2>2. script # "local" /\ Evaluable(c)
    BY <1>7 DEF EvaluateGlobal
  <2> QED BY <1>4, <1>6, <2>1, <2>2
<1>8. CASE EvaluateCallGraph(c)
  <2>1. PICK changed, diff : NoteChanged(c, changed, diff)
    BY <1>8 DEF EvaluateCallGraph
  <2>2. script # "local" /\ Evaluable(c) /\ Save(c, Empty)
    BY <1>8 DEF EvaluateCallGraph
  <2> QED BY <1>4, <1>6, <2>1, <2>2
<1> QED BY <1>1, <1>2, <1>3, <1>5, <1>7, <1>8

\* The next script begins, or the last one ends; with an exception or without.
LEMMA EndStep ==
  ASSUME Inv, Finish \/ (\E c \in Builds : Raise(c))
  PROVE  Inv'
<1>1. /\ UNCHANGED <<parent, data, stats>> /\ counter' \in Nat
      /\ outcome' = [s \in Scripts |-> outcome'[s]]
      /\ script \in {"local", "global"} => counter > N
      /\ \/ script = "local" /\ script' = "global" /\ counter' = 1
         \/ script = "global" /\ script' = "callgraph" /\ counter' = 1
         \/ script = "callgraph" /\ script' = "end"
  BY DEF Inv, TypeInv, OutcomeInv, Finish, Raise, At, Scripts
<1>2. script' \in {"local", "global"} => outcome'["global"] = None
  <2>1. CASE script = "local" /\ Finish
    BY <2>1 DEF Finish, Inv, OutcomeInv, Scripts
  <2>2. CASE script # "local"
    BY <1>1, <2>2
  <2>3. CASE \E c \in Builds : Raise(c)
    BY <1>1, <2>3 DEF Raise
  <2> QED BY <2>1, <2>2, <2>3
<1>3. PrevInv'
  <2>1. CASE Finish
    BY <2>1 DEF Finish, Start, PrevInv
  <2>2. CASE \E c \in Builds : Raise(c)
    BY <2>2 DEF Raise, PrevInv, Scripts
  <2> QED BY <2>1, <2>2
<1>4. /\ Reached("local")' = Reached("local") /\ Reached("global")' = Reached("global")
      /\ Reached("callgraph") \subseteq Reached("callgraph")'
  <2>1. \A c \in Builds : c <= N /\ ~(c < 1) /\ c \in Nat
    BY EvaluationAssumption DEF Builds
  <2>2. counter > N => \A c \in Builds : c < counter
    BY <2>1, EvaluationAssumption DEF Inv, TypeInv
  <2> QED BY <1>1, <2>1, <2>2 DEF Reached, After
<1>5. StatsInv'
  BY <1>1, <1>4, DataKept DEF Inv, StatsInv, Evaluated
<1>6. TypeInv' /\ OutcomeInv'
  BY <1>1, <1>2 DEF Inv, TypeInv, OutcomeInv, Scripts
<1> QED BY <1>1, <1>3, <1>5, <1>6, LocalKept DEF Inv

LEMMA HistoryHolds == Spec => []Inv
<1>1. Init => Inv
  <2> SUFFICES ASSUME Init PROVE Inv
    OBVIOUS
  <2>1. TypeInv /\ PrevInv /\ OutcomeInv
    BY EvaluationAssumption DEF Init, TypeInv, PrevInv, OutcomeInv, Scripts, Start
  <2>2. \A s \in Scripts : DOMAIN stats[s].commits = {} /\ stats[s].empty = {}
    BY DEF Init, Empty
  <2>3. \A s \in Scripts : Reached(s) = {}
    BY EvaluationAssumption DEF Init, Reached, Scripts, After, Builds
  <2>4. StatsInv /\ LocalExact
    BY <2>2, <2>3 DEF StatsInv, LocalExact, Evaluated, Scripts
  <2> QED BY <2>1, <2>4 DEF Inv
<1>2. Inv /\ [Next]_vars => Inv'
  <2> SUFFICES ASSUME Inv, [Next]_vars PROVE Inv'
    OBVIOUS
  <2>1. CASE UNCHANGED vars
    <3>1. UNCHANGED <<parent, data, script, counter, prev, stats, outcome>>
      BY <2>1 DEF vars
    <3>2. TypeInv' /\ OutcomeInv'
      BY <3>1 DEF Inv, TypeInv, OutcomeInv
    <3>3. StatsInv'
      BY <3>1, DataKept DEF Inv, StatsInv, Evaluated, Reached
    <3> QED BY <3>1, <3>2, <3>3, LocalKept, PrevKept DEF Inv
  <2> QED BY <2>1, BuildStep, EndStep DEF Next
<1> QED BY <1>1, <1>2, PTL DEF Spec

\* Although every script decides in its own way whether what it kept of the
\* previous commit is the parent's data, the local and the global script
\* evaluate and leave out the same commits, and the call graph script
\* evaluates no others.
THEOREM HistoryEvaluationSameCommits == Spec => []SameCommits
<1>1. Inv => SameCommits
  <2> SUFFICES ASSUME Inv PROVE SameCommits
    OBVIOUS
  <2>1. outcome["global"] # None => script \in {"callgraph", "end"}
    BY DEF Inv, OutcomeInv, TypeInv, Scripts
  <2>2. script \in {"callgraph", "end"} => Reached("local") = Builds /\ Reached("global") = Builds
    BY DEF Reached, After
  <2>3. script \notin {"callgraph", "end"} => Reached("callgraph") = {}
    BY DEF Inv, TypeInv, Reached, After, Scripts
  <2> QED BY <2>1, <2>2, <2>3, SameCommitsData DEF SameCommits, Inv, StatsInv, ToEvaluate
<1> QED BY <1>1, HistoryHolds, PTL

\* The local script reports of every commit it evaluates exactly the elements
\* whose hashes differ from the parent's, be the parent's data reused or read.
THEOREM HistoryEvaluationLocalExact == Spec => []LocalExact
<1>1. Inv => LocalExact
  BY DEF Inv
<1> QED BY <1>1, HistoryHolds, PTL

-----------------------------------------------------------------------------
(* Reach and global_hash, for any hashes and uses without cycles.          *)

\* A set of natural numbers that is not empty has a least element.
LEMMA LeastNat ==
  ASSUME NEW T \in SUBSET Nat, T # {}
  PROVE  \E i \in T : \A j \in T : i <= j
<1>1. PICK i \in T : \A j \in T : ~ (<<j, i>> \in OpToRel(<, Nat))
  BY NatLessThanWellFounded, WFMin
<1>2. ASSUME NEW j \in T PROVE i <= j
  <2>1. <<j, i>> \in Nat \X Nat
    OBVIOUS
  <2>2. j < i => <<j, i>> \in OpToRel(<, Nat)
    BY <2>1, Zenon DEF OpToRel
  <2>3. ~(j < i)
    BY <1>1, <2>2
  <2> QED BY <2>3
<1> QED BY <1>2

\* Among sets of elements of a finite set there is one that no other contains.
LEMMA Maximal ==
  ASSUME NEW D, IsFiniteSet(D), NEW Q \in SUBSET SUBSET D, Q # {}
  PROVE  \E P \in Q : \A R \in Q : P \subseteq R => R = P
<1> DEFINE rest(P) == Cardinality(D \ P)
           T == {rest(P) : P \in Q}
<1>1. \A P \in Q : IsFiniteSet(D \ P) /\ rest(P) \in Nat
  BY FS_Difference, FS_CardinalityType
<1>2. T \in SUBSET Nat /\ T # {}
  BY <1>1
<1>3. \E n \in T : \A j \in T : n <= j
  <2> HIDE DEF T
  <2> QED BY <1>2, LeastNat
<1>4. PICK P \in Q : \A R \in Q : rest(P) <= rest(R)
  BY <1>3
<1>5. ASSUME NEW R \in Q, P \subseteq R PROVE R = P
  <2>1. D \ R \subseteq D \ P
    BY <1>5
  <2>2. rest(R) <= rest(P) /\ (rest(R) = rest(P) => D \ R = D \ P)
    BY <1>1, <2>1, FS_Subset
  <2>3. rest(R) = rest(P)
    <3>1. rest(P) \in Nat /\ rest(R) \in Nat /\ rest(P) <= rest(R) /\ rest(R) <= rest(P)
      BY <1>1, <1>4, <2>2
    <3> HIDE DEF rest
    <3> QED BY <3>1
  <2> QED BY <1>5, <2>2, <2>3
<1> QED BY <1>5

\* Reach(S, used) has S, is closed, and is the least such set.
LEMMA ReachFacts ==
  ASSUME NEW used, NEW S \in SUBSET DOMAIN used
  PROVE  /\ S \subseteq Reach(S, used) /\ Reach(S, used) \subseteq DOMAIN used
         /\ \A t \in Reach(S, used) : used[t] \cap DOMAIN used \subseteq Reach(S, used)
         /\ \A T \in SUBSET DOMAIN used :
              S \subseteq T /\ (\A t \in T : used[t] \cap DOMAIN used \subseteq T) => Reach(S, used) \subseteq T
  BY DEF Reach

\* What e reaches are e and what the definitions used by e reach.
LEMMA ReachUnfold ==
  ASSUME NEW used, NEW e \in DOMAIN used
  PROVE  Reach({e}, used) = {e} \cup UNION {Reach({t}, used) : t \in used[e] \cap DOMAIN used}
<1> DEFINE M == used[e] \cap DOMAIN used
           U == {e} \cup UNION {Reach({t}, used) : t \in M}
<1>1. {e} \in SUBSET DOMAIN used /\ \A t \in M : {t} \in SUBSET DOMAIN used
  OBVIOUS
<1>2. \A t \in M : t \in Reach({e}, used)
  BY <1>1, ReachFacts
<1>3. \A t \in M : Reach({t}, used) \subseteq Reach({e}, used)
  <2> SUFFICES ASSUME NEW t \in M PROVE Reach({t}, used) \subseteq Reach({e}, used)
    OBVIOUS
  <2> DEFINE R == Reach({e}, used)
  <2>1. R \in SUBSET DOMAIN used /\ {t} \subseteq R /\ \A x \in R : used[x] \cap DOMAIN used \subseteq R
    BY <1>1, <1>2, ReachFacts
  <2> HIDE DEF R
  <2>2. Reach({t}, used) \subseteq R
    BY <1>1, <2>1, ReachFacts
  <2> QED BY <2>2 DEF R
<1>4. U \subseteq Reach({e}, used)
  <2>1. e \in Reach({e}, used)
    BY <1>1, ReachFacts
  <2> QED BY <1>3, <2>1
<1>5. Reach({e}, used) \subseteq U
  <2>1. \A t \in M : /\ t \in Reach({t}, used) /\ Reach({t}, used) \subseteq DOMAIN used
                     /\ \A x \in Reach({t}, used) : used[x] \cap DOMAIN used \subseteq Reach({t}, used)
    BY <1>1, ReachFacts
  <2>2. U \in SUBSET DOMAIN used /\ {e} \subseteq U
    BY <2>1
  <2>3. ASSUME NEW x \in U PROVE used[x] \cap DOMAIN used \subseteq U
    <3>1. CASE x = e
      BY <2>1, <3>1
    <3>2. CASE x # e
      <4>1. PICK t \in M : x \in Reach({t}, used)
        BY <3>2
      <4>2. Reach({t}, used) \subseteq U
        OBVIOUS
      <4>3. used[x] \cap DOMAIN used \subseteq Reach({t}, used)
        BY <2>1, <4>1
      <4> HIDE DEF U
      <4> QED BY <4>2, <4>3
    <3> QED BY <3>1, <3>2
  <2> HIDE DEF U
  <2> QED BY <1>1, <2>2, <2>3, ReachFacts
<1> QED BY <1>4, <1>5

\* Two graphs that agree on what t reaches in the first have the same there.
LEMMA ReachLocal ==
  ASSUME NEW used, NEW old, NEW t \in DOMAIN used \cap DOMAIN old,
         \A x \in Reach({t}, used) :
           x \in DOMAIN old /\ old[x] \cap DOMAIN old = used[x] \cap DOMAIN used
  PROVE  Reach({t}, old) \subseteq Reach({t}, used)
<1> DEFINE R == Reach({t}, used)
<1>1. {t} \in SUBSET DOMAIN used /\ {t} \in SUBSET DOMAIN old
  OBVIOUS
<1>2. R \in SUBSET DOMAIN old /\ {t} \subseteq R /\ \A x \in R : old[x] \cap DOMAIN old \subseteq R
  BY <1>1, ReachFacts
<1> HIDE DEF R
<1>3. Reach({t}, old) \subseteq R
  BY <1>1, <1>2, ReachFacts
<1> QED BY <1>3 DEF R

\* A version of a program: a finite number of definitions, uses without cycles.
Program(hashes, used) ==
  /\ IsFiniteSet(DOMAIN hashes) /\ DOMAIN used = DOMAIN hashes
  /\ \A S \in SUBSET DOMAIN hashes : S # {} => \E s \in S : used[s] \cap S = {}

\* The hash of s, given those of what it uses.
HashOf(global, hashes, used, h, s) ==
  IF s \in DOMAIN global THEN global[s]
  ELSE <<hashes[s], [t \in used[s] \cap DOMAIN hashes |-> h[t]]>>

Hashed(global, hashes, used, h) ==
  h = [s \in DOMAIN hashes |-> HashOf(global, hashes, used, h, s)]

\* Without cycles the recursive definition has a solution: as long as there are
\* definitions without hash, one of them uses none of these.
LEMMA Hashable ==
  ASSUME NEW global, NEW hashes, NEW used, Program(hashes, used)
  PROVE  \E h : Hashed(global, hashes, used, h)
<1> DEFINE D == DOMAIN hashes
           E(h, s) == HashOf(global, hashes, used, h, s)
           Closed(T) == \A t \in T : used[t] \cap D \subseteq T
           Q == {T \in SUBSET D : Closed(T) /\ \E h : h = [s \in T |-> E(h, s)]}
<1>1. {} \in Q
  <2>1. \E h : h = [s \in {} |-> E(h, s)]
    <3> HIDE DEF E
    <3>1. [s \in {} |-> s] = [s \in {} |-> E([x \in {} |-> x], s)]
      OBVIOUS
    <3> QED BY <3>1
  <2> QED BY <2>1
<1>2. PICK T \in Q : \A R \in Q : T \subseteq R => R = T
  <2>1. Q \in SUBSET SUBSET D /\ Q # {} /\ IsFiniteSet(D)
    BY <1>1 DEF Program
  <2> HIDE DEF Q, D
  <2> QED BY <2>1, Maximal
<1>3. PICK h : h = [s \in T |-> E(h, s)]
  BY <1>2
<1>4. T \in SUBSET D /\ Closed(T)
  BY <1>2
<1>5. CASE T = D
  BY <1>3, <1>5 DEF Hashed
<1>6. CASE T # D
  <2>1. PICK s \in D \ T : used[s] \cap (D \ T) = {}
    BY <1>4, <1>6 DEF Program
  <2> DEFINE R == T \cup {s}
             g == [x \in R |-> IF x = s THEN E(h, s) ELSE h[x]]
  <2>2. R \in SUBSET D /\ Closed(R) /\ \A x \in R : used[x] \cap D \subseteq T
    BY <1>4, <2>1
  <2>3. \A x \in T : g[x] = h[x]
    <3> HIDE DEF E
    <3> QED BY <2>1
  <2>4. ASSUME NEW x \in R PROVE E(g, x) = E(h, x)
    <3>1. \A t \in used[x] \cap D : g[t] = h[t]
      <4> HIDE DEF g
      <4> QED BY <2>2, <2>3, <2>4
    <3> HIDE DEF g
    <3> QED BY <3>1 DEF HashOf
  <2>5. \A x \in R : g[x] = E(h, x)
    <3> HIDE DEF E
    <3>1. \A x \in T : h[x] = E(h, x)
      BY <1>3
    <3> QED BY <3>1
  <2>6. g = [x \in R |-> E(g, x)]
    <3>1. \A x \in R : g[x] = E(g, x)
      <4> HIDE DEF g, E
      <4> QED BY <2>4, <2>5
    <3>2. g = [x \in R |-> g[x]]
      <4> HIDE DEF E
      <4> QED OBVIOUS
    <3> HIDE DEF g, E
    <3> QED BY <3>1, <3>2
  <2>7. R \in Q
    <3> HIDE DEF g, E, Closed
    <3> QED BY <2>2, <2>6
  <2>8. R = T
    <3> HIDE DEF Q
    <3> QED BY <1>2, <2>7
  <2> QED BY <2>1, <2>8
<1> QED BY <1>5, <1>6

LEMMA HashIs ==
  ASSUME NEW global, NEW hashes, NEW used, Program(hashes, used)
  PROVE  /\ DOMAIN global_hash(global, hashes, used) = DOMAIN hashes
         /\ \A s \in DOMAIN hashes : global_hash(global, hashes, used)[s] =
              HashOf(global, hashes, used, global_hash(global, hashes, used), s)
<1> DEFINE h == CHOOSE g : Hashed(global, hashes, used, g)
<1>1. Hashed(global, hashes, used, h)
  BY Hashable
<1>2. global_hash(global, hashes, used) = h
  BY DEF global_hash, Hashed, HashOf
<1> HIDE DEF h
<1> QED BY <1>1, <1>2 DEF Hashed

Fresh(hashes, used) == global_hash(Empty, hashes, used)

LEMMA FreshIs ==
  ASSUME NEW hashes, NEW used, Program(hashes, used), NEW s \in DOMAIN hashes
  PROVE  Fresh(hashes, used)[s] =
           <<hashes[s], [t \in used[s] \cap DOMAIN hashes |-> Fresh(hashes, used)[t]]>>
<1>1. s \notin DOMAIN Empty
  BY DEF Empty
<1>2. Fresh(hashes, used)[s] = HashOf(Empty, hashes, used, Fresh(hashes, used), s)
  BY HashIs DEF Fresh
<1> QED BY <1>1, <1>2 DEF HashOf

\* Hashes that are kept and right do not matter.
LEMMA MemoRight ==
  ASSUME NEW global, NEW hashes, NEW used, Program(hashes, used),
         \A s \in DOMAIN global : s \in DOMAIN hashes => global[s] = Fresh(hashes, used)[s]
  PROVE  \A s \in DOMAIN hashes : global_hash(global, hashes, used)[s] = Fresh(hashes, used)[s]
<1> DEFINE h == global_hash(global, hashes, used)
           f == Fresh(hashes, used)
           Bad == {s \in DOMAIN hashes : h[s] # f[s]}
<1> SUFFICES ASSUME Bad # {} PROVE FALSE
  OBVIOUS
<1>1. PICK s \in Bad : used[s] \cap Bad = {}
  BY DEF Program
<1>2. h[s] = HashOf(global, hashes, used, h, s)
  BY HashIs
<1>3. f[s] = <<hashes[s], [t \in used[s] \cap DOMAIN hashes |-> f[t]]>>
  BY FreshIs
<1>4. \A t \in used[s] \cap DOMAIN hashes : h[t] = f[t]
  BY <1>1
<1>5. s \notin DOMAIN global
  BY <1>1, <1>2 DEF HashOf
<1> HIDE DEF h, f
<1>6. h[s] = f[s]
  BY <1>2, <1>3, <1>4, <1>5 DEF HashOf
<1> QED BY <1>1, <1>6

\* All that the global hash of e should depend on.
BelowOf(hashes, used, e) ==
  [t \in Reach({e}, used) |-> <<hashes[t], used[t] \cap DOMAIN used>>]

\* Global hashes of two versions are the same exactly if all below is.
LEMMA HashesTell ==
  ASSUME NEW hashes, NEW used, NEW prev_hashes, NEW prev_used,
         Program(hashes, used), Program(prev_hashes, prev_used)
  PROVE  \A e \in DOMAIN hashes \cap DOMAIN prev_hashes :
           Fresh(hashes, used)[e] = Fresh(prev_hashes, prev_used)[e]
             <=> BelowOf(hashes, used, e) = BelowOf(prev_hashes, prev_used, e)
<1> DEFINE f == Fresh(hashes, used)
           g == Fresh(prev_hashes, prev_used)
           D == DOMAIN hashes
           C == DOMAIN prev_hashes
           below(t) == BelowOf(hashes, used, t)
           prev_below(t) == BelowOf(prev_hashes, prev_used, t)
           Tells(e) == f[e] = g[e] <=> below(e) = prev_below(e)
           Bad == {e \in D \cap C : ~Tells(e)}
<1> SUFFICES ASSUME Bad # {} PROVE FALSE
  OBVIOUS
<1>1. PICK e \in Bad : used[e] \cap Bad = {}
  <2>1. Bad \in SUBSET D
    OBVIOUS
  <2> HIDE DEF Bad
  <2> QED BY <2>1 DEF Program
<1>2. e \in D /\ e \in C /\ DOMAIN used = D /\ DOMAIN prev_used = C
  BY <1>1 DEF Program
<1> DEFINE M == used[e] \cap D
           L == prev_used[e] \cap C
<1>3. \A t \in M \cap C : Tells(t)
  <2> HIDE DEF Tells
  <2> QED BY <1>1
<1>4. f[e] = <<hashes[e], [t \in M |-> f[t]]>> /\ g[e] = <<prev_hashes[e], [t \in L |-> g[t]]>>
  <2>1. ASSUME NEW k, NEW u, Program(k, u)
        PROVE  \A s \in DOMAIN k : Fresh(k, u)[s] = <<k[s], [t \in u[s] \cap DOMAIN k |-> Fresh(k, u)[t]]>>
    BY ONLY <2>1, FreshIs
  <2>2. Program(hashes, used) /\ Program(prev_hashes, prev_used)
    OBVIOUS
  <2>3. f[e] = <<hashes[e], [t \in M |-> f[t]]>>
    BY ONLY <1>2, <2>1, <2>2
  <2>4. g[e] = <<prev_hashes[e], [t \in L |-> g[t]]>>
    BY ONLY <1>2, <2>1, <2>2
  <2> QED BY <2>3, <2>4, Zenon
<1>5. f[e] = g[e] <=> hashes[e] = prev_hashes[e] /\ M = L /\ \A t \in M : f[t] = g[t]
  <2> DEFINE F == [t \in M |-> f[t]]
             G == [t \in L |-> g[t]]
  <2>1. f[e] = g[e] <=> hashes[e] = prev_hashes[e] /\ F = G
    <3> HIDE DEF f, g, F, G
    <3> QED BY <1>4 DEF F, G
  <2>2. F = G <=> M = L /\ \A t \in M : f[t] = g[t]
    <3> HIDE DEF f, g, M, L
    <3>1. DOMAIN F = M /\ DOMAIN G = L /\ (\A t \in M : F[t] = f[t]) /\ (\A t \in L : G[t] = g[t])
      OBVIOUS
    <3>2. F = [t \in DOMAIN F |-> F[t]] /\ G = [t \in DOMAIN G |-> G[t]]
      OBVIOUS
    <3>3. F = G => M = L /\ \A t \in M : f[t] = g[t]
      <4> HIDE DEF F, G
      <4> QED BY <3>1
    <3> QED BY <3>1, <3>2, <3>3
  <2> QED BY <2>1, <2>2
<1>6. /\ Reach({e}, used) = {e} \cup UNION {Reach({t}, used) : t \in M}
      /\ Reach({e}, prev_used) = {e} \cup UNION {Reach({t}, prev_used) : t \in L}
  BY <1>2, ReachUnfold
<1>7. \A t \in D : /\ DOMAIN below(t) = Reach({t}, used) /\ t \in Reach({t}, used)
                   /\ Reach({t}, used) \subseteq D
                   /\ \A x \in Reach({t}, used) : below(t)[x] = <<hashes[x], used[x] \cap D>>
  <2>1. \A t \in D : {t} \in SUBSET DOMAIN used
    BY <1>2
  <2> QED BY <1>2, <2>1, ReachFacts DEF BelowOf
<1>8. \A t \in C : /\ DOMAIN prev_below(t) = Reach({t}, prev_used) /\ t \in Reach({t}, prev_used)
                   /\ Reach({t}, prev_used) \subseteq C
                   /\ \A x \in Reach({t}, prev_used) : prev_below(t)[x] = <<prev_hashes[x], prev_used[x] \cap C>>
  <2>1. \A t \in C : {t} \in SUBSET DOMAIN prev_used
    BY <1>2
  <2> QED BY <1>2, <2>1, ReachFacts DEF BelowOf
<1>9. \A t : /\ below(t) = [x \in Reach({t}, used) |-> below(t)[x]]
             /\ prev_below(t) = [x \in Reach({t}, prev_used) |-> prev_below(t)[x]]
  BY DEF BelowOf
<1> HIDE DEF f, g, below, prev_below
<1>10. ASSUME f[e] = g[e] PROVE below(e) = prev_below(e)
  <2>1. hashes[e] = prev_hashes[e] /\ M = L /\ \A t \in M : f[t] = g[t]
    BY <1>5, <1>10
  <2>2. \A t \in M : below(t) = prev_below(t)
    BY <1>3, <2>1
  <2>3. \A t \in M : Reach({t}, used) = Reach({t}, prev_used)
    BY <1>7, <1>8, <2>1, <2>2
  <2>4. Reach({e}, used) = Reach({e}, prev_used)
    <3>1. {Reach({t}, used) : t \in M} = {Reach({t}, prev_used) : t \in L}
      <4> HIDE DEF M, L
      <4> QED BY <2>1, <2>3
    <3> QED BY <1>6, <3>1
  <2>5. ASSUME NEW x \in Reach({e}, used) PROVE below(e)[x] = prev_below(e)[x]
    <3>1. CASE x = e
      BY <1>2, <1>7, <1>8, <2>1, <3>1
    <3>2. ASSUME NEW t \in M, x \in Reach({t}, used) PROVE below(e)[x] = prev_below(e)[x]
      <4>1. below(t)[x] = prev_below(t)[x] /\ x \in Reach({t}, prev_used)
        BY <2>2, <2>3, <3>2
      <4>2. t \in D /\ t \in C
        BY <2>1
      <4>3. below(t)[x] = <<hashes[x], used[x] \cap D>> /\ below(e)[x] = <<hashes[x], used[x] \cap D>>
        BY <1>2, <1>7, <2>5, <3>2, <4>2
      <4>4. /\ prev_below(t)[x] = <<prev_hashes[x], prev_used[x] \cap C>>
            /\ prev_below(e)[x] = <<prev_hashes[x], prev_used[x] \cap C>>
        BY <1>2, <1>8, <2>4, <2>5, <4>1, <4>2
      <4> QED BY <4>1, <4>3, <4>4, Zenon
    <3> QED BY <1>6, <2>5, <3>1, <3>2
  <2> QED BY <1>9, <2>4, <2>5
<1>11. ASSUME below(e) = prev_below(e) PROVE f[e] = g[e]
  <2> DEFINE R == Reach({e}, used)
  <2>1. R = Reach({e}, prev_used) /\ e \in R /\ R \subseteq D /\ R \subseteq C
    BY <1>2, <1>7, <1>8, <1>11
  <2>2. \A x \in R : hashes[x] = prev_hashes[x] /\ used[x] \cap D = prev_used[x] \cap C
    <3>1. \A x \in R : <<hashes[x], used[x] \cap D>> = <<prev_hashes[x], prev_used[x] \cap C>>
      BY <1>2, <1>7, <1>8, <1>11, <2>1
    <3> QED BY <3>1
  <2>3. M = L /\ hashes[e] = prev_hashes[e]
    BY <2>1, <2>2
  <2>4. ASSUME NEW t \in M PROVE f[t] = g[t]
    <3>1. Reach({t}, used) \subseteq R /\ Reach({t}, prev_used) \subseteq R /\ t \in D /\ t \in C
      <4> HIDE DEF M, L
      <4>1. Reach({t}, used) \subseteq R /\ Reach({t}, prev_used) \subseteq R
        BY <1>6, <2>1, <2>3, <2>4
      <4> QED BY <2>3, <4>1 DEF M, L
    <3>2. Reach({t}, prev_used) \subseteq Reach({t}, used)
      BY <1>2, <2>1, <2>2, <3>1, ReachLocal
    <3>3. Reach({t}, used) \subseteq Reach({t}, prev_used)
      BY <1>2, <2>1, <2>2, <3>1, ReachLocal
    <3>4. \A x \in Reach({t}, used) : below(t)[x] = prev_below(t)[x]
      <4>1. \A x \in Reach({t}, used) :
              <<hashes[x], used[x] \cap D>> = <<prev_hashes[x], prev_used[x] \cap C>>
        BY <2>2, <3>1
      <4>2. \A x \in Reach({t}, used) : below(t)[x] = <<hashes[x], used[x] \cap D>>
        BY <1>7, <3>1
      <4>3. \A x \in Reach({t}, used) : prev_below(t)[x] = <<prev_hashes[x], prev_used[x] \cap C>>
        BY <1>8, <3>1, <3>3
      <4> QED BY <4>1, <4>2, <4>3
    <3>5. below(t) = prev_below(t)
      <4>1. Reach({t}, used) = Reach({t}, prev_used)
        BY <3>2, <3>3
      <4>2. below(t) = [x \in Reach({t}, used) |-> below(t)[x]]
        BY <1>9
      <4>3. prev_below(t) = [x \in Reach({t}, used) |-> prev_below(t)[x]]
        BY <1>9, <4>1
      <4> QED BY <3>4, <4>2, <4>3
    <3> QED BY <1>3, <3>1, <3>5
  <2> QED BY <1>5, <2>3, <2>4
<1>12. Tells(e)
  BY <1>10, <1>11
<1> QED BY <1>1, <1>12

-----------------------------------------------------------------------------
(* What is read of a revision is a program.                                *)

LEMMA MaxOf ==
  ASSUME NEW n \in Nat, NEW S \in SUBSET (0..n), S # {}
  PROVE  Max(S) \in S
<1> DEFINE T == {n - x : x \in S}
<1>1. T \in SUBSET Nat /\ T # {}
  <2>1. \A x \in S : n - x \in Nat
    OBVIOUS
  <2> QED BY <2>1
<1>2. \E i \in T : \A j \in T : i <= j
  <2> HIDE DEF T
  <2> QED BY <1>1, LeastNat
<1>3. PICK x \in S : \A y \in S : n - x <= n - y
  BY <1>2
<1>4. \A y \in S : x >= y
  BY <1>3
<1>5. \E z \in S : \A y \in S : z >= y
  BY <1>4
<1> QED BY <1>5 DEF Max

LEMMA ImageFinite ==
  ASSUME NEW J, IsFiniteSet(J), NEW f
  PROVE  IsFiniteSet({f[j] : j \in J})
<1> DEFINE T == {f[j] : j \in J}
           g == [j \in J |-> f[j]]
<1>1. g \in Surjection(J, T)
  BY DEF Surjection
<1> HIDE DEF g, T
<1>2. IsFiniteSet(T)
  BY <1>1, FS_Surjection
<1> QED BY <1>2 DEF T

\* What is read is a beginning of the file without a broken record.
LEMMA ReadIs ==
  ASSUME data \in Histories, NEW rev \in Revs
  PROVE  \E n \in Nat : /\ read_chash_data(rev) \in Seq(Items(data[rev]))
                        /\ Len(read_chash_data(rev)) = n
                        /\ DOMAIN read_chash_data(rev) = 1..n
                        /\ \A j \in 1..n : read_chash_data(rev)[j] \in Items(data[rev])
<1> DEFINE file == data[rev]
           S == {k \in 0..Len(file) : \A j \in 1..k : file[j] # Broken}
           n == Max(S)
<1>1. file \in Seq(Items(file) \cup {Broken})
  BY EvaluationAssumption
<1>2. Len(file) \in Nat /\ DOMAIN file = 1..Len(file)
  BY <1>1
<1>3. 0 \in S /\ S \in SUBSET (0..Len(file))
  BY <1>2
<1>4. n \in S
  <2> HIDE DEF S
  <2> QED BY <1>2, <1>3, MaxOf
<1>5. n \in Nat /\ n <= Len(file) /\ \A j \in 1..n : file[j] # Broken
  BY <1>2, <1>4
<1>6. \A j \in 1..n : j \in DOMAIN file /\ file[j] \in Items(file)
  BY <1>2, <1>5 DEF Items
<1>7. read_chash_data(rev) = SubSeq(file, 1, n)
  BY DEF read_chash_data
<1> HIDE DEF n
<1>8. /\ Len(SubSeq(file, 1, n)) = n /\ DOMAIN SubSeq(file, 1, n) = 1..n
      /\ \A j \in 1..n : SubSeq(file, 1, n)[j] = file[j]
  BY <1>1, <1>2, <1>5
<1>9. SubSeq(file, 1, n) \in Seq(Items(file))
  <2>1. SubSeq(file, 1, n) = [j \in 1..n |-> file[j]]
    BY <1>1, <1>2, <1>5
  <2> QED BY <1>5, <1>6, <2>1
<1> QED BY <1>5, <1>6, <1>7, <1>8, <1>9

\* A name stands for an entry of the file that has it.
LEMMA LatestIs ==
  ASSUME data \in Histories, NEW rev \in Revs, NEW scr
  PROVE  /\ IsFiniteSet(DOMAIN Latest(scr, rev))
         /\ \A k \in DOMAIN Latest(scr, rev) :
              Latest(scr, rev)[k] \in Items(data[rev]) /\ Key(scr, Latest(scr, rev)[k].elem) = k
<1>1. PICK n \in Nat : /\ DOMAIN read_chash_data(rev) = 1..n
                       /\ \A j \in 1..n : read_chash_data(rev)[j] \in Items(data[rev])
  BY ReadIs
<1> DEFINE read == read_chash_data(rev)
           key(j) == Key(scr, read[j].elem)
           J == Entries(scr, rev)
           of(k) == {j \in J : key(j) = k}
<1>2. J \subseteq 1..n /\ \A j : key(j) = Key(scr, read[j].elem)
  BY <1>1 DEF Entries
<1>3. Latest(scr, rev) = [k \in {key(j) : j \in J} |-> read[Max(of(k))]]
  BY DEF Latest
<1> HIDE DEF J, key, read
<1>4. IsFiniteSet({key(j) : j \in J})
  <2>1. IsFiniteSet(1..n)
    BY <1>1, FS_Interval
  <2>2. IsFiniteSet(J)
    BY <1>2, <2>1, FS_Subset
  <2> DEFINE f == [j \in J |-> key(j)]
  <2>3. {f[i] : i \in J} = {key(j) : j \in J}
    OBVIOUS
  <2>4. IsFiniteSet({f[i] : i \in J})
    BY <2>2, ImageFinite
  <2> QED BY <2>3, <2>4
<1>5. ASSUME NEW k \in {key(j) : j \in J} PROVE Max(of(k)) \in of(k)
  <2>1. of(k) \in SUBSET (0..n) /\ of(k) # {}
    BY <1>1, <1>2
  <2> HIDE DEF of
  <2> QED BY <1>1, <2>1, MaxOf
<1>6. \A k \in {key(j) : j \in J} : read[Max(of(k))] \in Items(data[rev]) /\ Key(scr, read[Max(of(k))].elem) = k
  BY <1>1, <1>2, <1>5 DEF read
<1> HIDE DEF of
<1> QED BY <1>3, <1>4, <1>6

LEMMA ProgramOf ==
  ASSUME data \in Histories, NEW rev \in Revs
  PROVE  Program(local_hashes("global", rev), used_definitions("global", rev))
<1> DEFINE d == Latest("global", rev)
           D == DOMAIN d
           used == used_definitions("global", rev)
<1>1. IsFiniteSet(D) /\ \A k \in D : d[k] \in Items(data[rev]) /\ CleanName(d[k].elem) = k
  BY LatestIs DEF Key
<1>2. DOMAIN local_hashes("global", rev) = D /\ DOMAIN used = D /\ \A k \in D : used[k] = KeptUses(d[k].uses)
  BY DEF local_hashes, used_definitions
<1>3. NoCycle(data[rev])
  BY NoRecursion
<1> HIDE DEF d, used
<1>4. ASSUME NEW S \in SUBSET D, S # {} PROVE \E s \in S : used[s] \cap S = {}
  <2>1. S \in SUBSET {CleanName(e.elem) : e \in Items(data[rev])}
    BY <1>1
  <2>2. PICK s \in S : \A e \in Items(data[rev]) : CleanName(e.elem) = s => KeptUses(e.uses) \cap S = {}
    BY <1>3, <1>4, <2>1 DEF NoCycle
  <2> QED BY <1>1, <1>2, <2>2
<1> QED BY <1>1, <1>2, <1>4 DEF Program, used

-----------------------------------------------------------------------------
(* The steps of the global and of the call graph script.                   *)

\* The global hashes of a revision, none of them kept from before.
FreshOf(rev) == Fresh(local_hashes("global", rev), used_definitions("global", rev))

\* The used definitions that the global script keeps are those of the file, and
\* the global hashes it keeps are right, unless the commit was noted as without
\* data: then they are those of an older one.
GlobalPrev ==
  script = "global" /\ prev.commit # None =>
    /\ prev.used = used_definitions("global", prev.commit)
    /\ prev.commit \notin stats["global"].empty =>
         \A s \in DOMAIN prev.global : prev.global[s] = FreshOf(prev.commit)[s]

\* What the call graph script reports are the functions named in the diff and
\* those they impact.
GraphExact ==
  \A c \in Evaluated("callgraph") :
    LET named == stats["callgraph"].commits[c].named
    IN  Changed("callgraph", c) = named \cup Impacted(named, used_definitions("callgraph", c))

HashInv == data \in Histories /\ GlobalPrev /\ GlobalExact /\ GraphExact

LEMMA UsesKept ==
  ASSUME UNCHANGED <<parent, data>>
  PROVE  /\ \A scr, rev : used_definitions(scr, rev)' = used_definitions(scr, rev)
         /\ \A rev : FreshOf(rev)' = FreshOf(rev)
         /\ \A c : GlobalReference(c)' = GlobalReference(c)
<1>0. /\ \A rev : read_chash_data(rev)' = read_chash_data(rev)
      /\ \A scr, rev : local_hashes(scr, rev)' = local_hashes(scr, rev)
  BY DataKept
<1>1. \A scr, rev : Entries(scr, rev)' = Entries(scr, rev)
  BY <1>0 DEF Entries
<1>2. \A scr, rev : Latest(scr, rev)' = Latest(scr, rev)
  BY <1>0, <1>1 DEF Latest
<1>3. \A scr, rev : used_definitions(scr, rev)' = used_definitions(scr, rev)
  BY <1>2 DEF used_definitions
<1>4. \A rev : FreshOf(rev)' = FreshOf(rev)
  BY <1>0, <1>3 DEF FreshOf, Fresh
<1>5. \A rev, e : Below(rev, e)' = Below(rev, e)
  BY <1>0, <1>3 DEF Below
<1>6. \A c : GlobalReference(c)' = GlobalReference(c)
  BY <1>0, <1>5 DEF GlobalReference, Names, Common
<1> QED BY <1>3, <1>4, <1>6

\* Reports stay as they are, and commits noted as without data stay noted.
LEMMA GlobalExactKept ==
  ASSUME GlobalExact, UNCHANGED <<parent, data>>,
         stats'["global"].commits = stats["global"].commits,
         stats["global"].empty \subseteq stats'["global"].empty
  PROVE  GlobalExact'
<1>1. \A c : GlobalReference(c)' = GlobalReference(c)
  BY UsesKept
<1> QED BY <1>1 DEF GlobalExact, Evaluated, Changed

LEMMA GraphExactKept ==
  ASSUME GraphExact, UNCHANGED <<parent, data>>, stats'["callgraph"].commits = stats["callgraph"].commits
  PROVE  GraphExact'
<1>1. \A scr, rev : used_definitions(scr, rev)' = used_definitions(scr, rev)
  BY UsesKept
<1> QED BY <1>1 DEF GraphExact, Evaluated, Changed

\* Whatever is reused, the global hashes of a parent with data are right.
LEMMA ParentHashes ==
  ASSUME Inv, HashInv, script = "global", NEW c \in Builds, parent[c] # None,
         parent[c] \notin stats["global"].empty
  PROVE  LET of == OfParent(c)
         IN  \A s \in DOMAIN of.hashes : global_hash(of.global, of.hashes, of.used)[s] = FreshOf(parent[c])[s]
<1> DEFINE of == OfParent(c)
           hashes == local_hashes("global", parent[c])
           used == used_definitions("global", parent[c])
<1>1. parent[c] \in Revs
  BY DEF Inv, TypeInv
<1>2. Program(hashes, used)
  BY <1>1, ProgramOf DEF HashInv
<1>3. of.hashes = hashes /\ of.used = used
  BY DEF Inv, PrevInv, HashInv, GlobalPrev, OfParent, Reusable, Scripts
<1>4. \A s \in DOMAIN of.global : of.global[s] = FreshOf(parent[c])[s]
  <2>1. CASE Reusable(c)
    BY <2>1 DEF HashInv, GlobalPrev, OfParent, Reusable
  <2>2. CASE ~Reusable(c)
    <3>1. of.global = Empty
      BY <2>2 DEF OfParent
    <3> QED BY <3>1 DEF Empty
  <2> QED BY <2>1, <2>2
<1> HIDE DEF of
<1>5. \A s \in DOMAIN hashes : global_hash(of.global, hashes, used)[s] = FreshOf(parent[c])[s]
  <2>1. \A s \in DOMAIN of.global : s \in DOMAIN hashes => of.global[s] = Fresh(hashes, used)[s]
    BY <1>4 DEF FreshOf
  <2> HIDE DEF hashes, used
  <2>2. \A s \in DOMAIN hashes : global_hash(of.global, hashes, used)[s] = Fresh(hashes, used)[s]
    BY <1>2, <2>1, MemoRight
  <2> QED BY <2>2 DEF FreshOf, hashes, used
<1>6. \A s \in DOMAIN of.hashes : global_hash(of.global, of.hashes, of.used)[s] = FreshOf(parent[c])[s]
  BY <1>3, <1>5
<1> QED BY <1>6 DEF of

\* Comparing right hashes finds what is different below.
LEMMA DifferBelow ==
  ASSUME HashInv, NEW c \in Revs, NEW p \in Revs
  PROVE  \A e \in Names("global", c) \cap Names("global", p) :
           FreshOf(c)[e] = FreshOf(p)[e] <=> Below(c, e) = Below(p, e)
<1>1. /\ Program(local_hashes("global", c), used_definitions("global", c))
      /\ Program(local_hashes("global", p), used_definitions("global", p))
  BY ProgramOf DEF HashInv
<1>2. \A rev, e : Below(rev, e) = BelowOf(local_hashes("global", rev), used_definitions("global", rev), e)
  BY DEF Below, BelowOf
<1> QED BY <1>1, <1>2, HashesTell DEF FreshOf, Names

\* The global script compares right hashes, and keeps right ones.
LEMMA GlobalStep ==
  ASSUME Inv, HashInv, NEW c \in Builds, EvaluateGlobal(c)
  PROVE  GlobalPrev' /\ GlobalExact'
<1> DEFINE hashes == local_hashes("global", c)
           used == used_definitions("global", c)
           of == OfParent(c)
           now == global_hash(Empty, hashes, used)
           before == global_hash(of.global, of.hashes, of.used)
           common == DOMAIN hashes \cap DOMAIN of.hashes
           insdel == (DOMAIN hashes \cup DOMAIN of.hashes) \ common
           changed == {e \in common : now[e] # before[e]}
           kept == [e \in Reach(common, used) |-> now[e]]
<1>0. /\ script = "global" /\ script' = "global" /\ script \in Scripts /\ TypeInv /\ PrevInv
      /\ parent[c] # None /\ c \in Revs /\ parent[c] \in Revs
      /\ UNCHANGED <<parent, data>>
  <2>1. /\ script = "global" /\ script' = "global" /\ TypeInv /\ PrevInv /\ parent[c] # None
        /\ UNCHANGED <<parent, data>>
    BY DEF EvaluateGlobal, Evaluable, Inv
  <2>2. c \in Revs
    BY EvaluationAssumption DEF Builds, Revs
  <2>3. parent[c] \in Revs
    BY <2>1 DEF TypeInv
  <2> QED BY <2>1, <2>2, <2>3 DEF Scripts
<1>1. NoteChanged(c, insdel \cup changed, {}) /\ Save(c, kept)
  BY <1>0 DEF EvaluateGlobal
<1>2. DOMAIN of.hashes = Names("global", parent[c]) /\ DOMAIN hashes = Names("global", c)
  BY <1>0, OfParentHashes DEF Names
<1>3. now = FreshOf(c)
  BY DEF FreshOf, Fresh
<1>4. \A scr, rev : local_hashes(scr, rev)' = local_hashes(scr, rev)
  BY <1>0, DataKept
<1>5. /\ \A scr, rev : used_definitions(scr, rev)' = used_definitions(scr, rev)
      /\ \A rev : FreshOf(rev)' = FreshOf(rev)
      /\ \A d : GlobalReference(d)' = GlobalReference(d)
  BY <1>0, UsesKept
<1>6. GlobalPrev'
  <2>1. prev'.commit = c /\ prev'.used = used /\ prev'.global = kept
    BY <1>0, <1>1 DEF Save
  <2>2. \A s \in DOMAIN kept : kept[s] = FreshOf(c)[s]
    <3> HIDE DEF now
    <3> QED BY <1>3
  <2> HIDE DEF kept
  <2> QED BY <1>5, <2>1, <2>2 DEF GlobalPrev
<1>7. parent[c] \notin stats["global"].empty => insdel \cup changed = GlobalReference(c)
  <2> SUFFICES ASSUME parent[c] \notin stats["global"].empty
               PROVE  insdel \cup changed = GlobalReference(c)
    OBVIOUS
  <2>1. \A s \in DOMAIN of.hashes : before[s] = FreshOf(parent[c])[s]
    BY <1>0, ParentHashes
  <2>2. \A e \in common : FreshOf(c)[e] = FreshOf(parent[c])[e] <=> Below(c, e) = Below(parent[c], e)
    BY <1>0, <1>2, DifferBelow
  <2> HIDE DEF now, before, of, hashes
  <2>3. changed = {e \in common : Below(c, e) # Below(parent[c], e)}
    BY <1>3, <2>1, <2>2
  <2> QED BY <1>2, <2>3 DEF GlobalReference, Common
<1> HIDE DEF insdel, changed, of, hashes
<1>8. /\ stats'["global"].empty = stats["global"].empty
      /\ DOMAIN stats'["global"].commits = DOMAIN stats["global"].commits \cup {c}
      /\ stats'["global"].commits[c].changed = insdel \cup changed
      /\ \A d \in DOMAIN stats["global"].commits :
           d # c => stats'["global"].commits[d] = stats["global"].commits[d]
  BY <1>0, <1>1, NoteChangedView
<1>9. ASSUME NEW d \in DOMAIN stats'["global"].commits, parent[d] \notin stats["global"].empty
      PROVE  stats'["global"].commits[d].changed = GlobalReference(d)
  <2>1. CASE d = c
    BY <1>7, <1>8, <1>9, <2>1
  <2>2. CASE d # c
    BY <1>8, <1>9, <2>2 DEF HashInv, GlobalExact, Evaluated, Changed
  <2> QED BY <2>1, <2>2
<1>10. GlobalExact'
  BY <1>0, <1>5, <1>8, <1>9 DEF GlobalExact, Evaluated, Changed
<1> QED BY <1>6, <1>10

LEMMA GraphStep ==
  ASSUME Inv, HashInv, NEW c \in Builds, EvaluateCallGraph(c)
  PROVE  GraphExact'
<1> DEFINE used == used_definitions("callgraph", c)
<1>0. /\ script = "callgraph" /\ script \in Scripts /\ TypeInv
      /\ UNCHANGED <<parent, data>>
  BY DEF EvaluateCallGraph, Inv, TypeInv, Scripts
<1>1. PICK diff : NoteChanged(c, diff \cup Impacted(diff, used), diff)
  BY <1>0 DEF EvaluateCallGraph
<1>2. \A scr, rev : used_definitions(scr, rev)' = used_definitions(scr, rev)
  BY <1>0, UsesKept
<1>3. /\ DOMAIN stats'["callgraph"].commits = DOMAIN stats["callgraph"].commits \cup {c}
      /\ stats'["callgraph"].commits[c].changed = diff \cup Impacted(diff, used)
      /\ stats'["callgraph"].commits[c].named = diff
      /\ \A d \in DOMAIN stats["callgraph"].commits :
           d # c => stats'["callgraph"].commits[d] = stats["callgraph"].commits[d]
  BY <1>0, <1>1, NoteChangedView
<1> DEFINE commits == stats'["callgraph"].commits
<1>4. ASSUME NEW d \in DOMAIN commits
      PROVE  commits[d].changed =
               commits[d].named \cup Impacted(commits[d].named, used_definitions("callgraph", d))
  <2>1. CASE d = c
    BY <1>3, <2>1
  <2>2. CASE d # c
    BY <1>3, <2>2 DEF HashInv, GraphExact, Evaluated, Changed
  <2> QED BY <2>1, <2>2
<1> QED BY <1>2, <1>4 DEF GraphExact, Evaluated, Changed

LEMMA HashStep ==
  ASSUME Inv, HashInv, [Next]_vars
  PROVE  HashInv'
<1>0. UNCHANGED <<parent, data>> /\ HashInv /\ TypeInv
  BY DEF Next, vars, SkipFirst, SkipEmpty, SkipEmptyParent, Raise, EvaluateLocal, EvaluateGlobal,
         EvaluateCallGraph, Finish, Inv
<1>1. data' \in Histories
  BY <1>0 DEF HashInv
<1>2. /\ \A scr, rev : used_definitions(scr, rev)' = used_definitions(scr, rev)
      /\ \A rev : FreshOf(rev)' = FreshOf(rev)
  BY <1>0, UsesKept
<1>3. ASSUME UNCHANGED <<script, prev>>, stats["global"].empty \subseteq stats'["global"].empty
      PROVE  GlobalPrev'
  BY <1>0, <1>2, <1>3 DEF HashInv, GlobalPrev
<1>4. ASSUME UNCHANGED <<script, prev, stats>> PROVE HashInv'
  BY <1>0, <1>1, <1>3, <1>4, GlobalExactKept, GraphExactKept DEF HashInv
<1>5. ASSUME NEW c \in Builds, SkipEmpty(c) \/ SkipEmptyParent(c) PROVE HashInv'
  <2>1. /\ script \in Scripts /\ NoteEmpty(c) /\ script' = script
    BY <1>5 DEF SkipEmpty, SkipEmptyParent, At
  <2>2. /\ \A s \in Scripts : stats'[s].commits = stats[s].commits /\ stats[s].empty \subseteq stats'[s].empty
        /\ c \in stats'[script].empty
    BY <1>0, <2>1, NoteEmptyView
  <2>3. GlobalExact' /\ GraphExact'
    BY <1>0, <2>2, GlobalExactKept, GraphExactKept DEF HashInv, Scripts
  <2>4. CASE SkipEmpty(c)
    <3>1. prev' = prev
      BY <2>4 DEF SkipEmpty
    <3> QED BY <1>1, <1>3, <2>1, <2>2, <2>3, <3>1 DEF HashInv, Scripts
  <2>5. CASE SkipEmptyParent(c)
    <3>1. prev'.commit = c /\ prev'.used = used_definitions(script, c)
      BY <2>5 DEF SkipEmptyParent, Save
    <3>2. GlobalPrev'
      BY <1>2, <2>1, <2>2, <3>1 DEF GlobalPrev
    <3> QED BY <1>1, <2>3, <3>2 DEF HashInv
  <2> QED BY <1>5, <2>4, <2>5
<1>6. ASSUME NEW c \in Builds, EvaluateLocal(c) PROVE HashInv'
  <2>1. PICK changed : script = "local" /\ script' = script /\ NoteChanged(c, changed, {})
    BY <1>6 DEF EvaluateLocal
  <2>2. stats'["global"] = stats["global"] /\ stats'["callgraph"] = stats["callgraph"]
    BY <1>0, <2>1, NoteChangedView DEF Scripts
  <2>3. GlobalPrev'
    BY <2>1 DEF GlobalPrev
  <2> QED BY <1>0, <1>1, <2>2, <2>3, GlobalExactKept, GraphExactKept DEF HashInv
<1>7. ASSUME NEW c \in Builds, EvaluateGlobal(c) PROVE HashInv'
  <2>1. PICK changed : script = "global" /\ NoteChanged(c, changed, {})
    BY <1>7 DEF EvaluateGlobal
  <2>2. stats'["callgraph"] = stats["callgraph"]
    BY <1>0, <2>1, NoteChangedView DEF Scripts
  <2> QED BY <1>0, <1>1, <1>7, <2>2, GlobalStep, GraphExactKept DEF HashInv
<1>8. ASSUME NEW c \in Builds, EvaluateCallGraph(c) PROVE HashInv'
  <2>1. PICK changed, diff : script = "callgraph" /\ script' = script /\ NoteChanged(c, changed, diff)
    BY <1>8 DEF EvaluateCallGraph
  <2>2. stats'["global"] = stats["global"]
    BY <1>0, <2>1, NoteChangedView DEF Scripts
  <2>3. GlobalPrev'
    BY <2>1 DEF GlobalPrev
  <2> QED BY <1>0, <1>1, <1>8, <2>2, <2>3, GlobalExactKept, GraphStep DEF HashInv
<1>9. ASSUME Finish \/ \E c \in Builds : Raise(c) PROVE HashInv'
  <2>1. stats' = stats
    BY <1>9 DEF Finish, Raise
  <2>2. GlobalPrev'
    <3>1. CASE Finish
      BY <3>1 DEF Finish, Start, GlobalPrev
    <3>2. CASE \E c \in Builds : Raise(c)
      BY <3>2 DEF Raise, GlobalPrev
    <3> QED BY <1>9, <3>1, <3>2
  <2> QED BY <1>0, <1>1, <2>1, <2>2, GlobalExactKept, GraphExactKept DEF HashInv
<1>10. ASSUME NEW c \in Builds, SkipFirst(c) PROVE HashInv'
  BY <1>4, <1>10 DEF SkipFirst
<1>11. CASE UNCHANGED vars
  BY <1>4, <1>11 DEF vars
<1> QED BY <1>5, <1>6, <1>7, <1>8, <1>9, <1>10, <1>11 DEF Next

LEMMA HashesHold == Spec => [](Inv /\ HashInv)
<1>1. Init => HashInv
  <2> SUFFICES ASSUME Init PROVE HashInv
    OBVIOUS
  <2>1. \A s \in Scripts : DOMAIN stats[s].commits = {}
    BY DEF Init, Empty
  <2>2. script # "global" /\ data \in Histories
    BY DEF Init
  <2> QED BY <2>1, <2>2 DEF HashInv, GlobalPrev, GlobalExact, GraphExact, Evaluated, Scripts
<1>2. Inv /\ HashInv /\ [Next]_vars => HashInv'
  BY HashStep
<1> QED BY <1>1, <1>2, HistoryHolds, PTL DEF Spec

\* Without cycles of uses (NoRecursion), the global script reports of every commit
\* whose parent was not noted as without data exactly the elements added, removed, or with a difference in
\* what they reach, whether global hashes are computed or kept from before.
THEOREM HistoryEvaluationGlobalExact == Spec => []GlobalExact
<1>1. Inv /\ HashInv => GlobalExact
  BY DEF HashInv
<1> QED BY <1>1, HashesHold, PTL

-----------------------------------------------------------------------------
(* The call graph script against the global one.                           *)

\* Both read the same of a function.
LEMMA SameFunctions ==
  ASSUME NEW rev
  PROVE  /\ Names("callgraph", rev) = {k \in Names("global", rev) : IsFunction(k)}
         /\ DOMAIN used_definitions("callgraph", rev) = Names("callgraph", rev)
         /\ DOMAIN used_definitions("global", rev) = Names("global", rev)
         /\ \A k \in Names("callgraph", rev) :
              used_definitions("callgraph", rev)[k] = used_definitions("global", rev)[k]
         /\ \A k \in Names("global", rev) :
              \A u \in used_definitions("global", rev)[k] : IsFunction(u)
<1> DEFINE read == read_chash_data(rev)
           key(j) == CleanName(read[j].elem)
           J == Entries("callgraph", rev)
           K == Entries("global", rev)
           A == Latest("callgraph", rev)
           B == Latest("global", rev)
<1>1. J = {j \in K : IsFunction(read[j].elem)}
  BY DEF Entries
<1>2. /\ A = [k \in {key(j) : j \in J} |-> read[Max({j \in J : key(j) = k})]]
      /\ B = [k \in {key(j) : j \in K} |-> read[Max({j \in K : key(j) = k})]]
  BY DEF Latest, Key
<1>3. \A e : IsFunction(CleanName(e)) <=> IsFunction(e)
  BY DEF CleanName, IsFunction
<1> HIDE DEF J, K, read, A, B
<1>4. DOMAIN A = {k \in DOMAIN B : IsFunction(k)}
  BY <1>1, <1>2, <1>3
<1>5. ASSUME NEW k \in DOMAIN A PROVE A[k] = B[k]
  <2>1. {j \in J : key(j) = k} = {j \in K : key(j) = k}
    BY <1>1, <1>3, <1>4, <1>5
  <2>2. k \in DOMAIN B
    BY <1>4, <1>5
  <2> QED BY <1>2, <1>5, <2>1, <2>2
<1>6. /\ Names("callgraph", rev) = DOMAIN A /\ Names("global", rev) = DOMAIN B
      /\ used_definitions("callgraph", rev) = [k \in DOMAIN A |-> KeptUses(A[k].uses)]
      /\ used_definitions("global", rev) = [k \in DOMAIN B |-> KeptUses(B[k].uses)]
  BY DEF Names, local_hashes, used_definitions, A, B
<1>7. \A uses : \A u \in KeptUses(uses) : IsFunction(u)
  BY <1>3 DEF KeptUses
<1> QED BY <1>4, <1>5, <1>6, <1>7

\* A function reaches functions only, and in both scripts the same.
LEMMA SameReach ==
  ASSUME NEW rev, NEW e \in Names("callgraph", rev)
  PROVE  /\ Reach({e}, used_definitions("global", rev)) \subseteq Reach({e}, used_definitions("callgraph", rev))
         /\ Reach({e}, used_definitions("callgraph", rev)) \subseteq Names("callgraph", rev)
<1> DEFINE used == used_definitions("global", rev)
           calls == used_definitions("callgraph", rev)
<1>1. /\ DOMAIN calls = {k \in DOMAIN used : IsFunction(k)} /\ e \in DOMAIN calls
      /\ \A k \in DOMAIN calls : calls[k] = used[k]
      /\ \A k \in DOMAIN used : \A u \in used[k] : IsFunction(u)
      /\ DOMAIN calls = Names("callgraph", rev)
  BY SameFunctions
<1> HIDE DEF used, calls
<1>2. {e} \in SUBSET DOMAIN calls
  BY <1>1
<1>3. Reach({e}, calls) \subseteq DOMAIN calls
  BY <1>2, ReachFacts
<1>4. \A x \in Reach({e}, calls) :
        x \in DOMAIN used /\ used[x] \cap DOMAIN used = calls[x] \cap DOMAIN calls
  BY <1>1, <1>3
<1>5. e \in DOMAIN calls \cap DOMAIN used
  BY <1>1
<1>6. Reach({e}, used) \subseteq Reach({e}, calls)
  BY <1>4, <1>5, ReachLocal
<1> QED BY <1>1, <1>3, <1>6 DEF used, calls

\* If all that e reaches is there before and the same, so is what is below e.
LEMMA SameBelow ==
  ASSUME NEW c, NEW p, NEW e \in Names("global", c),
         \A x \in Reach({e}, used_definitions("global", c)) :
           x \in Names("global", p) /\ Below(c, x)[x] = Below(p, x)[x]
  PROVE  Below(c, e) = Below(p, e)
<1> DEFINE used == used_definitions("global", c)
           old == used_definitions("global", p)
           hashes == local_hashes("global", c)
           before == local_hashes("global", p)
           R == Reach({e}, used)
<1>1. DOMAIN used = Names("global", c) /\ DOMAIN old = Names("global", p)
  BY SameFunctions
<1>2. /\ \A rev : \A x \in DOMAIN used_definitions("global", rev) :
           x \in Reach({x}, used_definitions("global", rev))
  <2> SUFFICES ASSUME NEW rev, NEW x \in DOMAIN used_definitions("global", rev)
               PROVE  x \in Reach({x}, used_definitions("global", rev))
    OBVIOUS
  <2>1. {x} \in SUBSET DOMAIN used_definitions("global", rev)
    OBVIOUS
  <2> QED BY <2>1, ReachFacts
<1>3. R \subseteq DOMAIN used /\ e \in R
  <2>1. {e} \in SUBSET DOMAIN used
    BY <1>1
  <2> HIDE DEF used
  <2> QED BY <2>1, ReachFacts
<1>4. \A x \in R : x \in DOMAIN old /\ <<hashes[x], used[x] \cap DOMAIN used>> = <<before[x], old[x] \cap DOMAIN old>>
  <2> SUFFICES ASSUME NEW x \in R
               PROVE  x \in DOMAIN old /\ <<hashes[x], used[x] \cap DOMAIN used>> = <<before[x], old[x] \cap DOMAIN old>>
    OBVIOUS
  <2>1. x \in DOMAIN old /\ x \in DOMAIN used /\ Below(c, x)[x] = Below(p, x)[x]
    BY <1>1, <1>3
  <2>2. Below(c, x)[x] = <<hashes[x], used[x] \cap DOMAIN used>>
    BY <1>2, <2>1 DEF Below
  <2>3. Below(p, x)[x] = <<before[x], old[x] \cap DOMAIN old>>
    BY <1>2, <2>1 DEF Below
  <2> QED BY <2>1, <2>2, <2>3
<1>5. Below(c, e) = [x \in R |-> <<hashes[x], used[x] \cap DOMAIN used>>]
  BY DEF Below
<1>6. Below(p, e) = [x \in Reach({e}, old) |-> <<before[x], old[x] \cap DOMAIN old>>]
  BY DEF Below
<1>7. R = Reach({e}, old)
  <2> HIDE DEF used, old, hashes, before
  <2>1. \A x \in Reach({e}, used) : x \in DOMAIN old /\ old[x] \cap DOMAIN old = used[x] \cap DOMAIN used
    BY <1>4
  <2>2. e \in DOMAIN used \cap DOMAIN old
    BY <1>3, <1>4
  <2>3. Reach({e}, old) \subseteq Reach({e}, used)
    BY <2>1, <2>2, ReachLocal
  <2>4. \A x \in Reach({e}, old) : x \in DOMAIN used /\ used[x] \cap DOMAIN used = old[x] \cap DOMAIN old
    BY <1>3, <2>1, <2>3
  <2>5. Reach({e}, used) \subseteq Reach({e}, old)
    BY <2>2, <2>4, ReachLocal
  <2> QED BY <2>3, <2>5
<1> HIDE DEF used, old, hashes, before, R
<1> QED BY <1>4, <1>5, <1>6, <1>7

\* Without cycles of uses (NoRecursion), if the diff names what is new or modified,
\* and no function was removed, the functions it names and those they impact in
\* the call graph include all that the global hashes find changed.
THEOREM HistoryEvaluationCallGraphCovers == Spec => []CallGraphCovers
<1>1. Inv /\ HashInv => CallGraphCovers
  <2> SUFFICES ASSUME HashInv, NEW c \in Evaluated("callgraph") \cap Evaluated("global"),
                      parent[c] \notin stats["global"].empty,
                      Names("callgraph", parent[c]) \subseteq Names("callgraph", c),
                      Names("callgraph", c) \ Names("callgraph", parent[c])
                        \subseteq stats["callgraph"].commits[c].named,
                      {x \in Common("callgraph", c) : Below(c, x)[x] # Below(parent[c], x)[x]}
                        \subseteq stats["callgraph"].commits[c].named,
                      NEW e \in Changed("global", c), IsFunction(e)
               PROVE  e \in Changed("callgraph", c)
    BY DEF CallGraphCovers
  <2> DEFINE p == parent[c]
             named == stats["callgraph"].commits[c].named
             calls == used_definitions("callgraph", c)
  <2>1. Changed("callgraph", c) = named \cup Impacted(named, calls)
    BY DEF HashInv, GraphExact
  <2>2. e \in GlobalReference(c)
    BY DEF HashInv, GlobalExact
  <2>3. /\ Names("callgraph", c) = {k \in Names("global", c) : IsFunction(k)}
        /\ Names("callgraph", p) = {k \in Names("global", p) : IsFunction(k)}
        /\ DOMAIN calls = Names("callgraph", c)
    BY SameFunctions
  <2>4. e \in Names("callgraph", c)
    BY <2>2, <2>3 DEF GlobalReference
  <2>5. SUFFICES ASSUME Reach({e}, calls) \cap named = {} PROVE FALSE
    BY <2>1, <2>3, <2>4 DEF Impacted
  <2>6. ASSUME NEW x \in Reach({e}, used_definitions("global", c))
        PROVE  x \in Names("global", p) /\ Below(c, x)[x] = Below(p, x)[x]
    <3>1. x \in Reach({e}, calls) /\ x \in Names("callgraph", c)
      BY <2>4, <2>6, SameReach
    <3>2. x \notin named
      BY <2>5, <3>1
    <3>3. x \in Names("callgraph", p)
      BY <3>1, <3>2
    <3> QED BY <2>3, <3>1, <3>2, <3>3 DEF Common
  <2>7. Below(c, e) = Below(p, e)
    BY <2>3, <2>4, <2>6, SameBelow
  <2>8. e \in Names("global", p)
    <3>1. {e} \in SUBSET DOMAIN used_definitions("global", c)
      BY <2>3, <2>4, SameFunctions
    <3>2. e \in Reach({e}, used_definitions("global", c))
      BY <3>1, ReachFacts
    <3> QED BY <2>6, <3>2
  <2> QED BY <2>2, <2>3, <2>4, <2>7, <2>8 DEF GlobalReference, Common
<1> QED BY <1>1, HashesHold, PTL
=============================================================================

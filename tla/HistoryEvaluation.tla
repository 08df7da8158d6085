------------------------- MODULE HistoryEvaluation -------------------------
(***************************************************************************)
(* The evaluation of a history whose hashes have been collected: which     *)
(* elements every commit changes, once by local hashes                     *)
(* (global_historical_evaluate_local.py), once by global hashes            *)
(* (..._global.py) and once by call graph (..._call_graph.py).             *)
(*                                                                         *)
(* Each script walks over the builds of the summary, compares the data of  *)
(* a commit with that of its parent, and keeps the data of the last commit *)
(* for the next one, which mostly is its child.  The scripts share nothing *)
(* but the data and run one after the other here.                          *)
(*                                                                         *)
(* The data of a revision is a sequence of entries, one per object file;   *)
(* Broken stands for a record that cannot be evaluated, and the empty      *)
(* sequence also for a file that is not there.  0 and N+1 are revisions    *)
(* that are no builds of the summary.  Elements are pairs of a kind and a  *)
(* name.  The order in which the digests of the used definitions are added *)
(* is taken to depend on their names only.                                 *)
(***************************************************************************)
EXTENDS Naturals, Sequences, FiniteSets, FiniteSetsExt

CONSTANTS
  N,          \* number of builds
  Parents,    \* functions from builds to revisions or None
  Histories,  \* what may have been collected of all revisions
  Diffs,      \* the sets of functions that the diff of a commit may name
  Broken, None

Builds == 1..N
Revs == 0..(N + 1)
Scripts == {"local", "global", "callgraph"}

IsFunction(elem) == elem[1] \in {"function", "static function"}

\* Without prefix, static functions are like others.
CleanName(elem) == IF IsFunction(elem) THEN <<"function", elem[2]>> ELSE elem

\* Of the used definitions only functions are kept.
KeptUses(uses) == {CleanName(u) : u \in {x \in uses : IsFunction(x)}}

\* The entries of a file.
Items(file) == {file[j] : j \in DOMAIN file} \ {Broken}

\* No definition uses itself, directly or not.
NoCycle(file) ==
  \A S \in SUBSET {CleanName(e.elem) : e \in Items(file)} :
    S # {} => \E s \in S : \A e \in Items(file) :
                CleanName(e.elem) = s => KeptUses(e.uses) \cap S = {}

ASSUME EvaluationAssumption ==
  /\ N \in Nat \ {0} /\ None \notin Revs
  /\ Parents \subseteq [Builds -> Revs \cup {None}]
  /\ \A p \in Parents, c \in Builds : p[c] \notin c..N
  /\ \A h \in Histories : DOMAIN h = Revs /\ \A rev \in Revs :
       h[rev] \in Seq(Items(h[rev]) \cup {Broken})
  /\ \A diff \in Diffs : \A e \in diff : IsFunction(e)

\* A restriction of this module, not of the scripts: no recursive functions.  The
\* scripts cut a cycle where they meet what is being processed (clang-hash-global:45,
\* dependency_analyzer.py:174), so that with recursion a digest depends on where the
\* walk began (module GlobalHash).  Without cycles the cuts have no effect, and
\* they are left out.
ASSUME NoRecursion == \A h \in Histories : \A rev \in Revs : NoCycle(h[rev])

VARIABLES
  parent, data,   \* the summary and the files of the dataset
  script,         \* the script that runs
  counter,        \* the build it is at
  prev,           \* prev_commit, and prev_hashes, prev_used_definitions (or
                  \* prev_functions) and prev_global_hashes
  stats,          \* of each script: stats['data-empty'] and stats['commits']
  outcome         \* of each script: how it ended, or None

vars == <<parent, data, script, counter, prev, stats, outcome>>

Empty == [x \in {} |-> x]

Start == [commit |-> None, hashes |-> Empty, used |-> Empty, global |-> Empty]

Init ==
  /\ parent \in Parents /\ data \in Histories
  /\ script = "local" /\ counter = 1 /\ prev = Start
  /\ stats = [s \in Scripts |-> [empty |-> {}, commits |-> Empty]]
  /\ outcome = [s \in Scripts |-> None]

-----------------------------------------------------------------------------
(* What a script reads of a revision.                                      *)

\* The exception of a broken record is caught, and what was read before it kept.
read_chash_data(rev) ==
  SubSeq(data[rev], 1, Max({k \in 0..Len(data[rev]) : \A j \in 1..k : data[rev][j] # Broken}))

\* The entries a script keeps: the call graph script those of functions.
Entries(scr, rev) ==
  LET read == read_chash_data(rev)
  IN  {j \in DOMAIN read : scr = "callgraph" => IsFunction(read[j].elem)}

Key(scr, elem) == IF scr = "local" THEN elem ELSE CleanName(elem)

\* In the dicts made of the entries, later ones overwrite.
Latest(scr, rev) ==
  LET read == read_chash_data(rev)
      key(j) == Key(scr, read[j].elem)
  IN  [k \in {key(j) : j \in Entries(scr, rev)} |->
         read[Max({j \in Entries(scr, rev) : key(j) = k})]]

\* The call graph script keeps the names only.
local_hashes(scr, rev) == LET d == Latest(scr, rev) IN [k \in DOMAIN d |-> d[k].hash]

used_definitions(scr, rev) ==
  LET d == Latest(scr, rev) IN [k \in DOMAIN d |-> KeptUses(d[k].uses)]

\* Mistake: used definitions are not looked at.
global_hash_local(global, hashes, used) ==
  [s \in DOMAIN hashes |-> IF s \in DOMAIN global THEN global[s] ELSE <<hashes[s], Empty>>]

\* get_global_hash of clang-hash-global, for uses without cycles: what global
\* holds already is taken from there, and definitions without hash left out.
global_hash(global, hashes, used) ==
  LET h[s \in DOMAIN hashes] ==
        IF s \in DOMAIN global THEN global[s]
        ELSE <<hashes[s], [t \in used[s] \cap DOMAIN hashes |-> h[t]]>>
  IN  h

\* S and all that it uses, directly or indirectly.
Reach(S, used) ==
  LET Closed == {T \in SUBSET DOMAIN used :
                   S \subseteq T /\ \A t \in T : used[t] \cap DOMAIN used \subseteq T}
  IN  {s \in DOMAIN used : \A T \in Closed : s \in T}

\* Mistake: only the functions that call a changed one themselves.
ImpactedDirect(changed, used) == {s \in DOMAIN used : ({s} \cup used[s]) \cap changed # {}}

\* get_impacted_funcs_fake_hash, for uses without cycles.
Impacted(changed, used) == {s \in DOMAIN used : Reach({s}, used) \cap changed # {}}

-----------------------------------------------------------------------------
(* The loop over the builds.                                               *)

\* Mistake: that the parent is the previous commit is not checked.
ReusableAlways(c) == prev.commit # None /\ prev.hashes # Empty

\* The data kept is that of the parent.
Reusable(c) ==
  /\ parent[c] = prev.commit
  /\ script = "global" => prev.global # Empty /\ prev.used # Empty /\ prev.hashes # Empty
  /\ script = "callgraph" => prev.hashes # Empty

\* Mistake: the data of the parent is not read if it is that of the previous
\* commit and its global hashes are missing.
OfParentUnread(c) ==
  IF Reusable(c) THEN prev
  ELSE IF parent[c] = prev.commit THEN [Start EXCEPT !.commit = parent[c]]
  ELSE [commit |-> parent[c], hashes |-> local_hashes(script, parent[c]),
        used |-> used_definitions(script, parent[c]), global |-> Empty]

OfParent(c) ==
  IF Reusable(c) THEN prev
  ELSE [commit |-> parent[c], hashes |-> local_hashes(script, parent[c]),
        used |-> used_definitions(script, parent[c]), global |-> Empty]

\* "Save data for reuse"
Save(c, global) ==
  prev' = [commit |-> c, hashes |-> local_hashes(script, c), used |-> used_definitions(script, c),
           global |-> global]

At(c) == script \in Scripts /\ counter = c /\ c \in Builds /\ counter' = counter + 1

\* "first commit has no parent"
SkipFirst(c) ==
  /\ At(c) /\ parent[c] = None
  /\ UNCHANGED <<parent, data, script, prev, stats, outcome>>

NoteEmpty(c) == stats' = [stats EXCEPT ![script].empty = @ \cup {c}]

SkipEmpty(c) ==
  /\ At(c) /\ parent[c] # None /\ read_chash_data(c) = <<>>
  /\ NoteEmpty(c)
  /\ UNCHANGED <<parent, data, script, prev, outcome>>

\* The global hashes of the commit evaluated before are kept.
SkipEmptyParent(c) ==
  /\ At(c) /\ parent[c] # None /\ read_chash_data(c) # <<>>
  /\ OfParent(c).hashes = Empty
  /\ NoteEmpty(c)
  /\ Save(c, prev.global)
  /\ UNCHANGED <<parent, data, script, outcome>>

\* parent_functions is a dict, and a dict has no insert.
Raise(c) ==
  /\ At(c) /\ parent[c] # None /\ read_chash_data(c) # <<>>
  /\ script = "callgraph" /\ ~Reusable(c) /\ OfParent(c).hashes # Empty
  /\ outcome' = [outcome EXCEPT !.callgraph = "AttributeError"]
  /\ script' = "end"
  /\ UNCHANGED <<parent, data, prev, stats>>

Evaluable(c) ==
  /\ At(c) /\ parent[c] # None /\ read_chash_data(c) # <<>>
  /\ OfParent(c).hashes # Empty

\* stats['commits'][commit] = commit_stats
NoteChanged(c, changed, named) ==
  LET commit_stats == [changed |-> changed, named |-> named,
                       count |-> Cardinality(DOMAIN local_hashes(script, c))]
  IN  stats' = [stats EXCEPT ![script].commits =
                  [d \in DOMAIN @ \cup {c} |-> IF d = c THEN commit_stats ELSE @[d]]]

EvaluateLocal(c) ==
  /\ script = "local" /\ Evaluable(c)
  /\ LET hashes == local_hashes(script, c)
         of == OfParent(c)
         changed == {e \in DOMAIN hashes \cap DOMAIN of.hashes : hashes[e] # of.hashes[e]}
     IN  NoteChanged(c, changed, {})
  /\ Save(c, Empty)
  /\ UNCHANGED <<parent, data, script, outcome>>

EvaluateGlobal(c) ==
  /\ script = "global" /\ Evaluable(c)
  /\ LET hashes == local_hashes(script, c)
         used == used_definitions(script, c)
         of == OfParent(c)
         elements == DOMAIN hashes
         insdel == (elements \cup DOMAIN of.hashes) \ (elements \cap DOMAIN of.hashes)
         common == elements \cap DOMAIN of.hashes
         global == global_hash(Empty, hashes, used)
         before == global_hash(of.global, of.hashes, of.used)
         changed == {e \in common : global[e] # before[e]}
     IN  /\ NoteChanged(c, insdel \cup changed, {})
         /\ Save(c, [e \in Reach(common, used) |-> global[e]])
  /\ UNCHANGED <<parent, data, script, outcome>>

\* The functions named in the diff, which are any, and those they impact.
EvaluateCallGraph(c) ==
  /\ script = "callgraph" /\ Evaluable(c) /\ Reusable(c)
  /\ \E diff \in Diffs :
       NoteChanged(c, diff \cup Impacted(diff, used_definitions(script, c)), diff)
  /\ Save(c, Empty)
  /\ UNCHANGED <<parent, data, script, outcome>>

\* The average over the commits divides by their number, and the percentage of
\* changed elements by the number of elements.
NoAverage(commits) == commits = Empty \/ \E c \in DOMAIN commits : commits[c].count = 0

\* The averages are computed and saved; then the next script is run.
Finish ==
  /\ script \in Scripts /\ counter > N
  /\ outcome' = [outcome EXCEPT ![script] =
       IF NoAverage(stats[script].commits) THEN "ZeroDivisionError" ELSE "saved"]
  /\ script' = CASE script = "local" -> "global" [] script = "global" -> "callgraph"
                 [] script = "callgraph" -> "end"
  /\ counter' = 1 /\ prev' = Start
  /\ UNCHANGED <<parent, data, stats>>

Next ==
  \/ \E c \in Builds : \/ SkipFirst(c) \/ SkipEmpty(c) \/ SkipEmptyParent(c) \/ Raise(c)
                       \/ EvaluateLocal(c) \/ EvaluateGlobal(c) \/ EvaluateCallGraph(c)
  \/ Finish

Spec == Init /\ [][Next]_vars

-----------------------------------------------------------------------------
(* Properties.                                                             *)

Evaluated(scr) == DOMAIN stats[scr].commits
Changed(scr, c) == stats[scr].commits[c].changed
Names(scr, rev) == DOMAIN local_hashes(scr, rev)
Common(scr, c) == Names(scr, c) \cap Names(scr, parent[c])

\* Different elements of rev have different names without prefix.
NoCollision(rev) ==
  LET elems == {e.elem : e \in {read_chash_data(rev)[j] : j \in DOMAIN read_chash_data(rev)}}
  IN  \A e, f \in elems : CleanName(e) = CleanName(f) => e = f

\* SameCommits: the local and the global script evaluate the same commits and
\* note the same ones as without data, although the global script reuses the
\* data of the parent on other conditions; the call graph script evaluates no
\* others.
SameCommits ==
  /\ outcome.global # None =>
       /\ Evaluated("local") = Evaluated("global")
       /\ stats["local"].empty = stats["global"].empty
  /\ Evaluated("callgraph") \subseteq Evaluated("global")

\* LocalExact: the changed elements of the local script are those in the data
\* of both the commit and its parent with different hashes, whatever was kept
\* for reuse.
LocalExact ==
  \A c \in Evaluated("local") :
    Changed("local", c) =
      {e \in Common("local", c) :
         local_hashes("local", c)[e] # local_hashes("local", parent[c])[e]}

\* All that the global hash of e should depend on.
Below(rev, e) ==
  LET used == used_definitions("global", rev)
  IN  [t \in Reach({e}, used) |-> <<local_hashes("global", rev)[t], used[t] \cap DOMAIN used>>]

GlobalReference(c) ==
  (Names("global", c) \cup Names("global", parent[c]))
    \ {e \in Common("global", c) : Below(c, e) = Below(parent[c], e)}

\* GlobalExact: without recursion, and if the parent was not noted as without data,
\* the changed elements of the global script are those added, removed, changed, or
\* using such a function, directly or indirectly; global hashes kept from the
\* commit before are right.
GlobalExact ==
  \A c \in Evaluated("global") :
    parent[c] \notin stats["global"].empty => Changed("global", c) = GlobalReference(c)

\* LocalWithinGlobal: "for each changed local hash, the symbol's global hash
\* should also change" (global_historical_build.py:283), if no names collide.  It
\* does not hold: what is saved for a commit whose parent has no data goes with
\* the global hashes of an older commit, and the next one is compared with those.
LocalWithinGlobal ==
  \A c \in Evaluated("local") \cap Evaluated("global") :
    NoCollision(c) /\ NoCollision(parent[c]) =>
      {CleanName(e) : e \in Changed("local", c)} \subseteq Changed("global", c)

\* CallGraphCovers: without recursion, if the diff names all functions that are
\* new or have changed, and none was removed, the call graph script reports at
\* least the functions that the global script reports.
CallGraphCovers ==
  \A c \in Evaluated("callgraph") \cap Evaluated("global") :
    LET new == Names("callgraph", c) \ Names("callgraph", parent[c])
        modified == {e \in Common("callgraph", c) :
          Below(c, e)[e] # Below(parent[c], e)[e]}
    IN  /\ parent[c] \notin stats["global"].empty
        /\ Names("callgraph", parent[c]) \subseteq Names("callgraph", c)
        /\ new \cup modified \subseteq stats["callgraph"].commits[c].named
        => {e \in Changed("global", c) : IsFunction(e)} \subseteq Changed("callgraph", c)
=============================================================================

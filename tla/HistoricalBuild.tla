-------------------------- MODULE HistoricalBuild --------------------------
(***************************************************************************)
(* The experiments that build a project commit by commit in one directory: *)
(* historical_build.py, which measures every build, and                    *)
(* global_historical_build.py, which also collects and compares the hashes *)
(* of parent and commit.  Both take their builds from lib.py.              *)
(*                                                                         *)
(* A commit is to be measured in a directory in which its parent has been  *)
(* built.  The directory of the previous commit is used again when that is *)
(* the parent; otherwise the parent is built in it, from scratch after a   *)
(* failure.  A make may succeed or fail for any revision at any time: the  *)
(* scripts know of commits that do both.                                   *)
(*                                                                         *)
(* Every object file of the project has a .info file with a record of each *)
(* of its compilations: the hashes of the definitions that it found, or    *)
(* Torn when it left no object file and the record lacks the size of one.  *)
(* 0 is any revision that is not in the list of commits.                   *)
(***************************************************************************)
EXTENDS Naturals, Sequences, FiniteSets

CONSTANTS
  N,          \* number of commits in the list, parents before children
  Files,      \* the object files
  Symbols,    \* names of the definitions
  Hashes,     \* their hashes
  Parents,    \* the histories: functions from commits to revisions
  Sources,    \* their contents: functions from revisions to the hash of every
              \* symbol in every file, None where it is not defined
  None, Torn

Commits == 1..N
Revs == 0..N
Tables == [Symbols -> Hashes \cup {None}]
Contents == [Files -> Tables]

ASSUME HistoryAssumption ==
  /\ N \in Nat \ {0}
  /\ None \notin Hashes /\ None \notin Revs
  /\ Parents \subseteq [Commits -> Revs \cup {None}]
  /\ \A p \in Parents, c \in Commits : p[c] # None => p[c] < c
  /\ IsFiniteSet(Files) /\ IsFiniteSet(Symbols)
  /\ Sources \subseteq [Revs -> Contents]
  /\ Torn \notin Tables

VARIABLES
  script,               \* which of the two scripts
  mode,                 \* its parameter of this name
  parent,               \* git: the parent of every commit
  initial,              \* the initial commit of bash, if it is in the list, or 0
  weird,                \* the commit of musl that is always built afresh, or 0
  source,               \* git: the content of every revision
  commits,              \* the commits still to be built
  current_revision,     \* the revision built last, if it was good
  last_failed,
  commit, parent_ok,    \* the commit at hand
  pc,                   \* the place of the script
  tree,                 \* the directory: the revision checked out,
  uptodate,             \*   the object files newer than their sources,
  built,                \*   the revision of which all has been built,
  info,                 \*   and the records in the .info files
  parent_local_hashes,  \* what was gathered before the commit was built
  builds,               \* build_info['builds']
  reused                \* the commits logged as "resuse good parent"

given == <<script, mode, parent, initial, weird, source>>
loop == <<commits, current_revision, last_failed, commit, parent_ok, reused>>
dir == <<tree, uptodate, built, info>>
vars == <<given, loop, pc, dir, parent_local_hashes, builds>>

Modes == {"normal", "ccache", "clang-hash", "ccache-clang-hash"}

\* setup_compiler_paths: mode clang-hash runs the wrapper that writes .info files.
\* historical_build.py does not read them, and they are left out there.
Collects == script = "global" /\ mode = "clang-hash"

Nothing == [s \in Symbols |-> None]
NoInfo == [f \in Files |-> <<>>]

Init ==
  /\ script \in {"historical", "global"}
  /\ mode \in Modes
  /\ parent \in Parents
  /\ initial \in {0} \cup {c \in Commits : parent[c] = None}
  /\ weird \in {0} \cup (IF initial = 0 THEN Commits ELSE {})
  /\ source \in Sources
  /\ commits = [i \in Commits |-> i]
  /\ current_revision = None /\ last_failed = TRUE
  /\ commit = 0 /\ parent_ok = FALSE
  /\ pc = "select"
  /\ tree = N /\ uptodate = {} /\ built = None /\ info = NoInfo
  /\ parent_local_hashes = Nothing
  /\ builds = <<>> /\ reused = {}

(***************************************************************************)
(* lib.py: git reset, rebuild, and what can be read of it.                 *)
(***************************************************************************)
\* git reset --hard: only files that differ are written and become newer.
Stale(rev) == Files \ {f \in uptodate : source[rev][f] = source[tree][f]}

\* How make -k can end: which of the stale object files it made, and for which
\* the compiler was run in vain.
Results(stale) ==
  {r \in [ok : BOOLEAN, made : SUBSET stale, torn : SUBSET stale] :
     r.made \cap r.torn = {} /\ (r.ok => r.made = stale)}

\* rebuild: make in the directory with revision rev checked out, where the stale
\* object files are missing or old, and the .info files hold records.
Rebuild(rev, stale, records, result) ==
  /\ tree' = rev
  /\ uptodate' = (Files \ stale) \cup result.made
  /\ built' = IF result.ok THEN rev ELSE None
  /\ info' = IF ~Collects THEN records
             ELSE [f \in Files |->
                     IF f \in result.made THEN Append(records[f], source[rev][f])
                     ELSE IF f \in result.torn THEN Append(records[f], Torn)
                     ELSE records[f]]

\* What becomes of the compilation of an object file: found by ccache, found by
\* the plugin ("stop"), or compiled.
Ways == CASE mode = "ccache" -> {"hit", "compile"}
          [] mode = "ccache-clang-hash" -> {"hit", "stop", "compile"}
          [] OTHER -> {"compile"}

\* The counters of ccache, and the letters H and M that the plugin logs when it
\* caches, which it does not in mode clang-hash.
Counted(way) ==
  LET Number(ways) == Cardinality({f \in DOMAIN way : way[f] \in ways})
      cc == IF mode \in {"ccache", "ccache-clang-hash"} THEN 1 ELSE 0
      ch == IF mode = "ccache-clang-hash" THEN 1 ELSE 0
  IN  [way |-> way,
       ccache_hits |-> cc * Number({"hit"}),
       ccache_misses |-> cc * Number({"stop", "compile"}),
       clang_hash_hits |-> ch * Number({"stop"}),
       clang_hash_misses |-> ch * Number({"compile"})]

\* The records of one file that have a hash of s.
With(records, s) == {i \in 1..Len(records) : records[i][s] # None}

\* Mistake: earlier records are not overwritten.
OldestOf(records, s) ==
  records[CHOOSE i \in With(records, s) : \A j \in With(records, s) : i <= j][s]

\* Later records of a file overwrite earlier ones.
NewestOf(records, s) ==
  records[CHOOSE i \in With(records, s) : \A j \in With(records, s) : j <= i][s]

\* The orders in which os.walk may come to the files.
Walks == {walk \in [Files -> 1..Cardinality(Files)] :
            \A f, g \in Files : walk[f] = walk[g] => f = g}

\* The .info files that have a record with s.
Homes(records, s) == {f \in Files : With(records[f], s) # {}}

\* gather_local_hashes: the file that comes last in the walk overwrites the rest.
Gather(records, walk) ==
  [s \in Symbols |->
     IF Homes(records, s) = {} THEN None
     ELSE LET f == CHOOSE f \in Homes(records, s) :
                     \A g \in Homes(records, s) : walk[g] <= walk[f]
          IN  NewestOf(records[f], s)]

\* read_hash_directory deletes keys that an incomplete record does not have.
Readable(records) == \A f \in Files : \A i \in 1..Len(records[f]) : records[f][i] # Torn

\* The comparison of two tables of hashes: the symbols that have changed or are
\* in one of them only.  Just their number is kept.
Compare(before, after) == {s \in Symbols : before[s] # after[s]}

-----------------------------------------------------------------------------
\* Mistake: commits are taken in the order of the list.
IndexFirst == 1

\* The first child of the current revision, or else the first commit.
Index ==
  LET Children == {i \in 1..Len(commits) : parent[commits[i]] = current_revision}
  IN  IF current_revision = None \/ Children = {} THEN 1
      ELSE CHOOSE i \in Children : \A j \in Children : i <= j

\* Mistake: a child is taken and the head of the list deleted.
OthersTail == Tail(commits)

\* del commits[idx]
Others == SubSeq(commits, 1, Index - 1) \o SubSeq(commits, Index + 1, Len(commits))

\* The next commit is taken out of the list; bash's initial one is skipped, and
\* one of musl is built as if the build before had failed.
Select ==
  /\ pc = "select" /\ commits # <<>>
  /\ commits' = Others
  /\ IF script = "historical" /\ commits[Index] = initial
     THEN UNCHANGED <<commit, last_failed, pc>>
     ELSE /\ commit' = commits[Index]
          /\ last_failed' = (last_failed \/ (script = "historical" /\ commits[Index] = weird))
          /\ pc' = "parent"
  /\ UNCHANGED <<given, current_revision, parent_ok, reused, dir, parent_local_hashes, builds>>

\* The parent is dealt with: global_historical_build.py gathers its hashes.
ParentDone(ok) ==
  /\ parent_ok' = ok
  /\ IF script = "historical"
     THEN pc' = "commit" /\ UNCHANGED parent_local_hashes
     ELSE IF Readable(info')
          THEN pc' = "commit" /\ \E walk \in Walks : parent_local_hashes' = Gather(info', walk)
          ELSE pc' = "KeyError" /\ UNCHANGED parent_local_hashes

\* build_parent: git rev-parse or git reset fails for a commit without parent.
NoParent ==
  /\ pc = "parent" /\ parent[commit] = None
  /\ pc' = "CommandFailed"
  /\ UNCHANGED <<given, loop, dir, parent_local_hashes, builds>>

ReuseParent ==
  /\ pc = "parent" /\ parent[commit] # None /\ ~last_failed
  /\ current_revision = parent[commit]
  /\ reused' = reused \cup {commit}
  /\ UNCHANGED dir
  /\ ParentDone(TRUE)
  /\ UNCHANGED <<given, commits, current_revision, last_failed, commit, builds>>

\* Build the parent in the directory of another revision.
RebuildParent ==
  /\ pc = "parent" /\ parent[commit] # None /\ ~last_failed
  /\ current_revision # parent[commit]
  /\ LET stale == Stale(parent[commit])
     IN  \E result \in Results(stale) :
           /\ Rebuild(parent[commit], stale, info, result)
           /\ IF result.ok THEN ParentDone(TRUE)
              ELSE pc' = "scratch" /\ UNCHANGED <<parent_ok, parent_local_hashes>>
  /\ UNCHANGED <<given, commits, current_revision, last_failed, commit, builds, reused>>

\* Mistake: the directory is not cleaned.
ScratchParentDirty ==
  /\ \/ pc = "scratch"
     \/ pc = "parent" /\ parent[commit] # None /\ last_failed
  /\ \E result \in Results(Files) :
       /\ Rebuild(parent[commit], Files, info, result)
       /\ ParentDone(TRUE)
  /\ UNCHANGED <<given, commits, current_revision, last_failed, commit, builds, reused>>

\* git clean removes object files and .info files; then all is built.
ScratchParent ==
  /\ \/ pc = "scratch"
     \/ pc = "parent" /\ parent[commit] # None /\ last_failed
  /\ \E result \in Results(Files) :
       /\ Rebuild(parent[commit], Files, NoInfo, result)
       /\ ParentDone(result.ok)
  /\ UNCHANGED <<given, commits, current_revision, last_failed, commit, builds, reused>>

\* "Build was good. Remember that."
Built(failed) ==
  /\ current_revision' = IF failed THEN None ELSE commit
  /\ last_failed' = failed

\* The commit itself is checked out, built, measured and recorded.
BuildCommit ==
  /\ pc = "commit" /\ script = "historical"
  /\ LET stale == Stale(commit)
     IN  \E result \in Results(stale) :
         \E way \in [(IF result.ok THEN result.made ELSE {}) -> Ways] :
           /\ Rebuild(commit, stale, info, result)
           /\ builds' = Append(builds, [commit |-> commit, parent_ok |-> parent_ok,
                                        failed |-> ~result.ok, calls |-> Counted(way)])
           /\ Built(~result.ok)
  /\ pc' = "select"
  /\ UNCHANGED <<given, commits, commit, parent_ok, reused, parent_local_hashes>>

\* The same in global_historical_build.py, which deletes the counters of the
\* plugin from the measurement, gathers the hashes again, compares them and
\* keeps the number of those that differ.
BuildAndCompare ==
  /\ pc = "commit" /\ script = "global"
  /\ LET stale == Stale(commit)
     IN  \E result \in Results(stale), walk \in Walks :
           /\ Rebuild(commit, stale, info, result)
           /\ IF mode \in {"clang-hash", "ccache-clang-hash"} /\ Readable(info')
              THEN /\ builds' = Append(builds,
                        [commit |-> commit, parent_ok |-> parent_ok, failed |-> ~result.ok,
                         local_changed_sym_count |->
                           Cardinality(Compare(parent_local_hashes, Gather(info', walk)))])
                   /\ Built(~result.ok)
                   /\ pc' = "select"
              ELSE pc' = "KeyError" /\ UNCHANGED <<builds, current_revision, last_failed>>
  /\ UNCHANGED <<given, commits, commit, parent_ok, reused, parent_local_hashes>>

\* call_configure and call_reconfigure raise for most projects if they fail, and
\* so does the reading of diffstat's output.
ConfigureFails ==
  /\ pc \in {"parent", "scratch", "commit"}
  /\ (pc = "parent") =>
       (parent[commit] # None /\ (last_failed \/ current_revision # parent[commit]))
  /\ pc' = "CommandFailed"
  /\ UNCHANGED <<given, loop, dir, parent_local_hashes, builds>>

\* All commits are built and the summary is written.
Finish ==
  /\ pc = "select" /\ commits = <<>>
  /\ pc' = "done"
  /\ UNCHANGED <<given, loop, dir, parent_local_hashes, builds>>

Next ==
  \/ Select
  \/ NoParent \/ ReuseParent \/ RebuildParent \/ ScratchParent
  \/ BuildCommit \/ BuildAndCompare
  \/ ConfigureFails
  \/ Finish

Spec == Init /\ [][Next]_vars

-----------------------------------------------------------------------------
(* Properties.                                                             *)

Failed(i) == builds[i].failed

TypeOK ==
  /\ script \in {"historical", "global"} /\ mode \in Modes
  /\ parent \in [Commits -> Revs \cup {None}] /\ source \in [Revs -> Contents]
  /\ initial \in Revs /\ weird \in Revs
  /\ commits \in Seq(Commits)
  /\ current_revision \in Commits \cup {None}
  /\ last_failed \in BOOLEAN /\ parent_ok \in BOOLEAN /\ uptodate \subseteq Files
  /\ commit \in Revs /\ tree \in Revs
  /\ pc \in {"select", "parent", "scratch", "commit", "done", "KeyError", "CommandFailed"}
  /\ pc \in {"parent", "scratch", "commit"} => commit \in Commits
  /\ built \in Revs \cup {None}
  /\ reused \subseteq Commits

\* ParentBuilt: when a commit is about to be built and its parent counts as ok,
\* the directory holds a complete build of that parent, whatever failed before
\* and however the directory came to be used again (build_parent).
ParentBuilt == pc = "commit" /\ parent_ok => built = parent[commit] /\ tree = built

\* Summarised: a summary that is written holds every commit of the list exactly
\* once, except bash's initial one, although the loop takes them out of order.
Summarised ==
  pc = "done" =>
    LET todo == Commits \ (IF script = "historical" THEN {initial} ELSE {})
    IN  /\ {builds[i].commit : i \in 1..Len(builds)} = todo
        /\ Len(builds) = Cardinality(todo)

\* ReusesAll: without failed builds, every commit built that has a child in the
\* list serves one of its children as build directory ("In a total linear
\* history, this is a NOP"): no order of the commits saves more parent builds.
ReusesAll ==
  pc = "done" /\ weird = 0 /\ (\A i \in 1..Len(builds) : ~Failed(i)) =>
    LET done == {builds[i].commit : i \in 1..Len(builds)}
    IN  Cardinality(reused) = Cardinality({p \in done : \E c \in done : parent[c] = p})

\* ChangesCounted: for a good commit with a good parent, the number of changed
\* hashes lies between what did change and what changed or was added.  Old
\* records stay in the .info files, and files that did not change are not
\* compiled again, but neither makes a difference, except for a symbol with
\* records in several files since the directory was last cleaned (one that was
\* moved, or is static): the order of the walk decides what becomes of it.
ChangesCounted ==
  Collects /\ pc = "select" /\ builds # <<>> =>
    LET b == builds[Len(builds)]
        before == source[parent[b.commit]]
        after == source[b.commit]
        Several == {s \in Symbols : Cardinality(Homes(info, s)) > 1}
        Changed == {s \in Symbols \ Several : \E f \in Files :
                      before[f][s] # None /\ after[f][s] # None /\ before[f][s] # after[f][s]}
        Added == {s \in Symbols \ Several : \E f \in Files :
                    before[f][s] = None /\ after[f][s] # None}
    IN  b.parent_ok /\ ~b.failed =>
          /\ Cardinality(Changed) <= b.local_changed_sym_count
          /\ b.local_changed_sym_count <= Cardinality(Changed \cup Added \cup Several)

=============================================================================

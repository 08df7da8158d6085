----------------------- MODULE HistoricalBuildProofs -----------------------
(***************************************************************************)
(* For every list of commits, every history and every outcome of the       *)
(* builds: the loop keeps its types, a commit is measured on a complete    *)
(* build of its parent, every commit is recorded once, the number of       *)
(* changes found in the .info files is that of the changes, and the calls  *)
(* are counted once by what analyze_results.py makes of the records.       *)
(***************************************************************************)
EXTENDS AnalyzeResults, SequenceTheorems, FiniteSetTheorems, WellFoundedInduction, TLAPS

\* A set of natural numbers that is not empty has a least element.
LEMMA LeastNat ==
  ASSUME NEW T \in SUBSET Nat, T # {}
  PROVE  \E i \in T : \A j \in T : i <= j
<1>1. PICK i \in T : \A j \in T : ~ (<<j, i>> \in OpToRel(<, Nat))
  BY NatLessThanWellFounded, WFMin
<1>2. ASSUME NEW j \in T PROVE i <= j
  <2>1. j < i => <<j, i>> \in OpToRel(<, Nat)
    <3>1. <<j, i>> \in Nat \X Nat
      OBVIOUS
    <3> QED
      BY <3>1, Zenon DEF OpToRel
  <2>2. ~(j < i)
    BY <1>1, <2>1
  <2> QED
    BY <2>2
<1> QED
  BY <1>2

\* The position of the commit taken next is one of the list.
LEMMA IndexInList ==
  ASSUME commits \in Seq(Commits), commits # <<>>
  PROVE  Index \in 1..Len(commits)
<1> DEFINE Children == {i \in 1..Len(commits) : parent[commits[i]] = current_revision}
<1>1. 1 \in 1..Len(commits)
  OBVIOUS
<1>2. CASE current_revision = None \/ Children = {}
  BY <1>1, <1>2 DEF Index
<1>3. CASE ~(current_revision = None \/ Children = {})
  <2>1. Children \in SUBSET Nat /\ Children # {}
    BY <1>3
  <2>2. \E i \in Children : \A j \in Children : i <= j
    BY <2>1, LeastNat
  <2>3. (CHOOSE i \in Children : \A j \in Children : i <= j) \in Children
    BY <2>2
  <2> QED
    BY <1>3, <2>3 DEF Index
<1> QED
  BY <1>2, <1>3

\* What del commits[idx] leaves is a list of commits.
LEMMA OthersType ==
  ASSUME commits \in Seq(Commits), commits # <<>>
  PROVE  Others \in Seq(Commits) /\ commits[Index] \in Commits
<1>1. Index \in 1..Len(commits)
  BY IndexInList
<1>2. commits[Index] \in Commits
  BY <1>1
<1>3. SubSeq(commits, 1, Index - 1) \in Seq(Commits)
  BY <1>1
<1>4. SubSeq(commits, Index + 1, Len(commits)) \in Seq(Commits)
  BY <1>1
<1> QED
  BY <1>2, <1>3, <1>4 DEF Others

\* TypeOK alone is not inductive: a parent is built from scratch only if there is
\* one.
TypeInv == TypeOK /\ (pc = "scratch" => parent[commit] # None)

LEMMA TypeInit == Init => TypeInv
<1> USE HistoryAssumption DEF Commits, Revs
<1> SUFFICES ASSUME Init PROVE TypeInv
  OBVIOUS
<1>1. parent \in [Commits -> Revs \cup {None}]
  BY DEF Init
<1>2. initial \in Revs /\ weird \in Revs /\ tree \in Revs /\ commit \in Revs
  BY DEF Init
<1>3. commits \in Seq(Commits)
  BY DEF Init
<1> QED
  BY <1>1, <1>2, <1>3 DEF Init, TypeInv, TypeOK

\* What make brings up to date is an object file.
LEMMA RebuildType ==
  ASSUME NEW stale \in SUBSET Files, NEW result \in Results(stale), NEW rev, NEW records,
         Rebuild(rev, stale, records, result)
  PROVE  result.ok \in BOOLEAN /\ uptodate' \subseteq Files /\ tree' = rev
         /\ built' = (IF result.ok THEN rev ELSE None)
  BY DEF Results, Rebuild

LEMMA StaleType == \A rev : Stale(rev) \in SUBSET Files
  BY DEF Stale

LEMMA TypeStep == TypeInv /\ [Next]_vars => TypeInv'
<1> USE HistoryAssumption DEF Commits, Revs
<1> SUFFICES ASSUME TypeInv, [Next]_vars PROVE TypeInv'
  OBVIOUS
<1>1. CASE Select
  <2>1. Others \in Seq(Commits) /\ commits[Index] \in Commits
    BY <1>1, OthersType DEF Select, TypeInv, TypeOK
  <2>2. commits' \in Seq(Commits) /\ commit' \in Revs
    BY <1>1, <2>1 DEF Select, TypeInv, TypeOK
  <2>3. last_failed' \in BOOLEAN
    BY <1>1, Zenon DEF Select, TypeInv, TypeOK
  <2>4. /\ pc' \in {"select", "parent"}
        /\ pc' = "parent" => commit' \in Commits
    BY <1>1, <2>1 DEF Select
  <2>5. UNCHANGED <<given, current_revision, parent_ok, reused, dir>>
    BY <1>1 DEF Select
  <2> QED
    BY <2>2, <2>3, <2>4, <2>5 DEF TypeInv, TypeOK, given, dir
<1>2. CASE NoParent
  BY <1>2 DEF NoParent, TypeInv, TypeOK, given, loop, dir
<1>3. CASE ReuseParent
  BY <1>3 DEF ReuseParent, ParentDone, TypeInv, TypeOK, given, dir
<1>4. CASE RebuildParent
  <2>1. PICK result \in Results(Stale(parent[commit])) :
          /\ Rebuild(parent[commit], Stale(parent[commit]), info, result)
          /\ IF result.ok THEN ParentDone(TRUE)
             ELSE pc' = "scratch" /\ UNCHANGED <<parent_ok, parent_local_hashes>>
    BY <1>4 DEF RebuildParent
  <2>2. parent[commit] \in Revs
    BY <1>4 DEF RebuildParent, TypeInv, TypeOK
  <2>3. uptodate' \subseteq Files /\ tree' \in Revs /\ built' \in Revs \cup {None}
    BY <2>1, <2>2, RebuildType, StaleType
  <2> QED
    BY <1>4, <2>1, <2>3 DEF RebuildParent, ParentDone, TypeInv, TypeOK, given
<1>5. CASE ScratchParent
  <2>1. PICK result \in Results(Files) :
          Rebuild(parent[commit], Files, NoInfo, result) /\ ParentDone(result.ok)
    BY <1>5 DEF ScratchParent
  <2>2. parent[commit] \in Revs
    BY <1>5 DEF ScratchParent, TypeInv, TypeOK
  <2>3. uptodate' \subseteq Files /\ tree' \in Revs /\ built' \in Revs \cup {None} /\ result.ok \in BOOLEAN
    BY <2>1, <2>2, RebuildType
  <2> QED
    BY <1>5, <2>1, <2>3 DEF ScratchParent, ParentDone, TypeInv, TypeOK, given
<1>6. CASE BuildCommit
  <2>1. PICK result \in Results(Stale(commit)) :
          Rebuild(commit, Stale(commit), info, result) /\ Built(~result.ok)
    BY <1>6 DEF BuildCommit
  <2>2. commit \in Commits
    BY <1>6 DEF BuildCommit, TypeInv, TypeOK
  <2>3. uptodate' \subseteq Files /\ tree' \in Revs /\ built' \in Revs \cup {None} /\ result.ok \in BOOLEAN
    BY <2>1, <2>2, RebuildType, StaleType
  <2> QED
    BY <1>6, <2>1, <2>2, <2>3 DEF BuildCommit, Built, TypeInv, TypeOK, given
<1>7. CASE BuildAndCompare
  <2>1. PICK result \in Results(Stale(commit)) :
          /\ Rebuild(commit, Stale(commit), info, result)
          /\ \/ Built(~result.ok) /\ pc' = "select"
             \/ pc' = "KeyError" /\ UNCHANGED <<current_revision, last_failed>>
    BY <1>7 DEF BuildAndCompare
  <2>2. commit \in Commits
    BY <1>7 DEF BuildAndCompare, TypeInv, TypeOK
  <2>3. uptodate' \subseteq Files /\ tree' \in Revs /\ built' \in Revs \cup {None} /\ result.ok \in BOOLEAN
    BY <2>1, <2>2, RebuildType, StaleType
  <2> QED
    BY <1>7, <2>1, <2>2, <2>3 DEF BuildAndCompare, Built, TypeInv, TypeOK, given
<1>8. CASE ConfigureFails
  BY <1>8 DEF ConfigureFails, TypeInv, TypeOK, given, loop, dir
<1>9. CASE Finish
  BY <1>9 DEF Finish, TypeInv, TypeOK, given, loop, dir
<1>10. CASE UNCHANGED vars
  BY <1>10 DEF vars, TypeInv, TypeOK, given, loop, dir
<1> QED
  BY <1>1, <1>2, <1>3, <1>4, <1>5, <1>6, <1>7, <1>8, <1>9, <1>10 DEF Next

\* TypeOK for every list of commits.
THEOREM HistoricalBuildTypeCorrect == Spec => []TypeOK
<1>1. TypeInv => TypeOK
  BY DEF TypeInv
<1> QED
  BY <1>1, TypeInit, TypeStep, PTL DEF Spec

\* current_revision names a revision only while the directory holds its build.
Remembered ==
  pc \in {"select", "parent"} /\ current_revision # None =>
    built = current_revision /\ tree = current_revision

\* The inductive invariant behind ParentBuilt.
BuildInv == Remembered /\ ParentBuilt

LEMMA BuildStep == BuildInv /\ [Next]_vars => BuildInv'
<1> SUFFICES ASSUME BuildInv, [Next]_vars PROVE BuildInv'
  OBVIOUS
<1> USE DEF BuildInv, Remembered, ParentBuilt
<1>1. CASE Select
  BY <1>1 DEF Select, given, dir
<1>2. CASE NoParent
  BY <1>2 DEF NoParent
<1>3. CASE ReuseParent
  BY <1>3 DEF ReuseParent, ParentDone, given, dir
<1>4. CASE RebuildParent
  <2>1. PICK result \in Results(Stale(parent[commit])) :
          /\ Rebuild(parent[commit], Stale(parent[commit]), info, result)
          /\ IF result.ok THEN ParentDone(TRUE)
             ELSE pc' = "scratch" /\ UNCHANGED <<parent_ok, parent_local_hashes>>
    BY <1>4 DEF RebuildParent
  <2>2. UNCHANGED <<parent, commit>>
    BY <1>4 DEF RebuildParent, given
  <2> QED
    BY <2>1, <2>2 DEF Rebuild, ParentDone
<1>5. CASE ScratchParent
  <2>1. PICK result \in Results(Files) :
          Rebuild(parent[commit], Files, NoInfo, result) /\ ParentDone(result.ok)
    BY <1>5 DEF ScratchParent
  <2>2. UNCHANGED <<parent, commit>>
    BY <1>5 DEF ScratchParent, given
  <2> QED
    BY <2>1, <2>2 DEF Rebuild, ParentDone
<1>6. CASE BuildCommit
  <2>1. PICK result \in Results(Stale(commit)) :
          Rebuild(commit, Stale(commit), info, result) /\ Built(~result.ok)
    BY <1>6 DEF BuildCommit
  <2>2. pc' = "select"
    BY <1>6 DEF BuildCommit
  <2> QED
    BY <2>1, <2>2 DEF Rebuild, Built
<1>7. CASE BuildAndCompare
  <2>1. PICK result \in Results(Stale(commit)) :
          /\ Rebuild(commit, Stale(commit), info, result)
          /\ (Built(~result.ok) /\ pc' = "select") \/ pc' = "KeyError"
    BY <1>7 DEF BuildAndCompare
  <2> QED
    BY <2>1 DEF Rebuild, Built
<1>8. CASE ConfigureFails
  BY <1>8 DEF ConfigureFails
<1>9. CASE Finish
  BY <1>9 DEF Finish
<1>10. CASE UNCHANGED vars
  BY <1>10 DEF vars, given, loop, dir
<1> QED
  BY <1>1, <1>2, <1>3, <1>4, <1>5, <1>6, <1>7, <1>8, <1>9, <1>10 DEF Next

\* ParentBuilt (build_parent, both scripts) for every history and all failures.
THEOREM HistoricalBuildParentBuilt == Spec => []ParentBuilt
<1>1. Init => BuildInv
  BY DEF Init, BuildInv, Remembered, ParentBuilt
<1>2. BuildInv => ParentBuilt
  BY DEF BuildInv
<1> QED
  BY <1>1, <1>2, BuildStep, PTL DEF Spec

-----------------------------------------------------------------------------
(* Every commit is recorded once.                                          *)

\* The commits still in the list, at hand, recorded, and those to be recorded.
Remaining == {commits[i] : i \in 1..Len(commits)}

AtHand == IF pc \in {"parent", "scratch", "commit"} THEN {commit} ELSE {}

Done == {builds[i].commit : i \in 1..Len(builds)}

Todo == Commits \ (IF script = "historical" THEN {initial} ELSE {})

Stopped == pc \in {"KeyError", "CommandFailed"}

IsList(q) == Len(q) \in Nat /\ q = [i \in 1..Len(q) |-> q[i]]

\* A commit is in one place only, and none is lost before the script stops.  The
\* list stays in its order whichever commit is taken out.
ListInv ==
  /\ IsList(builds)
  /\ \A i, j \in 1..Len(commits) : i < j => commits[i] < commits[j]
  /\ Done \cap Remaining = {} /\ AtHand \cap Done = {} /\ AtHand \cap Remaining = {}
  /\ Done \cup AtHand \subseteq Todo
  /\ ~Stopped => Todo \subseteq Done \cup Remaining \cup AtHand
  /\ Len(builds) = Cardinality(Done)
  /\ pc = "done" => commits = <<>>

-----------------------------------------------------------------------------
(* The number of changes.                                                  *)

\* The newest record of an object file's .info file is that of the object file.
InfoInv ==
  /\ info \in [Files -> Seq(Tables \cup {Torn})]
  /\ Collects => \A f \in uptodate : Len(info[f]) > 0 /\ info[f][Len(info[f])] = source[tree][f]
  /\ pc \in {"select", "parent"} /\ current_revision # None => uptodate = Files

\* What was gathered for a good parent comes from the records that are there.
Gathered ==
  Collects /\ pc = "commit" /\ parent_ok =>
    uptodate = Files /\ \E walk \in Walks : parent_local_hashes = Gather(info, walk)

\* The three sets of ChangesCounted, by the two contents and the records.
SeveralIn(records) == {s \in Symbols : Cardinality(Homes(records, s)) > 1}

ChangedTo(before, after, records) ==
  {s \in Symbols \ SeveralIn(records) : \E f \in Files :
     before[f][s] # None /\ after[f][s] # None /\ before[f][s] # after[f][s]}

AddedTo(before, after, records) ==
  {s \in Symbols \ SeveralIn(records) : \E f \in Files :
     before[f][s] = None /\ after[f][s] # None}

-----------------------------------------------------------------------------
(* Directories are used again whenever that is possible.                   *)

Taken == Commits \ Remaining

\* A parent is taken before its children, and only once.
OrderInv ==
  /\ \A c \in Taken : parent[c] \notin Remaining \cup AtHand
  /\ pc = "select" /\ current_revision # None => \A c \in Taken : parent[c] # current_revision

ReusedInv ==
  /\ current_revision # None => current_revision \in Done
  /\ reused \subseteq Done \cup AtHand \/ Stopped
  /\ reused \subseteq Taken
  /\ \A c \in reused : parent[c] \in Done
  /\ \A c, d \in reused : parent[c] = parent[d] => c = d
  /\ pc \in {"select", "parent"} => \A c \in reused : parent[c] # current_revision

AllGood == weird = 0 /\ \A i \in 1..Len(builds) : ~Failed(i)

\* A good commit that has a child serves one, or is about to do so.
ServesInv ==
  AllGood =>
    /\ Done # {} => ~last_failed /\ current_revision # None
    /\ \A p \in Done : \A c \in Commits : parent[c] = p =>
         \/ \E d \in reused : parent[d] = p
         \/ p = current_revision /\ (pc = "select" \/ (pc = "parent" /\ parent[commit] = p))

-----------------------------------------------------------------------------
(* Four kinds of steps: a commit is selected, a commit is recorded, the    *)
(* directory of its parent is used again, or none of that.                 *)

Records(e) ==
  /\ pc = "commit" /\ pc' = "select"
  /\ e.commit = commit /\ e.parent_ok = parent_ok /\ builds' = Append(builds, e)
  /\ current_revision' = IF e.failed THEN None ELSE commit
  /\ last_failed' = e.failed
  /\ UNCHANGED <<given, commits, commit, reused>>

\* No commit is moved; a parent's directory that could be used again is used.
Quiet ==
  /\ UNCHANGED <<given, commits, current_revision, last_failed, commit, reused, builds>>
  /\ \/ pc' = pc
     \/ /\ pc = "parent" =>
             last_failed \/ current_revision # parent[commit] \/ parent[commit] = None
        /\ pc \in {"parent", "scratch", "commit"}
        /\ Stopped' \/ pc' \in {"scratch", "commit"}
     \/ pc = "select" /\ pc' = "done" /\ commits = <<>>

Reuses ==
  /\ pc = "parent" /\ ~last_failed /\ parent[commit] # None /\ current_revision = parent[commit]
  /\ pc' = "commit" \/ Stopped'
  /\ reused' = reused \cup {commit}
  /\ UNCHANGED <<given, commits, current_revision, last_failed, commit, builds>>

LEMMA RecordsOrStops ==
  ASSUME BuildCommit \/ BuildAndCompare
  PROVE  (\E e : Records(e)) \/ Quiet
<1>1. CASE BuildCommit
  <2>1. PICK result, way :
          /\ builds' = Append(builds, [commit |-> commit, parent_ok |-> parent_ok,
                                       failed |-> ~result.ok, calls |-> Counted(way)])
          /\ Built(~result.ok)
    BY <1>1 DEF BuildCommit
  <2> DEFINE e == [commit |-> commit, parent_ok |-> parent_ok,
                   failed |-> ~result.ok, calls |-> Counted(way)]
  <2>2. e.commit = commit /\ e.parent_ok = parent_ok /\ e.failed = ~result.ok
    OBVIOUS
  <2>3. Records(e)
    BY <1>1, <2>1, <2>2 DEF BuildCommit, Records, Built
  <2> QED BY <2>3
<1>2. CASE BuildAndCompare
  <2>1. CASE pc' = "KeyError"
    BY <1>2, <2>1 DEF BuildAndCompare, Quiet, Stopped
  <2>2. CASE pc' # "KeyError"
    <3>1. PICK result, number :
            /\ builds' = Append(builds,
                 [commit |-> commit, parent_ok |-> parent_ok, failed |-> ~result.ok,
                  local_changed_sym_count |-> number])
            /\ Built(~result.ok) /\ pc' = "select"
      BY <1>2, <2>2 DEF BuildAndCompare
    <3> DEFINE e == [commit |-> commit, parent_ok |-> parent_ok, failed |-> ~result.ok,
                     local_changed_sym_count |-> number]
    <3>2. e.commit = commit /\ e.parent_ok = parent_ok /\ e.failed = ~result.ok
      OBVIOUS
    <3>3. Records(e)
      BY <1>2, <3>1, <3>2 DEF BuildAndCompare, Records, Built
    <3> QED BY <3>3
  <2> QED BY <2>1, <2>2
<1> QED BY <1>1, <1>2

LEMMA Kinds ==
  ASSUME [Next]_vars
  PROVE  Select \/ (\E e : Records(e)) \/ Reuses \/ Quiet
<1>1. CASE NoParent \/ ConfigureFails
  BY <1>1 DEF NoParent, ConfigureFails, Quiet, Stopped, loop
<1>2. CASE ReuseParent
  BY <1>2 DEF ReuseParent, ParentDone, Reuses, Stopped
<1>3. CASE RebuildParent
  BY <1>3 DEF RebuildParent, ParentDone, Quiet, Stopped
<1>4. CASE ScratchParent
  BY <1>4 DEF ScratchParent, ParentDone, Quiet, Stopped
<1>5. CASE BuildCommit \/ BuildAndCompare
  BY <1>5, RecordsOrStops
<1>6. CASE Finish
  BY <1>6 DEF Finish, Quiet, loop
<1>7. CASE UNCHANGED vars
  BY <1>7 DEF vars, Quiet, loop
<1> QED BY <1>1, <1>2, <1>3, <1>4, <1>5, <1>6, <1>7 DEF Next

\* Append, for lists of anything.
LEMMA Appended ==
  ASSUME NEW q, IsList(q), NEW e
  PROVE  /\ IsList(Append(q, e)) /\ Len(Append(q, e)) = Len(q) + 1
         /\ \A i \in 1..Len(q) : Append(q, e)[i] = q[i]
         /\ Append(q, e)[Len(q) + 1] = e
<1> DEFINE S == {q[i] : i \in 1..Len(q)} \cup {e}
<1>1. q \in Seq(S) /\ e \in S
  <2>1. q \in [1..Len(q) -> S]
    BY DEF IsList
  <2> QED BY <2>1 DEF IsList
<1> HIDE DEF S
<1>2. /\ Append(q, e) \in Seq(S) /\ Len(Append(q, e)) = Len(q) + 1
      /\ \A i \in 1..Len(q) : Append(q, e)[i] = q[i]
      /\ Append(q, e)[Len(q) + 1] = e
  BY <1>1
<1>3. \A r \in Seq(S) : IsList(r)
  BY DEF IsList
<1> QED BY <1>2, <1>3

\* del commits[idx], element by element.
LEMMA OthersAre ==
  ASSUME commits \in Seq(Commits), commits # <<>>
  PROVE  /\ Index \in 1..Len(commits) /\ Len(commits) \in Nat
         /\ Len(Others) = Len(commits) - 1
         /\ \A i \in 1..(Len(commits) - 1) :
              Others[i] = IF i < Index THEN commits[i] ELSE commits[i + 1]
<1>1. Index \in 1..Len(commits) /\ Len(commits) \in Nat
  BY IndexInList
<1> DEFINE a == SubSeq(commits, 1, Index - 1)
           b == SubSeq(commits, Index + 1, Len(commits))
<1>2. /\ a \in Seq(Commits) /\ Len(a) = Index - 1
      /\ \A i \in 1..(Index - 1) : a[i] = commits[i]
  BY <1>1
<1>3. /\ b \in Seq(Commits) /\ Len(b) = Len(commits) - Index
      /\ \A i \in 1..(Len(commits) - Index) : b[i] = commits[Index + i]
  BY <1>1
<1>4. Others = a \o b
  BY DEF Others
<1> HIDE DEF a, b
<1>5. Len(Others) = Len(commits) - 1
  <2>1. Len(a \o b) = Len(a) + Len(b)
    BY <1>2, <1>3, ConcatProperties
  <2> QED BY <1>1, <1>2, <1>3, <1>4, <2>1
<1>6. ASSUME NEW i \in 1..(Len(commits) - 1)
      PROVE  Others[i] = IF i < Index THEN commits[i] ELSE commits[i + 1]
  <2>1. CASE i < Index
    <3>1. i \in 1..(Index - 1)
      BY <1>1, <2>1
    <3> QED BY <1>1, <1>2, <1>3, <1>4, <2>1, <3>1
  <2>2. CASE ~(i < Index)
    <3>1. i - (Index - 1) \in 1..(Len(commits) - Index) /\ Index + (i - (Index - 1)) = i + 1
      BY <1>1, <2>2
    <3>2. Others[i] = b[i - (Index - 1)]
      <4>1. i \in (Len(a) + 1)..(Len(a) + Len(b)) /\ Len(a) = Index - 1
        BY <1>1, <1>2, <1>3, <2>2
      <4>2. (a \o b)[i] = b[i - Len(a)]
        <5>1. i \in 1..(Len(a) + Len(b)) /\ ~(i <= Len(a))
          BY <1>1, <1>3, <4>1
        <5> QED BY <1>2, <1>3, <5>1, ConcatProperties
      <4> QED BY <1>4, <4>1, <4>2
    <3> QED BY <1>3, <2>2, <3>1, <3>2
  <2> QED BY <2>1, <2>2
<1> QED BY <1>1, <1>5, <1>6

\* Taking a commit out of the list removes that one and keeps the order.
LEMMA Removed ==
  ASSUME commits \in Seq(Commits), commits # <<>>, commits' = Others,
         \A i, j \in 1..Len(commits) : i < j => commits[i] < commits[j]
  PROVE  /\ \A i, j \in 1..Len(commits') : i < j => commits'[i] < commits'[j]
         /\ Remaining' = Remaining \ {commits[Index]}
         /\ commits[Index] \in Remaining /\ commits[Index] \in Commits
         /\ Index = 1 => \A c \in Remaining : commits[Index] <= c
<1> USE DEF Commits
<1> DEFINE n == Len(commits)
<1>1. /\ Index \in 1..n /\ n \in Nat /\ Len(commits') = n - 1
      /\ \A i \in 1..(n - 1) : commits'[i] = IF i < Index THEN commits[i] ELSE commits[i + 1]
  BY OthersAre
<1>2. \A i \in 1..n : commits[i] \in 1..N /\ commits[i] \in Nat
  BY HistoryAssumption
<1>3. Remaining = {commits[i] : i \in 1..n} /\ Remaining' = {commits'[i] : i \in 1..(n - 1)}
  BY <1>1 DEF Remaining
<1> HIDE DEF n
<1> DEFINE at(i) == IF i < Index THEN i ELSE i + 1
<1>4. \A i \in 1..(n - 1) : at(i) \in 1..n /\ commits'[i] = commits[at(i)] /\ at(i) # Index
  BY <1>1
<1>5. \A i, j \in 1..(n - 1) : i < j => at(i) < at(j)
  BY <1>1
<1>6. ASSUME NEW i \in 1..n, i # Index
      PROVE  \E j \in 1..(n - 1) : at(j) = i
  <2>1. CASE i < Index
    BY <1>1, <2>1
  <2>2. CASE ~(i < Index)
    <3>1. i - 1 \in 1..(n - 1) /\ at(i - 1) = i
      BY <1>1, <1>6, <2>2
    <3> QED BY <3>1
  <2> QED BY <2>1, <2>2
<1> HIDE DEF at
<1>7. \A i, j \in 1..Len(commits') : i < j => commits'[i] < commits'[j]
  BY <1>1, <1>4, <1>5 DEF n
<1>8. \A i, j \in 1..n : commits[i] = commits[j] => i = j
  <2> SUFFICES ASSUME NEW i \in 1..n, NEW j \in 1..n, commits[i] = commits[j] PROVE i = j
    OBVIOUS
  <2>1. ~(i < j) /\ ~(j < i)
    BY <1>2 DEF n
  <2> QED BY <1>1, <2>1
<1>9. Remaining' \subseteq Remaining \ {commits[Index]}
  <2> SUFFICES ASSUME NEW i \in 1..(n - 1) PROVE commits'[i] \in Remaining \ {commits[Index]}
    BY <1>3
  <2>1. at(i) \in 1..n /\ commits'[i] = commits[at(i)] /\ at(i) # Index
    BY <1>4
  <2>2. commits[at(i)] # commits[Index]
    BY <1>1, <1>8, <2>1
  <2> QED BY <1>3, <2>1, <2>2
<1>10. Remaining \ {commits[Index]} \subseteq Remaining'
  <2> SUFFICES ASSUME NEW i \in 1..n, commits[i] # commits[Index] PROVE commits[i] \in Remaining'
    BY <1>3
  <2>1. PICK j \in 1..(n - 1) : at(j) = i
    BY <1>6
  <2>2. commits'[j] = commits[i]
    BY <1>4, <2>1
  <2> QED BY <1>3, <2>2
<1>11. Index = 1 => \A c \in Remaining : commits[Index] <= c
  <2> SUFFICES ASSUME Index = 1, NEW i \in 1..n PROVE commits[1] <= commits[i]
    BY <1>3
  <2>1. i = 1 \/ 1 < i
    BY <1>1
  <2> QED BY <1>1, <1>2, <2>1 DEF n
<1> QED BY <1>1, <1>2, <1>3, <1>7, <1>9, <1>10, <1>11

\* Recording a commit.
LEMMA Recorded ==
  ASSUME IsList(builds), NEW e, Records(e)
  PROVE  /\ IsList(builds') /\ Len(builds') = Len(builds) + 1 /\ Len(builds) \in Nat
         /\ Done' = Done \cup {commit}
         /\ \A i \in 1..Len(builds) : builds'[i] = builds[i]
         /\ builds'[Len(builds) + 1] = e
<1>1. /\ IsList(builds') /\ Len(builds') = Len(builds) + 1 /\ Len(builds) \in Nat
      /\ \A i \in 1..Len(builds) : builds'[i] = builds[i]
      /\ builds'[Len(builds) + 1] = e
  BY Appended DEF Records, IsList
<1>2. Done' = {builds'[i].commit : i \in 1..(Len(builds) + 1)}
  BY <1>1 DEF Done
<1>3. e.commit = commit
  BY DEF Records
<1> DEFINE n == Len(builds)
<1>4. \A i : i \in 1..(n + 1) <=> i \in 1..n \/ i = n + 1
  BY <1>1
<1> HIDE DEF n
<1> QED BY <1>1, <1>2, <1>3, <1>4 DEF Done, n

LEMMA ListStep == TypeInv /\ ListInv /\ [Next]_vars => ListInv'
<1> SUFFICES ASSUME TypeInv, ListInv, [Next]_vars PROVE ListInv'
  OBVIOUS
<1>0. Remaining \subseteq Commits /\ Todo \subseteq Commits /\ commits \in Seq(Commits)
  BY DEF TypeInv, TypeOK, Remaining, Todo
<1>1. CASE Select
  <2>1. /\ \A i, j \in 1..Len(commits') : i < j => commits'[i] < commits'[j]
        /\ Remaining' = Remaining \ {commits[Index]}
        /\ commits[Index] \in Remaining /\ commits[Index] \in Commits
    BY <1>0, <1>1, Removed DEF Select, ListInv
  <2>2. Done' = Done /\ Todo' = Todo /\ builds' = builds /\ AtHand = {} /\ ~Stopped
    BY <1>1 DEF Select, Done, Todo, AtHand, Stopped, given
  <2>3. /\ \/ AtHand' = {} /\ ~Stopped' /\ commits[Index] \notin Todo
           \/ AtHand' = {commits[Index]} /\ commits[Index] \in Todo /\ ~Stopped'
        /\ pc' # "done"
    BY <1>1, <2>1 DEF Select, AtHand, Todo, Stopped
  <2> QED BY <2>1, <2>2, <2>3 DEF ListInv
<1>2. ASSUME NEW e, Records(e) PROVE ListInv'
  <2>1. IsList(builds') /\ Len(builds') = Len(builds) + 1 /\ Done' = Done \cup {commit}
    BY <1>2, Recorded DEF ListInv
  <2>2. /\ AtHand = {commit} /\ AtHand' = {} /\ Remaining' = Remaining /\ Todo' = Todo
        /\ ~Stopped /\ commits' = commits /\ pc' = "select"
    BY <1>2 DEF Records, AtHand, Remaining, Todo, Stopped, given
  <2>3. IsFiniteSet(Done)
    <3>1. IsFiniteSet(1..N)
      BY HistoryAssumption, FS_Interval
    <3>2. Done \in SUBSET (1..N)
      BY <1>0 DEF ListInv, Commits
    <3> QED BY <3>1, <3>2, FS_Subset
  <2>4. Cardinality(Done \cup {commit}) = Cardinality(Done) + 1
    BY <2>2, <2>3, FS_AddElement DEF ListInv
  <2> QED BY <2>1, <2>2, <2>4 DEF ListInv
<1>3. CASE Reuses \/ Quiet
  <2>1. Remaining' = Remaining /\ Todo' = Todo /\ Done' = Done /\ UNCHANGED <<builds, commits>>
    BY <1>3 DEF Reuses, Quiet, Remaining, Todo, Done, given
  <2>2. /\ AtHand' \subseteq AtHand /\ (AtHand' = AtHand \/ Stopped') /\ (Stopped => Stopped')
        /\ pc' = "done" => pc = "done" \/ commits = <<>>
    BY <1>3 DEF Reuses, Quiet, AtHand, Stopped
  <2> QED BY <2>1, <2>2 DEF ListInv
<1> QED BY <1>1, <1>2, <1>3, Kinds

LEMMA ListInit == Init => ListInv
<1> SUFFICES ASSUME Init PROVE ListInv
  OBVIOUS
<1>1. /\ commits = [i \in 1..N |-> i] /\ N \in Nat /\ Len(commits) = N
      /\ \A i \in 1..N : commits[i] = i
  BY HistoryAssumption DEF Init, Commits
<1>2. Remaining = Commits
  BY <1>1 DEF Remaining, Commits
<1>3. Done = {} /\ AtHand = {} /\ ~Stopped /\ pc # "done"
  BY DEF Init, Done, AtHand, Stopped
<1>4. IsList(builds) /\ Len(builds) = Cardinality(Done)
  BY <1>3, FS_EmptySet DEF Init, IsList
<1>5. Todo \subseteq Commits
  BY DEF Todo
<1> QED BY <1>1, <1>2, <1>3, <1>4, <1>5 DEF ListInv

\* The summary has every commit of the list once, whichever child the loop in
\* main takes next, and for every history.
THEOREM HistoricalBuildSummarised == Spec => []Summarised
<1> DEFINE I == TypeInv /\ ListInv
<1>1. Init => I
  BY TypeInit, ListInit
<1>2. I /\ [Next]_vars => I'
  BY TypeStep, ListStep
<1>3. I => Summarised
  <2> SUFFICES ASSUME I, pc = "done" PROVE Done = Todo /\ Len(builds) = Cardinality(Todo)
    BY DEF Summarised, Done, Todo
  <2>1. AtHand = {} /\ ~Stopped /\ Remaining = {}
    BY DEF AtHand, Stopped, ListInv, Remaining
  <2>2. Done = Todo
    BY <2>1 DEF ListInv
  <2> QED BY <2>2 DEF ListInv
<1> QED BY <1>1, <1>2, <1>3, PTL DEF Spec

-----------------------------------------------------------------------------
(* The .info files and what is gathered from them.                         *)

\* Where the newest record has a hash, it is the one that is taken.
LEMMA NewestIs ==
  ASSUME NEW q, Len(q) \in Nat, Len(q) > 0, NEW s \in Symbols, q[Len(q)][s] # None
  PROVE  NewestOf(q, s) = q[Len(q)][s] /\ With(q, s) # {}
<1> DEFINE n == CHOOSE i \in With(q, s) : \A j \in With(q, s) : j <= i
<1>1. Len(q) \in With(q, s) /\ \A j \in With(q, s) : j <= Len(q)
  BY DEF With
<1>2. n \in With(q, s) /\ \A j \in With(q, s) : j <= n
  BY <1>1
<1>3. n = Len(q)
  BY <1>1, <1>2 DEF With
<1>4. NewestOf(q, s) = q[n][s]
  BY DEF NewestOf
<1> HIDE DEF n
<1> QED BY <1>1, <1>3, <1>4

\* A new record does not hide the old ones, and one without a hash of the symbol
\* changes nothing for it.
LEMMA NewestStays ==
  ASSUME NEW q \in Seq(Tables \cup {Torn}), NEW t \in Tables, NEW s \in Symbols
  PROVE  /\ With(q, s) \subseteq With(Append(q, t), s)
         /\ t[s] = None => With(Append(q, t), s) = With(q, s)
         /\ t[s] = None /\ With(q, s) # {} => NewestOf(Append(q, t), s) = NewestOf(q, s)
<1> DEFINE r == Append(q, t)
           n == CHOOSE i \in With(q, s) : \A j \in With(q, s) : j <= i
<1>1. /\ Len(q) \in Nat /\ Len(r) = Len(q) + 1 /\ r[Len(r)] = t
      /\ \A i \in 1..Len(q) : r[i] = q[i]
  OBVIOUS
<1> HIDE DEF r
<1>2. With(q, s) \subseteq With(r, s) /\ (t[s] = None => With(r, s) = With(q, s))
  BY <1>1 DEF With
<1>3. ASSUME t[s] = None, With(q, s) # {} PROVE NewestOf(r, s) = NewestOf(q, s)
  <2>1. With(q, s) \in SUBSET (1..Len(q))
    BY DEF With
  <2>2. \E i \in With(q, s) : \A j \in With(q, s) : j <= i
    <3> DEFINE T == {Len(q) - i : i \in With(q, s)}
    <3>1. T \in SUBSET Nat /\ T # {}
      BY <1>1, <1>3, <2>1
    <3>2. \E i \in T : \A j \in T : i <= j
      <4> HIDE DEF T
      <4> QED BY <3>1, LeastNat
    <3>3. PICK i \in With(q, s) : \A j \in With(q, s) : Len(q) - i <= Len(q) - j
      BY <3>2
    <3> QED BY <1>1, <2>1, <3>3
  <2>3. n \in With(q, s)
    BY <2>2
  <2>4. NewestOf(r, s) = r[n][s] /\ NewestOf(q, s) = q[n][s]
    BY <1>2, <1>3 DEF NewestOf
  <2> HIDE DEF n
  <2> QED BY <1>1, <2>1, <2>3, <2>4
<1> QED BY <1>2, <1>3 DEF r

\* A symbol with records in one file has the hash of that file, in any walk.
LEMMA GatherOne ==
  ASSUME NEW records, NEW walk \in Walks, NEW s \in Symbols, NEW f \in Files,
         Homes(records, s) = {f}
  PROVE  Gather(records, walk)[s] = NewestOf(records[f], s)
<1> DEFINE h == CHOOSE h \in Homes(records, s) : \A g \in Homes(records, s) : walk[g] <= walk[h]
<1>1. Gather(records, walk)[s] = IF Homes(records, s) = {} THEN None ELSE NewestOf(records[h], s)
  BY DEF Gather
<1>2. h \in Homes(records, s)
  <2>1. walk[f] <= walk[f]
    <3>1. walk[f] \in 1..Cardinality(Files)
      BY DEF Walks
    <3> QED BY <3>1
  <2>2. \E e \in Homes(records, s) : \A g \in Homes(records, s) : walk[g] <= walk[e]
    BY <2>1
  <2> QED BY <2>2
<1> HIDE DEF h
<1> QED BY <1>1, <1>2

\* A symbol that does not have records in several files has them in one or none.
LEMMA OneHome ==
  ASSUME NEW records, NEW s \in Symbols \ SeveralIn(records)
  PROVE  \A f, g \in Homes(records, s) : f = g
<1> SUFFICES ASSUME NEW f \in Homes(records, s), NEW g \in Homes(records, s), f # g PROVE FALSE
  OBVIOUS
<1> DEFINE H == Homes(records, s)
<1>1. IsFiniteSet(H)
  <2>1. H \in SUBSET Files
    BY DEF Homes
  <2> QED BY <2>1, HistoryAssumption, FS_Subset
<1>7. ~(Cardinality(H) > 1)
  BY DEF SeveralIn
<1> HIDE DEF H
<1>2. Cardinality({f}) = 1 /\ IsFiniteSet({f})
  BY FS_Singleton
<1>3. Cardinality({f} \cup {g}) = 2
  <2>1. g \notin {f}
    OBVIOUS
  <2>2. Cardinality({f} \cup {g}) = Cardinality({f}) + 1
    BY <1>2, <2>1, FS_AddElement
  <2> QED BY <1>2, <2>2
<1>4. {f} \cup {g} \in SUBSET H
  BY DEF H
<1>5. 2 <= Cardinality(H)
  BY <1>1, <1>3, <1>4, FS_Subset
<1>6. Cardinality(H) \in Nat
  BY <1>1, FS_CardinalityType
<1> QED BY <1>5, <1>6, <1>7

\* How the .info files go from one content of all files to another.
Extends(old, new, before, after) ==
  /\ old \in [Files -> Seq(Tables \cup {Torn})] /\ new \in [Files -> Seq(Tables \cup {Torn})]
  /\ before \in Contents /\ after \in Contents
  /\ \A f \in Files : Len(old[f]) > 0 /\ old[f][Len(old[f])] = before[f]
  /\ \A f \in Files : Len(new[f]) > 0 /\ new[f][Len(new[f])] = after[f]
  /\ \A f \in Files : new[f] = old[f] \/ new[f] = Append(old[f], after[f])

\* No file loses its records of a symbol.
LEMMA HomesStay ==
  ASSUME NEW old, NEW new, NEW before, NEW after, Extends(old, new, before, after), NEW s \in Symbols
  PROVE  Homes(old, s) \subseteq Homes(new, s)
<1> SUFFICES ASSUME NEW f \in Homes(old, s) PROVE f \in Homes(new, s)
  OBVIOUS
<1>1. f \in Files /\ With(old[f], s) # {}
  BY DEF Homes
<1>2. old[f] \in Seq(Tables \cup {Torn}) /\ after[f] \in Tables
  BY <1>1 DEF Extends, Contents
<1>3. With(old[f], s) \subseteq With(Append(old[f], after[f]), s)
  BY <1>2, NewestStays
<1>4. new[f] = old[f] \/ new[f] = Append(old[f], after[f])
  BY <1>1 DEF Extends
<1> QED BY <1>1, <1>3, <1>4 DEF Homes

\* What changed is found.
LEMMA ChangedFound ==
  ASSUME NEW old, NEW new, NEW before, NEW after, Extends(old, new, before, after),
         NEW walk \in Walks, NEW again \in Walks
  PROVE  ChangedTo(before, after, new) \subseteq Compare(Gather(old, walk), Gather(new, again))
<1> SUFFICES ASSUME NEW s \in ChangedTo(before, after, new)
             PROVE  s \in Compare(Gather(old, walk), Gather(new, again))
  OBVIOUS
<1>1. s \in Symbols \ SeveralIn(new)
  BY DEF ChangedTo
<1>2. PICK f \in Files : before[f][s] # None /\ after[f][s] # None /\ before[f][s] # after[f][s]
  BY DEF ChangedTo
<1>3. /\ Len(old[f]) \in Nat /\ Len(old[f]) > 0 /\ old[f][Len(old[f])] = before[f]
      /\ Len(new[f]) \in Nat /\ Len(new[f]) > 0 /\ new[f][Len(new[f])] = after[f]
  <2>1. old[f] \in Seq(Tables \cup {Torn}) /\ new[f] \in Seq(Tables \cup {Torn})
    BY DEF Extends
  <2> QED BY <2>1 DEF Extends
<1>4. NewestOf(old[f], s) = before[f][s] /\ f \in Homes(old, s)
  BY <1>1, <1>2, <1>3, NewestIs DEF Homes
<1>5. NewestOf(new[f], s) = after[f][s] /\ f \in Homes(new, s)
  BY <1>1, <1>2, <1>3, NewestIs DEF Homes
<1>6. Homes(new, s) = {f} /\ Homes(old, s) = {f}
  BY <1>1, <1>4, <1>5, OneHome, HomesStay
<1>7. Gather(old, walk)[s] = before[f][s] /\ Gather(new, again)[s] = after[f][s]
  BY <1>1, <1>4, <1>5, <1>6, GatherOne
<1> QED BY <1>1, <1>2, <1>7 DEF Compare

\* What is found has changed or was added, or is in several files.
LEMMA FoundChanged ==
  ASSUME NEW old, NEW new, NEW before, NEW after, Extends(old, new, before, after),
         NEW walk \in Walks, NEW again \in Walks
  PROVE  Compare(Gather(old, walk), Gather(new, again)) \subseteq
           ChangedTo(before, after, new) \cup AddedTo(before, after, new) \cup SeveralIn(new)
<1> SUFFICES ASSUME NEW s \in Symbols \ SeveralIn(new), Gather(old, walk)[s] # Gather(new, again)[s]
             PROVE  s \in ChangedTo(before, after, new) \cup AddedTo(before, after, new)
  BY DEF Compare
<1>1. Homes(old, s) \subseteq Homes(new, s)
  BY HomesStay
<1>2. Homes(new, s) # {}
  <2> SUFFICES ASSUME Homes(new, s) = {} PROVE FALSE
    OBVIOUS
  <2>1. Gather(old, walk)[s] = None /\ Gather(new, again)[s] = None
    BY <1>1 DEF Gather
  <2> QED BY <2>1
<1>3. PICK f \in Files : Homes(new, s) = {f}
  BY <1>2, OneHome DEF Homes
<1>4. Gather(new, again)[s] = NewestOf(new[f], s)
  BY <1>3, GatherOne
<1>5. /\ old[f] \in Seq(Tables \cup {Torn}) /\ new[f] \in Seq(Tables \cup {Torn})
      /\ Len(old[f]) \in Nat /\ Len(old[f]) > 0 /\ old[f][Len(old[f])] = before[f]
      /\ Len(new[f]) \in Nat /\ Len(new[f]) > 0 /\ new[f][Len(new[f])] = after[f]
      /\ after[f] \in Tables /\ (new[f] = old[f] \/ new[f] = Append(old[f], after[f]))
  <2>1. old[f] \in Seq(Tables \cup {Torn}) /\ new[f] \in Seq(Tables \cup {Torn}) /\ after[f] \in Tables
    BY DEF Extends, Contents
  <2> QED BY <2>1 DEF Extends
<1>6. CASE after[f][s] = None
  <2>1. /\ With(Append(old[f], after[f]), s) = With(old[f], s)
        /\ With(old[f], s) # {} => NewestOf(Append(old[f], after[f]), s) = NewestOf(old[f], s)
    <3>1. old[f] \in Seq(Tables \cup {Torn}) /\ after[f] \in Tables /\ s \in Symbols
      BY <1>5
    <3> QED BY <1>6, <3>1, NewestStays
  <2>6. /\ With(new[f], s) = With(old[f], s)
        /\ With(old[f], s) # {} => NewestOf(new[f], s) = NewestOf(old[f], s)
    BY <1>5, <2>1
  <2>2. With(old[f], s) # {}
    BY <1>3, <2>6 DEF Homes
  <2>3. NewestOf(new[f], s) = NewestOf(old[f], s)
    BY <2>2, <2>6
  <2>4. Homes(old, s) = {f}
    BY <1>1, <1>3, <2>2 DEF Homes
  <2>5. Gather(old, walk)[s] = NewestOf(old[f], s)
    BY <2>4, GatherOne
  <2> QED BY <1>4, <2>3, <2>5
<1>7. CASE after[f][s] # None /\ before[f][s] = None
  BY <1>7 DEF AddedTo
<1>8. CASE after[f][s] # None /\ before[f][s] # None
  <2>1. NewestOf(new[f], s) = after[f][s] /\ NewestOf(old[f], s) = before[f][s]
        /\ With(old[f], s) # {}
    BY <1>5, <1>8, NewestIs
  <2>2. Homes(old, s) = {f}
    BY <1>1, <1>3, <2>1 DEF Homes
  <2>3. Gather(old, walk)[s] = NewestOf(old[f], s)
    BY <2>2, GatherOne
  <2> QED BY <1>4, <1>8, <2>1, <2>3 DEF ChangedTo
<1> QED BY <1>6, <1>7, <1>8

\* The number that is kept lies between the two.
LEMMA CountBetween ==
  ASSUME NEW old, NEW new, NEW before, NEW after, Extends(old, new, before, after),
         NEW walk \in Walks, NEW again \in Walks
  PROVE  /\ Cardinality(ChangedTo(before, after, new))
              <= Cardinality(Compare(Gather(old, walk), Gather(new, again)))
         /\ Cardinality(Compare(Gather(old, walk), Gather(new, again)))
              <= Cardinality(ChangedTo(before, after, new) \cup AddedTo(before, after, new)
                               \cup SeveralIn(new))
<1> DEFINE C == Compare(Gather(old, walk), Gather(new, again))
           A == ChangedTo(before, after, new)
           B == ChangedTo(before, after, new) \cup AddedTo(before, after, new) \cup SeveralIn(new)
<1>1. C \in SUBSET Symbols /\ B \in SUBSET Symbols
  BY DEF Compare, ChangedTo, AddedTo, SeveralIn
<1>2. A \in SUBSET C /\ C \in SUBSET B
  BY ChangedFound, FoundChanged
<1> HIDE DEF A, B, C
<1>3. IsFiniteSet(C) /\ IsFiniteSet(B)
  BY <1>1, HistoryAssumption, FS_Subset
<1>4. Cardinality(A) <= Cardinality(C) /\ Cardinality(C) <= Cardinality(B)
  BY <1>2, <1>3, FS_Subset
<1> QED BY <1>4 DEF A, B, C

\* The newest records after a make are those of the object files.
LEMMA Rebuilt ==
  ASSUME TypeInv, InfoInv, given' = given, NEW rev \in Revs,
         NEW stale \in SUBSET Files, NEW records \in [Files -> Seq(Tables \cup {Torn})],
         stale = Files \/ (stale = Stale(rev) /\ records = info),
         NEW result \in Results(stale), Rebuild(rev, stale, records, result)
  PROVE  /\ info' \in [Files -> Seq(Tables \cup {Torn})]
         /\ Collects' => \A f \in uptodate' :
                           Len(info'[f]) > 0 /\ info'[f][Len(info'[f])] = source'[tree'][f]
         /\ result.ok => uptodate' = Files
         /\ tree' = rev
<1>1. source' = source /\ Collects' = Collects /\ tree' = rev
      /\ uptodate' = (Files \ stale) \cup result.made
  BY DEF given, Rebuild, Collects
<1>2. source[rev] \in [Files -> Tables]
  BY DEF TypeInv, TypeOK, Contents
<1>3. /\ result.made \subseteq stale /\ result.torn \subseteq stale
      /\ (result.ok => result.made = stale)
  BY DEF Results
<1>4. CASE ~Collects
  BY <1>1, <1>3, <1>4 DEF Rebuild
<1>5. CASE Collects
  <2>1. info' = [f \in Files |->
                   IF f \in result.made THEN Append(records[f], source[rev][f])
                   ELSE IF f \in result.torn THEN Append(records[f], Torn)
                   ELSE records[f]]
    BY <1>5 DEF Rebuild
  <2>2. ASSUME NEW f \in Files PROVE info'[f] \in Seq(Tables \cup {Torn})
    <3>1. records[f] \in Seq(Tables \cup {Torn}) /\ source[rev][f] \in Tables
      BY <1>2
    <3>2. /\ Append(records[f], source[rev][f]) \in Seq(Tables \cup {Torn})
          /\ Append(records[f], Torn) \in Seq(Tables \cup {Torn})
      BY <3>1
    <3> QED BY <2>1, <3>1, <3>2
  <2>3. ASSUME NEW f \in uptodate'
        PROVE  Len(info'[f]) > 0 /\ info'[f][Len(info'[f])] = source[rev][f]
    <3>1. f \in Files
      BY <1>1, <1>3, <2>3
    <3>2. CASE f \in result.made
      <4>1. info'[f] = Append(records[f], source[rev][f])
        BY <2>1, <3>1, <3>2
      <4>2. records[f] \in Seq(Tables \cup {Torn}) /\ source[rev][f] \in Tables
        BY <1>2, <3>1
      <4> QED BY <4>1, <4>2
    <3>3. CASE f \notin result.made
      <4>1. f \notin stale /\ f \notin result.torn
        BY <1>1, <1>3, <2>3, <3>3
      <4>2. stale = Stale(rev) /\ records = info
        BY <3>1, <4>1
      <4>3. f \in uptodate /\ source[rev][f] = source[tree][f]
        BY <3>1, <4>1, <4>2 DEF Stale
      <4>4. info'[f] = info[f]
        BY <2>1, <3>1, <3>3, <4>1, <4>2
      <4> QED BY <1>5, <4>3, <4>4 DEF InfoInv
    <3> QED BY <3>2, <3>3
  <2>4. info' \in [Files -> Seq(Tables \cup {Torn})]
    <3>1. info' = [f \in Files |-> info'[f]]
      BY <2>1
    <3> QED BY <2>2, <3>1
  <2> QED BY <1>1, <1>3, <2>3, <2>4
<1> QED BY <1>4, <1>5

\* The make of one step, whichever it is.
Makes(rev, result) ==
  /\ info' \in [Files -> Seq(Tables \cup {Torn})]
  /\ Collects' => \A f \in uptodate' :
                    Len(info'[f]) > 0 /\ info'[f][Len(info'[f])] = source'[tree'][f]
  /\ result.ok => uptodate' = Files
  /\ tree' = rev

LEMMA MakeParent ==
  ASSUME TypeInv, InfoInv, RebuildParent
  PROVE  \E result : /\ Makes(parent[commit], result)
                     /\ IF result.ok THEN ParentDone(TRUE) ELSE pc' = "scratch"
<1> DEFINE stale == Stale(parent[commit])
<1>1. PICK result \in Results(stale) :
        /\ Rebuild(parent[commit], stale, info, result)
        /\ IF result.ok THEN ParentDone(TRUE) ELSE pc' = "scratch"
  BY DEF RebuildParent
<1>2. parent[commit] \in Revs /\ given' = given
  BY DEF RebuildParent, TypeInv, TypeOK
<1>3. stale \in SUBSET Files /\ info \in [Files -> Seq(Tables \cup {Torn})]
  BY DEF Stale, InfoInv
<1>4. Makes(parent[commit], result)
  BY <1>1, <1>2, <1>3, Rebuilt DEF Makes
<1> QED BY <1>1, <1>4

LEMMA MakeScratch ==
  ASSUME TypeInv, InfoInv, ScratchParent
  PROVE  \E result : Makes(parent[commit], result) /\ ParentDone(result.ok)
<1>1. PICK result \in Results(Files) :
        Rebuild(parent[commit], Files, NoInfo, result) /\ ParentDone(result.ok)
  BY DEF ScratchParent
<1>2. parent[commit] \in Revs /\ given' = given
  BY DEF ScratchParent, TypeInv, TypeOK
<1>3. NoInfo \in [Files -> Seq(Tables \cup {Torn})]
  BY DEF NoInfo
<1>4. Makes(parent[commit], result)
  BY <1>1, <1>2, <1>3, Rebuilt DEF Makes
<1> QED BY <1>1, <1>4

LEMMA MakeCommit ==
  ASSUME TypeInv, InfoInv, BuildCommit \/ BuildAndCompare
  PROVE  \E result : /\ Makes(commit, result)
                     /\ \/ Built(~result.ok) /\ pc' = "select"
                        \/ pc' = "KeyError"
<1> DEFINE stale == Stale(commit)
<1>1. PICK result \in Results(stale) :
        /\ Rebuild(commit, stale, info, result)
        /\ \/ Built(~result.ok) /\ pc' = "select"
           \/ pc' = "KeyError"
  <2>1. CASE BuildCommit
    BY <2>1 DEF BuildCommit
  <2>2. CASE BuildAndCompare
    BY <2>2 DEF BuildAndCompare
  <2> QED BY <2>1, <2>2
<1>2. commit \in Revs /\ given' = given
  BY DEF BuildCommit, BuildAndCompare, TypeInv, TypeOK
<1>3. stale \in SUBSET Files /\ info \in [Files -> Seq(Tables \cup {Torn})]
  BY DEF Stale, InfoInv
<1>4. Makes(commit, result)
  BY <1>1, <1>2, <1>3, Rebuilt DEF Makes
<1> QED BY <1>1, <1>4

LEMMA InfoStep == TypeInv /\ InfoInv /\ [Next]_vars => InfoInv'
<1> SUFFICES ASSUME TypeInv, InfoInv, [Next]_vars PROVE InfoInv'
  OBVIOUS
<1>0. given' = given /\ source' = source /\ mode' = mode /\ script' = script
  BY DEF Next, vars, Select, NoParent, ReuseParent, RebuildParent, ScratchParent, BuildCommit,
         BuildAndCompare, ConfigureFails, Finish, given
<1>1. ASSUME dir' = dir, pc' \in {"select", "parent"} => pc \in {"select", "parent"},
             current_revision' = current_revision
      PROVE  InfoInv'
  BY <1>0, <1>1 DEF InfoInv, dir, Collects
<1>2. CASE Select
  BY <1>1, <1>2 DEF Select
<1>3. CASE NoParent \/ ReuseParent \/ ConfigureFails \/ Finish \/ UNCHANGED vars
  BY <1>1, <1>3 DEF NoParent, ReuseParent, ParentDone, ConfigureFails, Finish, vars, loop
<1>4. CASE RebuildParent
  <2>1. PICK result : /\ Makes(parent[commit], result)
                      /\ IF result.ok THEN ParentDone(TRUE) ELSE pc' = "scratch"
    BY <1>4, MakeParent
  <2>2. pc' \notin {"select", "parent"}
    BY <2>1 DEF ParentDone
  <2> QED BY <2>1, <2>2 DEF Makes, InfoInv
<1>5. CASE ScratchParent
  <2>1. PICK result : Makes(parent[commit], result) /\ ParentDone(result.ok)
    BY <1>5, MakeScratch
  <2>2. pc' \notin {"select", "parent"}
    BY <2>1 DEF ParentDone
  <2> QED BY <2>1, <2>2 DEF Makes, InfoInv
<1>6. CASE BuildCommit \/ BuildAndCompare
  <2>1. PICK result : /\ Makes(commit, result)
                      /\ \/ Built(~result.ok) /\ pc' = "select"
                         \/ pc' = "KeyError"
    BY <1>6, MakeCommit
  <2>2. pc' \in {"select", "parent"} /\ current_revision' # None => uptodate' = Files
    BY <2>1 DEF Makes, Built
  <2> QED BY <2>1, <2>2 DEF Makes, InfoInv
<1> QED BY <1>2, <1>3, <1>4, <1>5, <1>6 DEF Next

LEMMA GatheredStep ==
  TypeInv /\ InfoInv /\ Gathered /\ [Next]_vars => Gathered'
<1> SUFFICES ASSUME TypeInv, InfoInv, Gathered, [Next]_vars, Collects', pc' = "commit", parent_ok'
             PROVE  uptodate' = Files /\ \E walk \in Walks : parent_local_hashes' = Gather(info', walk)
  BY DEF Gathered, Walks, Gather, Homes, With, NewestOf
<1>0. script' = "global"
  BY DEF Collects
<1>1. CASE UNCHANGED vars
  BY <1>1 DEF vars, loop, dir, given, Gathered, Collects
<1>2. ASSUME NEW ok, ParentDone(ok), script = "global", ok => uptodate' = Files
      PROVE  uptodate' = Files /\ \E walk \in Walks : parent_local_hashes' = Gather(info', walk)
  BY <1>2 DEF ParentDone
<1>3. CASE ReuseParent
  <2>1. ParentDone(TRUE) /\ script = "global" /\ uptodate' = uptodate
    BY <1>0, <1>3 DEF ReuseParent, dir, given
  <2>2. uptodate = Files
    <3>1. pc = "parent" /\ parent[commit] # None /\ current_revision = parent[commit]
      BY <1>3 DEF ReuseParent
    <3> QED BY <3>1 DEF InfoInv
  <2> QED BY <1>2, <2>1, <2>2
<1>4. CASE RebuildParent
  <2>1. PICK result : /\ Makes(parent[commit], result)
                      /\ IF result.ok THEN ParentDone(TRUE) ELSE pc' = "scratch"
    BY <1>4, MakeParent
  <2>2. script = "global"
    BY <1>0, <1>4 DEF RebuildParent, given
  <2> QED BY <1>2, <2>1, <2>2 DEF Makes
<1>5. CASE ScratchParent
  <2>1. PICK result : Makes(parent[commit], result) /\ ParentDone(result.ok)
    BY <1>5, MakeScratch
  <2>2. script = "global"
    BY <1>0, <1>5 DEF ScratchParent, given
  <2> QED BY <1>2, <2>1, <2>2 DEF Makes
<1>6. CASE Select \/ NoParent \/ BuildCommit \/ BuildAndCompare \/ ConfigureFails \/ Finish
  BY <1>6 DEF Select, NoParent, BuildCommit, BuildAndCompare, ConfigureFails, Finish
<1> QED BY <1>1, <1>3, <1>4, <1>5, <1>6 DEF Next

\* ChangesCounted of one build, with the records that are there.
CountedIn(b, records) ==
  b.parent_ok /\ ~b.failed =>
    LET before == source[parent[b.commit]]
        after == source[b.commit]
    IN  /\ Cardinality(ChangedTo(before, after, records)) <= b.local_changed_sym_count
        /\ b.local_changed_sym_count <=
             Cardinality(ChangedTo(before, after, records) \cup AddedTo(before, after, records)
                           \cup SeveralIn(records))

CountInv == Collects /\ pc = "select" /\ builds # <<>> => CountedIn(builds[Len(builds)], info)

\* The records before and after the build of a commit.
LEMMA BuildExtends ==
  ASSUME TypeInv, BuildInv, InfoInv, Gathered, Collects, BuildAndCompare, parent_ok,
         NEW result \in Results(Stale(commit)), result.ok, Rebuild(commit, Stale(commit), info, result)
  PROVE  Extends(info, info', source[parent[commit]], source[commit])
<1>1. given' = given /\ source' = source /\ Collects' /\ commit \in Revs /\ pc = "commit"
  BY DEF BuildAndCompare, given, TypeInv, TypeOK, Collects
<1>2. uptodate = Files /\ tree = parent[commit]
  BY <1>1 DEF Gathered, BuildInv, ParentBuilt
<1>3. Stale(commit) \in SUBSET Files /\ info \in [Files -> Seq(Tables \cup {Torn})]
  BY DEF Stale, InfoInv
<1>4. /\ info' \in [Files -> Seq(Tables \cup {Torn})]
      /\ \A f \in Files : Len(info'[f]) > 0 /\ info'[f][Len(info'[f])] = source[commit][f]
  BY <1>1, <1>3, Rebuilt
<1>5. \A f \in Files : Len(info[f]) > 0 /\ info[f][Len(info[f])] = source[parent[commit]][f]
  BY <1>2 DEF InfoInv
<1>6. source[parent[commit]] \in Contents /\ source[commit] \in Contents
  <2>1. tree \in Revs /\ source \in [Revs -> Contents]
    BY DEF TypeInv, TypeOK
  <2> QED BY <1>1, <1>2, <2>1
<1>7. ASSUME NEW f \in Files PROVE info'[f] = info[f] \/ info'[f] = Append(info[f], source[commit][f])
  <2>1. result.made \cap result.torn = {} /\ result.made = Stale(commit) /\ result.torn \subseteq Stale(commit)
    BY DEF Results
  <2> QED BY <2>1 DEF Rebuild
<1> QED BY <1>3, <1>4, <1>5, <1>6, <1>7 DEF Extends

LEMMA CountStep ==
  TypeInv /\ ListInv /\ BuildInv /\ InfoInv /\ Gathered /\ CountInv /\ [Next]_vars => CountInv'
<1> SUFFICES ASSUME TypeInv, ListInv, BuildInv, InfoInv, Gathered, CountInv, [Next]_vars, Collects',
                    pc' = "select", builds' # <<>>
             PROVE  (CountedIn(builds[Len(builds)], info))'
  BY DEF CountInv
<1>1. CASE UNCHANGED vars
  <2>1. UNCHANGED <<script, mode, pc, builds, info, source, parent>>
    BY <1>1 DEF vars, dir, given
  <2>2. CountedIn(builds[Len(builds)], info)
    BY <2>1 DEF Collects, CountInv
  <2> QED BY <2>1, <2>2 DEF CountedIn
<1>2. CASE BuildAndCompare
  <2>1. PICK result \in Results(Stale(commit)), again \in Walks :
          /\ Rebuild(commit, Stale(commit), info, result)
          /\ builds' = Append(builds,
               [commit |-> commit, parent_ok |-> parent_ok, failed |-> ~result.ok,
                local_changed_sym_count |-> Cardinality(Compare(parent_local_hashes, Gather(info', again)))])
    BY <1>2 DEF BuildAndCompare
  <2> DEFINE e == [commit |-> commit, parent_ok |-> parent_ok, failed |-> ~result.ok,
                   local_changed_sym_count |-> Cardinality(Compare(parent_local_hashes, Gather(info', again)))]
  <2>2. /\ e.commit = commit /\ e.parent_ok = parent_ok /\ e.failed = ~result.ok
        /\ e.local_changed_sym_count = Cardinality(Compare(parent_local_hashes, Gather(info', again)))
    OBVIOUS
  <2> HIDE DEF e
  <2>3. builds'[Len(builds')] = e
    <3>1. Len(builds') = Len(builds) + 1 /\ builds'[Len(builds) + 1] = e
      BY <2>1, Appended DEF ListInv, e
    <3> QED BY <3>1
  <2>4. Collects /\ source' = source /\ parent' = parent /\ pc = "commit"
    BY <1>2 DEF BuildAndCompare, given, Collects
  <2>5. ASSUME parent_ok, result.ok
        PROVE  /\ Cardinality(ChangedTo(source[parent[commit]], source[commit], info'))
                    <= e.local_changed_sym_count
               /\ e.local_changed_sym_count <=
                    Cardinality(ChangedTo(source[parent[commit]], source[commit], info')
                                  \cup AddedTo(source[parent[commit]], source[commit], info')
                                  \cup SeveralIn(info'))
    <3>1. PICK walk \in Walks : parent_local_hashes = Gather(info, walk)
      BY <2>4, <2>5 DEF Gathered
    <3>2. Extends(info, info', source[parent[commit]], source[commit])
      BY <1>2, <2>1, <2>4, <2>5, BuildExtends
    <3>3. LET n == Cardinality(Compare(Gather(info, walk), Gather(info', again)))
          IN  /\ Cardinality(ChangedTo(source[parent[commit]], source[commit], info')) <= n
              /\ n <= Cardinality(ChangedTo(source[parent[commit]], source[commit], info')
                                    \cup AddedTo(source[parent[commit]], source[commit], info')
                                    \cup SeveralIn(info'))
      BY <3>2, CountBetween
    <3> QED BY <2>2, <3>1, <3>3
  <2>6. e.parent_ok /\ ~e.failed => parent_ok /\ result.ok
    BY <2>2
  <2> QED BY <2>2, <2>3, <2>4, <2>5, <2>6 DEF CountedIn
<1>3. CASE ~BuildAndCompare /\ ~(UNCHANGED vars)
  <2>1. script' = "global" /\ script = script'
    BY <1>3 DEF Collects, Next, Select, NoParent, ReuseParent, RebuildParent, ScratchParent,
                BuildCommit, ConfigureFails, Finish, given
  <2> QED BY <1>3, <2>1 DEF Next, Select, NoParent, ReuseParent, RebuildParent, ScratchParent,
                ParentDone, BuildCommit, ConfigureFails, Finish
<1> QED BY <1>1, <1>2, <1>3

\* ChangesCounted (gather_local_hashes before and after a build, and the number of
\* differences) for all histories, contents of any number of files, outcomes of
\* the builds and orders of os.walk.
THEOREM HistoricalBuildChangesCounted == Spec => []ChangesCounted
<1> DEFINE I == /\ TypeInv /\ ListInv /\ BuildInv /\ InfoInv /\ Gathered /\ CountInv
<1>1. Init => I
  <2>1. Init => BuildInv /\ Gathered /\ CountInv
    BY DEF Init, BuildInv, Remembered, ParentBuilt, Gathered, CountInv
  <2>2. Init => InfoInv
    BY DEF Init, InfoInv, NoInfo
  <2> QED BY <2>1, <2>2, TypeInit, ListInit
<1>2. I /\ [Next]_vars => I'
  BY TypeStep, ListStep, BuildStep, InfoStep, GatheredStep, CountStep
<1>3. I => ChangesCounted
  BY DEF CountInv, CountedIn, ChangesCounted, ChangedTo, AddedTo, SeveralIn
<1> QED BY <1>1, <1>2, <1>3, PTL DEF Spec

-----------------------------------------------------------------------------
(* Which commit is taken, and what its parent's directory is used for.     *)

\* A child of the current revision, if there is one in the list.
LEMMA IndexIs ==
  ASSUME commits \in Seq(Commits), commits # <<>>
  PROVE  \/ /\ Index = 1
            /\ current_revision = None \/ \A c \in Remaining : parent[c] # current_revision
         \/ current_revision # None /\ parent[commits[Index]] = current_revision
<1> DEFINE Children == {i \in 1..Len(commits) : parent[commits[i]] = current_revision}
<1>1. CASE current_revision = None \/ Children = {}
  <2>1. Index = 1
    BY <1>1 DEF Index
  <2>2. Children = {} => \A c \in Remaining : parent[c] # current_revision
    BY DEF Remaining
  <2> QED BY <1>1, <2>1, <2>2
<1>2. CASE current_revision # None /\ Children # {}
  <2>1. Children \in SUBSET Nat
    OBVIOUS
  <2>2. \E i \in Children : \A j \in Children : i <= j
    BY <1>2, <2>1, LeastNat
  <2>3. Index = CHOOSE i \in Children : \A j \in Children : i <= j
    BY <1>2 DEF Index
  <2>4. Index \in Children
    BY <2>2, <2>3
  <2> QED BY <1>2, <2>4
<1> QED BY <1>1, <1>2

HistoryInv == parent \in Parents /\ (initial # 0 => parent[initial] = None)

LEMMA HistoryStep == HistoryInv /\ [Next]_vars => HistoryInv'
<1> SUFFICES ASSUME HistoryInv, [Next]_vars PROVE HistoryInv'
  OBVIOUS
<1>1. given' = given
  BY DEF Next, vars, Select, NoParent, ReuseParent, RebuildParent, ScratchParent, BuildCommit,
         BuildAndCompare, ConfigureFails, Finish
<1> QED BY <1>1 DEF given, HistoryInv

LEMMA NoneIsNoCommit == None \notin Commits /\ 0 \notin Commits
<1>1. Commits \subseteq Revs
  BY HistoryAssumption DEF Commits, Revs
<1> QED BY <1>1, HistoryAssumption DEF Commits

\* What Select does to the sets of commits.
LEMMA Selected ==
  ASSUME TypeInv, ListInv, HistoryInv, Select
  PROVE  /\ commits \in Seq(Commits) /\ commits # <<>> /\ pc = "select"
         /\ commits[Index] \in Remaining /\ commits[Index] \in Commits
         /\ Remaining \subseteq Commits /\ Remaining' = Remaining \ {commits[Index]}
         /\ Index = 1 => \A c \in Remaining : commits[Index] <= c
         /\ Done' = Done /\ AtHand = {} /\ AtHand' \subseteq {commits[Index]}
         /\ UNCHANGED <<parent, initial, weird, current_revision, reused, builds>>
         /\ \/ pc' = "select" /\ parent[commits[Index]] = None /\ last_failed' = last_failed
            \/ /\ pc' = "parent" /\ commit' = commits[Index]
               /\ weird = 0 => (last_failed' <=> last_failed)
<1>1. commits \in Seq(Commits) /\ commits # <<>> /\ commits' = Others /\ pc = "select"
  BY DEF Select, TypeInv, TypeOK
<1>2. /\ Remaining' = Remaining \ {commits[Index]}
      /\ commits[Index] \in Remaining /\ commits[Index] \in Commits
      /\ Index = 1 => \A c \in Remaining : commits[Index] <= c
  BY <1>1, Removed DEF ListInv
<1>3. Remaining \subseteq Commits
  BY <1>1 DEF Remaining
<1>4. Done' = Done /\ AtHand = {}
      /\ UNCHANGED <<parent, initial, weird, current_revision, reused, builds>>
  BY DEF Select, Done, AtHand, given
<1>5. AtHand' \subseteq {commits[Index]}
  BY DEF Select, AtHand
<1>6. \/ pc' = "select" /\ parent[commits[Index]] = None /\ last_failed' = last_failed
      \/ /\ pc' = "parent" /\ commit' = commits[Index]
         /\ weird = 0 => (last_failed' <=> last_failed)
  <2>1. commits[Index] # 0
    BY <1>2, NoneIsNoCommit
  <2>2. CASE script = "historical" /\ commits[Index] = initial
    BY <1>1, <2>1, <2>2 DEF Select, HistoryInv
  <2>3. CASE ~(script = "historical" /\ commits[Index] = initial)
    BY <1>1, <2>1, <2>3 DEF Select
  <2> QED BY <2>2, <2>3
<1> QED BY <1>1, <1>2, <1>3, <1>4, <1>5, <1>6

LEMMA OrderStep ==
  TypeInv /\ ListInv /\ HistoryInv /\ ReusedInv /\ OrderInv /\ [Next]_vars => OrderInv'
<1> SUFFICES ASSUME TypeInv, ListInv, HistoryInv, ReusedInv, OrderInv, [Next]_vars PROVE OrderInv'
  OBVIOUS
<1>1. CASE Select
  <2> DEFINE x == commits[Index]
  <2>1. /\ commits \in Seq(Commits) /\ commits # <<>> /\ pc = "select"
        /\ x \in Remaining /\ x \in Commits
        /\ Remaining \subseteq Commits /\ Remaining' = Remaining \ {x}
        /\ Index = 1 => \A c \in Remaining : x <= c
        /\ AtHand = {} /\ AtHand' \subseteq {x} /\ parent' = parent
        /\ current_revision' = current_revision
        /\ pc' = "select" => parent[x] = None
    BY <1>1, Selected
  <2>2. parent[x] \notin Remaining
    <3>1. CASE parent[x] = None
      BY <2>1, <3>1, NoneIsNoCommit
    <3>2. CASE current_revision # None /\ parent[x] = current_revision
      BY <3>2 DEF ReusedInv, ListInv
    <3>3. CASE parent[x] # None /\ Index = 1
      <4>1. parent[x] < x
        BY <2>1, <3>3, HistoryAssumption DEF HistoryInv
      <4>2. x \in Nat /\ \A c \in Remaining : c \in Nat /\ x <= c
        BY <2>1, <3>3, HistoryAssumption DEF Commits
      <4> HIDE DEF x
      <4>3. parent[x] \in Remaining => FALSE
        BY <4>1, <4>2
      <4> QED BY <4>3
    <3> QED BY <2>1, <3>1, <3>2, <3>3, IndexIs
  <2>3. Taken' = Taken \cup {x}
    BY <2>1 DEF Taken
  <2> HIDE DEF x
  <2>4. \A c \in Taken' : parent[c] \notin Remaining' \cup AtHand'
    BY <2>1, <2>2, <2>3 DEF OrderInv
  <2>5. pc' = "select" /\ current_revision # None => \A c \in Taken' : parent[c] # current_revision
    BY <2>1, <2>3 DEF OrderInv
  <2> QED BY <2>1, <2>4, <2>5 DEF OrderInv
<1>2. ASSUME NEW e, Records(e) PROVE OrderInv'
  <2>1. /\ Remaining' = Remaining /\ Taken' = Taken /\ parent' = parent
        /\ AtHand = {commit} /\ AtHand' = {} /\ current_revision' \in {None, commit}
    BY <1>2 DEF Records, Remaining, Taken, AtHand, given
  <2> QED BY <2>1 DEF OrderInv
<1>3. CASE Reuses \/ Quiet
  <2>1. /\ Remaining' = Remaining /\ Taken' = Taken /\ parent' = parent
        /\ current_revision' = current_revision
        /\ AtHand' \subseteq AtHand /\ (pc' = "select" => pc = "select")
    BY <1>3 DEF Reuses, Quiet, Remaining, Taken, AtHand, Stopped, given
  <2> QED BY <2>1 DEF OrderInv
<1> QED BY <1>1, <1>2, <1>3, Kinds

LEMMA ReusedStep ==
  TypeInv /\ ListInv /\ HistoryInv /\ OrderInv /\ ReusedInv /\ [Next]_vars => ReusedInv'
<1> SUFFICES ASSUME TypeInv, ListInv, HistoryInv, OrderInv, ReusedInv, [Next]_vars PROVE ReusedInv'
  OBVIOUS
<1>0. Done \subseteq Commits /\ AtHand \subseteq Commits
  BY DEF ListInv, Todo
<1>1. CASE Select
  <2>1. /\ Remaining' \subseteq Remaining /\ Done' = Done /\ AtHand = {} /\ pc = "select"
        /\ UNCHANGED <<parent, current_revision, reused>>
    BY <1>1, Selected
  <2>2. Taken \subseteq Taken' /\ ~Stopped
    BY <2>1 DEF Taken, Stopped
  <2> QED BY <2>1, <2>2 DEF ReusedInv
<1>2. ASSUME NEW e, Records(e) PROVE ReusedInv'
  <2>1. /\ Taken' = Taken /\ parent' = parent /\ reused' = reused
        /\ AtHand = {commit} /\ AtHand' = {} /\ current_revision' \in {None, commit} /\ ~Stopped
    BY <1>2 DEF Records, Remaining, Taken, AtHand, Stopped, given
  <2>2. Done' = Done \cup {commit}
    BY <1>2, Recorded DEF ListInv
  <2>3. \A c \in reused : parent[c] # None /\ parent[c] # commit
    BY <1>0, <2>1, NoneIsNoCommit DEF ReusedInv, OrderInv
  <2> QED BY <2>1, <2>2, <2>3 DEF ReusedInv
<1>3. CASE Reuses
  <2>1. /\ Taken' = Taken /\ Done' = Done /\ parent' = parent /\ reused' = reused \cup {commit}
        /\ AtHand = {commit} /\ (AtHand' = {commit} \/ Stopped')
        /\ parent[commit] = current_revision /\ current_revision # None
        /\ current_revision' = current_revision
        /\ pc = "parent" /\ pc' \notin {"select", "parent"} /\ ~Stopped
    BY <1>3 DEF Reuses, Remaining, Taken, AtHand, Stopped, Done, given
  <2>2. commit \in Taken
    BY <1>0, <2>1 DEF Taken, ListInv
  <2> QED BY <2>1, <2>2 DEF ReusedInv
<1>4. CASE Quiet
  <2>1. /\ Taken' = Taken /\ Done' = Done /\ UNCHANGED <<parent, reused, current_revision>>
        /\ AtHand' = AtHand \/ Stopped'
        /\ Stopped => Stopped'
        /\ pc' \in {"select", "parent"} => pc \in {"select", "parent"}
    BY <1>4 DEF Quiet, Remaining, Taken, AtHand, Stopped, Done, given
  <2> QED BY <2>1 DEF ReusedInv
<1> QED BY <1>1, <1>2, <1>3, <1>4, Kinds

LEMMA ServesStep ==
  TypeInv /\ ListInv /\ HistoryInv /\ OrderInv /\ ReusedInv /\ ServesInv /\ [Next]_vars => ServesInv'
<1> SUFFICES ASSUME TypeInv, ListInv, HistoryInv, OrderInv, ReusedInv, ServesInv, [Next]_vars,
                    AllGood'
             PROVE  /\ Done' # {} => ~last_failed' /\ current_revision' # None
                    /\ \A p \in Done' : \A c \in Commits : parent'[c] = p =>
                         \/ \E d \in reused' : parent'[d] = p
                         \/ /\ p = current_revision'
                            /\ (pc' = "select" \/ (pc' = "parent" /\ parent'[commit'] = p))
  BY DEF ServesInv
<1>0. Done \subseteq Commits /\ None \notin Commits
  BY NoneIsNoCommit DEF ListInv, Todo
<1>1. CASE Select
  <2>1. /\ commits \in Seq(Commits) /\ commits # <<>> /\ pc = "select"
        /\ Done' = Done /\ UNCHANGED <<parent, current_revision, reused, builds, weird>>
        /\ \/ pc' = "select" /\ parent[commits[Index]] = None /\ last_failed' = last_failed
           \/ /\ pc' = "parent" /\ commit' = commits[Index]
              /\ weird = 0 => (last_failed' <=> last_failed)
    BY <1>1, Selected
  <2>2. AllGood /\ weird = 0
    BY <2>1 DEF AllGood, Failed
  <2>3. ASSUME NEW p \in Done, NEW c \in Commits, parent[c] = p, p = current_revision
        PROVE  pc' = "parent" /\ parent[commit'] = p
    <3>1. p # None
      BY <1>0
    <3>2. c \in Remaining
      BY <2>1, <2>3, <3>1 DEF OrderInv, Taken
    <3>3. parent[commits[Index]] = p
      BY <2>1, <2>3, <3>1, <3>2, IndexIs
    <3> QED BY <2>1, <3>1, <3>3
  <2> QED BY <2>1, <2>2, <2>3 DEF ServesInv
<1>2. ASSUME NEW e, Records(e)
      PROVE  /\ Done' # {} => ~last_failed' /\ current_revision' # None
             /\ \A p \in Done' : \A c \in Commits : parent'[c] = p =>
                  (\E d \in reused' : parent'[d] = p) \/ (p = current_revision' /\ pc' = "select")
  <2>1. /\ Done' = Done \cup {commit} /\ Len(builds') = Len(builds) + 1 /\ Len(builds) \in Nat
        /\ \A i \in 1..Len(builds) : builds'[i] = builds[i]
        /\ builds'[Len(builds) + 1] = e
    BY <1>2, Recorded DEF ListInv
  <2>2. AllGood /\ ~e.failed
    <3>1. weird' = weird
      BY <1>2 DEF Records, given
    <3>2. \A i \in 1..Len(builds') : ~builds'[i].failed
      BY DEF AllGood, Failed
    <3>3. /\ \A i \in 1..Len(builds) : i \in 1..Len(builds')
          /\ Len(builds) + 1 \in 1..Len(builds')
      BY <2>1
    <3> QED BY <2>1, <3>1, <3>2, <3>3 DEF AllGood, Failed
  <2>3. /\ current_revision' = commit /\ ~last_failed' /\ pc = "commit" /\ pc' = "select"
        /\ parent' = parent /\ reused' = reused
    BY <1>2, <2>2 DEF Records, given
  <2>4. commit \in Commits
    BY <2>3 DEF TypeInv, TypeOK
  <2> QED BY <1>0, <2>1, <2>2, <2>3, <2>4 DEF ServesInv
<1>3. CASE Reuses
  <2>1. /\ Done' = Done /\ UNCHANGED <<parent, current_revision, commit, builds, weird, last_failed>>
        /\ reused' = reused \cup {commit} /\ parent[commit] = current_revision
    BY <1>3 DEF Reuses, Done, given
  <2>2. AllGood
    BY <2>1 DEF AllGood, Failed
  <2> QED BY <2>1, <2>2 DEF ServesInv
<1>4. CASE Quiet
  <2>1. /\ Done' = Done
        /\ UNCHANGED <<parent, current_revision, commit, builds, weird, last_failed, reused, commits>>
    BY <1>4 DEF Quiet, Done, given
  <2>2. AllGood
    BY <2>1 DEF AllGood, Failed
  <2>3. ASSUME NEW p \in Done, NEW c \in Commits, parent[c] = p, p = current_revision, pc' # pc,
               pc = "select" \/ (pc = "parent" /\ parent[commit] = p)
        PROVE  FALSE
    <3>1. p # None /\ ~last_failed
      BY <1>0, <2>2 DEF ServesInv
    <3>2. CASE pc = "select"
      <4>1. commits = <<>>
        BY <1>4, <2>3, <3>2 DEF Quiet
      <4>2. Remaining = {}
        BY <4>1 DEF Remaining
      <4> QED BY <2>3, <3>1, <3>2, <4>2 DEF OrderInv, Taken
    <3>3. CASE pc = "parent" /\ parent[commit] = p
      BY <1>4, <2>3, <3>1, <3>3 DEF Quiet
    <3> QED BY <2>3, <3>2, <3>3
  <2> QED BY <2>1, <2>2, <2>3 DEF ServesInv
<1> QED BY <1>1, <1>2, <1>3, <1>4, Kinds

\* Without failures the order in which main takes the commits saves as many
\* builds of parents as any order could, for every history.
THEOREM HistoricalBuildReusesAll == Spec => []ReusesAll
<1> DEFINE I == TypeInv /\ ListInv /\ HistoryInv /\ OrderInv /\ ReusedInv /\ ServesInv
<1>1. Init => I
  <2> SUFFICES ASSUME Init PROVE I
    OBVIOUS
  <2>1. ListInv /\ TypeInv
    BY TypeInit, ListInit
  <2>2. HistoryInv
    BY DEF Init, HistoryInv
  <2>3. Remaining = Commits
    <3>1. Len(commits) = N /\ \A i \in 1..N : commits[i] = i
      BY HistoryAssumption DEF Init, Commits
    <3> QED BY <3>1 DEF Remaining, Commits
  <2>4. Done = {} /\ AtHand = {}
    BY DEF Init, Done, AtHand
  <2> QED BY <2>1, <2>2, <2>3, <2>4 DEF Init, OrderInv, ReusedInv, ServesInv, Taken
<1>2. I /\ [Next]_vars => I'
  BY TypeStep, ListStep, HistoryStep, OrderStep, ReusedStep, ServesStep
<1>3. I => ReusesAll
  <2> DEFINE P == {p \in Done : \E c \in Done : parent[c] = p}
             f == [c \in reused |-> parent[c]]
  <2> SUFFICES ASSUME I, pc = "done", AllGood PROVE Cardinality(reused) = Cardinality(P)
    BY DEF ReusesAll, AllGood, Done
  <2>1. AtHand = {} /\ ~Stopped /\ Done \subseteq Commits
    BY DEF AtHand, Stopped, ListInv, Todo
  <2>2. reused \subseteq Done
    BY <2>1 DEF ReusedInv
  <2>3. f \in [reused -> P]
    BY <2>2 DEF ReusedInv
  <2>4. \A c, d \in reused : f[c] = f[d] => c = d
    BY DEF ReusedInv
  <2>5. \A p \in P : \E c \in reused : f[c] = p
    BY <2>1 DEF ServesInv
  <2> HIDE DEF P, f
  <2>6. f \in Bijection(reused, P)
    BY <2>3, <2>4, <2>5 DEF Bijection, Injection, Surjection, IsInjective
  <2>7. ExistsBijection(reused, P)
    BY <2>6 DEF ExistsBijection
  <2>8. IsFiniteSet(reused)
    <3>1. IsFiniteSet(1..N)
      BY HistoryAssumption, FS_Interval
    <3>2. reused \in SUBSET (1..N)
      BY <2>1, <2>2 DEF Commits
    <3> QED BY <3>1, <3>2, FS_Subset
  <2> QED BY <2>7, <2>8, FS_Bijection
<1> QED BY <1>1, <1>2, <1>3, PTL DEF Spec

-----------------------------------------------------------------------------
(* What analyze_results.py adds up.                                        *)

LEMMA MaxOf ==
  ASSUME NEW n \in Nat, NEW S \in SUBSET (1..n), S # {}
  PROVE  Max(S) \in S
<1> DEFINE T == {n - x : x \in S}
<1>1. T \in SUBSET Nat /\ T # {}
  <2>1. \A x \in S : n - x \in Nat
    OBVIOUS
  <2> QED BY <2>1
<1>2. \E i \in T : \A j \in T : i <= j
  <2> HIDE DEF T
  <2> QED BY <1>1, LeastNat
<1>3. PICK x \in S : \A y \in S : n - x <= n - y
  BY <1>2
<1>4. \E z \in S : \A y \in S : z >= y
  BY <1>3
<1> QED BY <1>4 DEF Max

\* Among sets of elements of a finite set there is one that contains no other.
LEMMA Minimal ==
  ASSUME NEW D, IsFiniteSet(D), NEW Q \in SUBSET SUBSET D, Q # {}
  PROVE  \E P \in Q : \A R \in Q : R \subseteq P => R = P
<1> DEFINE size(P) == Cardinality(P)
           T == {size(P) : P \in Q}
<1>1. \A P \in Q : IsFiniteSet(P) /\ size(P) \in Nat
  BY FS_Subset, FS_CardinalityType
<1>2. T \in SUBSET Nat /\ T # {}
  BY <1>1
<1>3. \E n \in T : \A j \in T : n <= j
  <2> HIDE DEF T
  <2> QED BY <1>2, LeastNat
<1>4. PICK P \in Q : \A R \in Q : size(P) <= size(R)
  BY <1>3
<1>5. ASSUME NEW R \in Q, R \subseteq P PROVE R = P
  <2>1. size(R) <= size(P) /\ (size(P) = size(R) => P = R)
    BY <1>1, <1>5, FS_Subset
  <2>2. size(P) \in Nat /\ size(R) \in Nat /\ size(P) <= size(R)
    BY <1>1, <1>4
  <2> HIDE DEF size
  <2> QED BY <2>1, <2>2
<1> QED BY <1>5

\* What one build adds to stats.
Add(st, b) ==
  IF b.failed THEN [st EXCEPT !.failed = @ + 1]
  ELSE [st EXCEPT !.count = @ + 1, !.hits = @ + hits(b.calls), !.misses = @ + misses(b.calls)]

StatsOf(g, s) ==
  IF s = {} THEN [failed |-> 0, count |-> 0, hits |-> 0, misses |-> 0]
  ELSE LET x == Max(s) IN Add(g[s \ {x}], builds[x])

LEMMA StatsIs ==
  Stats = (CHOOSE g : g = [s \in SUBSET DOMAIN builds |-> StatsOf(g, s)])[DOMAIN builds]
BY DEF Stats, FoldLeft, MapThenFoldSet, StatsOf, Add

\* The builds by how they ended, and the compilations of the good ones.
Bads == {i \in 1..Len(builds) : Failed(i)}
Goods == {i \in 1..Len(builds) : ~Failed(i)}
ByCcache == mode \in {"ccache", "ccache-clang-hash"}
EndedIn(way, ways) == {f \in DOMAIN way : way[f] \in ways}
Ended(ways) ==
  {c \in Goods \X Files :
     ByCcache /\ c[2] \in DOMAIN builds[c[1]].calls.way /\ builds[c[1]].calls.way[c[2]] \in ways}

\* The compilations of a set of builds.
Of(s, pairs) == {c \in pairs : c[1] \in s}

Numbers(s) ==
  [failed |-> Cardinality(s \cap Bads), count |-> Cardinality(s \cap Goods),
   hits |-> Cardinality(Of(s, Ended({"hit", "stop"}))),
   misses |-> Cardinality(Of(s, Ended({"compile"})))]

\* The counters of a build are those of its compilations.
CallsInv ==
  script = "historical" =>
    \A i \in 1..Len(builds) :
      /\ builds[i].failed \in BOOLEAN
      /\ \E made \in SUBSET Files : \E way \in [made -> Ways] : builds[i].calls = Counted(way)

\* The compilations of one build, counted by their ways.
LEMMA WaysApart ==
  ASSUME NEW made \in SUBSET Files, NEW way \in [made -> Ways]
  PROVE  /\ \A ways : IsFiniteSet(EndedIn(way, ways)) /\ Cardinality(EndedIn(way, ways)) \in Nat
         /\ Cardinality(EndedIn(way, {"hit", "stop"})) =
              Cardinality(EndedIn(way, {"hit"})) + Cardinality(EndedIn(way, {"stop"}))
         /\ Cardinality(EndedIn(way, {"stop", "compile"})) =
              Cardinality(EndedIn(way, {"stop"})) + Cardinality(EndedIn(way, {"compile"}))
         /\ mode # "ccache-clang-hash" => Cardinality(EndedIn(way, {"stop"})) = 0
<1>1. ASSUME NEW ways PROVE IsFiniteSet(EndedIn(way, ways)) /\ Cardinality(EndedIn(way, ways)) \in Nat
  <2>1. EndedIn(way, ways) \in SUBSET Files
    BY DEF EndedIn
  <2> QED BY <2>1, HistoryAssumption, FS_Subset, FS_CardinalityType
<1>2. ASSUME NEW v, NEW w, v \cap w = {}
      PROVE  Cardinality(EndedIn(way, v \cup w)) =
               Cardinality(EndedIn(way, v)) + Cardinality(EndedIn(way, w))
  <2> DEFINE S == EndedIn(way, v)
             T == EndedIn(way, w)
  <2>1. EndedIn(way, v \cup w) = S \cup T /\ S \cap T = {}
    BY <1>2 DEF EndedIn
  <2>2. IsFiniteSet(S) /\ IsFiniteSet(T) /\ Cardinality(S) \in Nat /\ Cardinality(T) \in Nat
    BY <1>1
  <2> HIDE DEF S, T
  <2>3. Cardinality(S \cup T) = Cardinality(S) + Cardinality(T) - Cardinality(S \cap T)
    BY <2>2, FS_Union
  <2>4. Cardinality(S \cap T) = 0
    BY <2>1, FS_EmptySet
  <2>5. Cardinality(S \cup T) = Cardinality(S) + Cardinality(T)
    BY <2>2, <2>3, <2>4
  <2> QED BY <2>1, <2>5 DEF S, T
<1>3. {"hit", "stop"} = {"hit"} \cup {"stop"} /\ {"stop", "compile"} = {"stop"} \cup {"compile"}
  OBVIOUS
<1>4. {"hit"} \cap {"stop"} = {} /\ {"stop"} \cap {"compile"} = {}
  OBVIOUS
<1>5. ASSUME mode # "ccache-clang-hash" PROVE Cardinality(EndedIn(way, {"stop"})) = 0
  <2>1. "stop" \notin Ways
    BY <1>5 DEF Ways
  <2>2. EndedIn(way, {"stop"}) = {}
    BY <2>1 DEF EndedIn
  <2> QED BY <2>2, FS_EmptySet
<1>6. /\ Cardinality(EndedIn(way, {"hit"} \cup {"stop"})) =
           Cardinality(EndedIn(way, {"hit"})) + Cardinality(EndedIn(way, {"stop"}))
      /\ Cardinality(EndedIn(way, {"stop"} \cup {"compile"})) =
           Cardinality(EndedIn(way, {"stop"})) + Cardinality(EndedIn(way, {"compile"}))
  BY <1>2, <1>4
<1> QED BY <1>1, <1>3, <1>5, <1>6

\* The misses are those of the back end: what ccache passes on is not counted
\* twice.
LEMMA OnceCounted ==
  ASSUME NEW made \in SUBSET Files, NEW way \in [made -> Ways], ByCcache
  PROVE  /\ hits(Counted(way)) = Cardinality(EndedIn(way, {"hit", "stop"}))
         /\ misses(Counted(way)) = Cardinality(EndedIn(way, {"compile"}))
         /\ Counted(way).way = way
<1> DEFINE c == Counted(way)
           h == Cardinality(EndedIn(way, {"hit"}))
           s == Cardinality(EndedIn(way, {"stop"}))
           m == Cardinality(EndedIn(way, {"compile"}))
           sm == Cardinality(EndedIn(way, {"stop", "compile"}))
           hs == Cardinality(EndedIn(way, {"hit", "stop"}))
           ch == IF mode = "ccache-clang-hash" THEN 1 ELSE 0
<1>1. h \in Nat /\ s \in Nat /\ m \in Nat /\ hs = h + s /\ sm = s + m
      /\ (mode # "ccache-clang-hash" => s = 0)
  BY WaysApart
<1>2. /\ c.way = way
      /\ c.ccache_hits = 1 * h /\ c.ccache_misses = 1 * sm
      /\ c.clang_hash_hits = ch * s /\ c.clang_hash_misses = ch * m
  BY DEF Counted, EndedIn, ByCcache
<1> HIDE DEF c, h, s, m, sm, hs
<1>3. CASE mode = "ccache-clang-hash"
  <2>1. /\ c.ccache_hits = h /\ c.ccache_misses = s + m
        /\ c.clang_hash_hits = s /\ c.clang_hash_misses = m
    BY <1>1, <1>2, <1>3
  <2>2. hits(c) = hs /\ misses(c) = m
    BY <1>1, <1>3, <2>1 DEF hits, misses
  <2> QED BY <1>2, <2>2 DEF c, hs, m
<1>4. CASE mode # "ccache-clang-hash"
  <2>1. /\ c.ccache_hits = h /\ c.ccache_misses = m
        /\ c.clang_hash_hits = 0 /\ c.clang_hash_misses = 0
    BY <1>1, <1>2, <1>4
  <2>2. hits(c) = hs /\ misses(c) = m
    BY <1>1, <1>4, <2>1 DEF hits, misses
  <2> QED BY <1>2, <2>2 DEF c, hs, m
<1> QED BY <1>3, <1>4

\* Counting with one element more.
LEMMA OneMore ==
  ASSUME NEW s, IsFiniteSet(s), NEW x \in s, NEW P
  PROVE  /\ Cardinality((s \ {x}) \cap P) \in Nat
         /\ Cardinality(s \cap P) = Cardinality((s \ {x}) \cap P) + (IF x \in P THEN 1 ELSE 0)
<1> DEFINE R == (s \ {x}) \cap P
<1>1. R \in SUBSET s /\ x \notin R
  OBVIOUS
<1>2. IsFiniteSet(R)
  BY <1>1, FS_Subset
<1>3. Cardinality(R) \in Nat
  BY <1>2, FS_CardinalityType
<1>4. CASE x \in P
  <2>1. s \cap P = R \cup {x}
    BY <1>4
  <2> HIDE DEF R
  <2>2. Cardinality(R \cup {x}) = Cardinality(R) + 1
    BY <1>1, <1>2, FS_AddElement
  <2> QED BY <1>3, <1>4, <2>1, <2>2 DEF R
<1>5. CASE x \notin P
  <2>1. s \cap P = R
    BY <1>5
  <2> QED BY <1>3, <1>5, <2>1
<1> QED BY <1>4, <1>5

\* Counting the compilations of one build more.
LEMMA OneBuildMore ==
  ASSUME NEW s, IsFiniteSet(s), NEW x \in s, NEW T \in SUBSET Files,
         NEW pairs, pairs \subseteq {c \in pairs : c[1] # x} \cup ({x} \X T), {x} \X T \subseteq pairs,
         Of(s, pairs) \subseteq s \X Files
  PROVE  /\ Cardinality(Of(s \ {x}, pairs)) \in Nat
         /\ Cardinality(Of(s, pairs)) = Cardinality(Of(s \ {x}, pairs)) + Cardinality(T)
<1> DEFINE R == Of(s \ {x}, pairs)
           X == {x} \X T
<1>1. IsFiniteSet(s \X Files) /\ IsFiniteSet(T) /\ IsFiniteSet({x}) /\ Cardinality({x}) = 1
  BY HistoryAssumption, FS_Product, FS_Subset, FS_Singleton
<1>2. R \in SUBSET (s \X Files)
  BY DEF Of
<1>3. Of(s, pairs) = R \cup X /\ R \cap X = {}
  BY DEF Of
<1>4. IsFiniteSet(R) /\ Cardinality(R) \in Nat
  BY <1>1, <1>2, FS_Subset, FS_CardinalityType
<1>5. IsFiniteSet(X) /\ Cardinality(X) = 1 * Cardinality(T) /\ Cardinality(T) \in Nat
  BY <1>1, FS_Product, FS_CardinalityType
<1> HIDE DEF R, X
<1>6. Cardinality(R \cup X) = Cardinality(R) + Cardinality(X) - Cardinality(R \cap X)
  BY <1>4, <1>5, FS_Union
<1>7. Cardinality(R \cap X) = 0
  BY <1>3, FS_EmptySet
<1>8. Cardinality(R \cup X) = Cardinality(R) + Cardinality(T)
  BY <1>4, <1>5, <1>6, <1>7
<1> QED BY <1>3, <1>4, <1>8 DEF R

\* What a build adds to the compilations.
LEMMA OneBuild ==
  ASSUME CallsInv, script = "historical", NEW s \in SUBSET (1..Len(builds)), IsFiniteSet(s), NEW x \in s
  PROVE  /\ \A ways : Cardinality(Of(s \ {x}, Ended(ways))) \in Nat
         /\ builds[x].failed => \A ways : Of(s, Ended(ways)) = Of(s \ {x}, Ended(ways))
         /\ ~builds[x].failed =>
              /\ Cardinality(Of(s, Ended({"hit", "stop"}))) =
                   Cardinality(Of(s \ {x}, Ended({"hit", "stop"}))) + hits(builds[x].calls)
              /\ Cardinality(Of(s, Ended({"compile"}))) =
                   Cardinality(Of(s \ {x}, Ended({"compile"}))) + misses(builds[x].calls)
<1>1. ASSUME NEW ways PROVE Of(s, Ended(ways)) \subseteq s \X Files
  BY DEF Of, Ended
<1>2. ASSUME NEW ways PROVE Cardinality(Of(s \ {x}, Ended(ways))) \in Nat
  <2>1. IsFiniteSet(s \X Files)
    BY HistoryAssumption, FS_Product
  <2>2. Of(s \ {x}, Ended(ways)) \in SUBSET (s \X Files)
    BY DEF Of, Ended
  <2> QED BY <2>1, <2>2, FS_Subset, FS_CardinalityType
<1>3. ASSUME builds[x].failed, NEW ways PROVE Of(s, Ended(ways)) = Of(s \ {x}, Ended(ways))
  <2>1. x \notin Goods
    BY <1>3 DEF Goods, Failed
  <2> QED BY <2>1 DEF Of, Ended
<1>0. PICK made \in SUBSET Files : \E way \in [made -> Ways] : builds[x].calls = Counted(way)
  BY DEF CallsInv
<1>4. PICK way \in [made -> Ways] : builds[x].calls = Counted(way)
  BY <1>0
<1>5. builds[x].calls.way = way
  BY <1>4 DEF Counted
<1>6. CASE ~builds[x].failed /\ ByCcache
  <2>1. ASSUME NEW ways
        PROVE  Cardinality(Of(s, Ended(ways))) =
                 Cardinality(Of(s \ {x}, Ended(ways))) + Cardinality(EndedIn(way, ways))
    <3> DEFINE T == EndedIn(way, ways)
               pairs == Ended(ways)
    <3>1. T \in SUBSET Files
      BY DEF EndedIn
    <3>2. x \in Goods
      BY <1>6 DEF Goods, Failed
    <3>3. {x} \X T \subseteq pairs
      BY <1>5, <1>6, <3>1, <3>2 DEF Ended, EndedIn
    <3>4. pairs \subseteq {c \in pairs : c[1] # x} \cup ({x} \X T)
      <4> SUFFICES ASSUME NEW c \in pairs, c[1] = x PROVE c \in {x} \X T
        OBVIOUS
      <4>1. c \in Goods \X Files /\ c[2] \in DOMAIN builds[c[1]].calls.way
            /\ builds[c[1]].calls.way[c[2]] \in ways
        BY DEF Ended
      <4> QED BY <1>5, <4>1 DEF EndedIn
    <3> HIDE DEF T, pairs
    <3>5. Of(s, pairs) \subseteq s \X Files
      BY <1>1 DEF pairs
    <3>6. Cardinality(Of(s, pairs)) = Cardinality(Of(s \ {x}, pairs)) + Cardinality(T)
      BY <3>1, <3>3, <3>4, <3>5, OneBuildMore
    <3> QED BY <3>6 DEF T, pairs
  <2>2. /\ hits(builds[x].calls) = Cardinality(EndedIn(way, {"hit", "stop"}))
        /\ misses(builds[x].calls) = Cardinality(EndedIn(way, {"compile"}))
    BY <1>4, <1>6, OnceCounted
  <2> QED BY <1>2, <1>6, <2>1, <2>2
<1>7. CASE ~builds[x].failed /\ ~ByCcache
  <2>1. \A ways, r : Of(r, Ended(ways)) = {}
    BY <1>7 DEF Of, Ended
  <2>2. /\ builds[x].calls.ccache_hits = 0 * Cardinality(EndedIn(way, {"hit"}))
        /\ builds[x].calls.ccache_misses = 0 * Cardinality(EndedIn(way, {"stop", "compile"}))
        /\ builds[x].calls.clang_hash_hits = 0 * Cardinality(EndedIn(way, {"stop"}))
        /\ builds[x].calls.clang_hash_misses = 0 * Cardinality(EndedIn(way, {"compile"}))
    BY <1>4, <1>7 DEF Counted, ByCcache, EndedIn
  <2>3. \A ways : Cardinality(EndedIn(way, ways)) \in Nat
    BY WaysApart
  <2>4. /\ builds[x].calls.ccache_hits = 0 /\ builds[x].calls.ccache_misses = 0
        /\ builds[x].calls.clang_hash_hits = 0 /\ builds[x].calls.clang_hash_misses = 0
    BY <2>2, <2>3
  <2>5. hits(builds[x].calls) = 0 /\ misses(builds[x].calls) = 0
    BY <1>7, <2>4 DEF hits, misses, ByCcache
  <2>7. ASSUME NEW ways PROVE Cardinality(Of(s, Ended(ways))) = Cardinality(Of(s \ {x}, Ended(ways))) + 0
    <3>1. Of(s, Ended(ways)) = Of(s \ {x}, Ended(ways))
      BY <2>1
    <3>2. Cardinality(Of(s \ {x}, Ended(ways))) \in Nat
      BY <1>2
    <3> DEFINE n == Cardinality(Of(s \ {x}, Ended(ways)))
    <3>3. n = n + 0
      BY <3>2
    <3> QED BY <3>1, <3>3
  <2> QED BY <1>2, <1>7, <2>5, <2>7
<1> QED BY <1>2, <1>3, <1>6, <1>7

LEMMA NumbersStep ==
  ASSUME CallsInv, script = "historical", NEW s \in SUBSET (1..Len(builds)), IsFiniteSet(s), NEW x \in s
  PROVE  Numbers(s) = Add(Numbers(s \ {x}), builds[x])
<1> DEFINE r == s \ {x}
           a == Cardinality(r \cap Bads)
           b == Cardinality(r \cap Goods)
           h == Cardinality(Of(r, Ended({"hit", "stop"})))
           m == Cardinality(Of(r, Ended({"compile"})))
           One(p) == IF p THEN 1 ELSE 0
<1>1. a \in Nat /\ b \in Nat /\ h \in Nat /\ m \in Nat
  BY OneMore, OneBuild
<1>2. /\ Cardinality(s \cap Bads) = a + One(x \in Bads)
      /\ Cardinality(s \cap Goods) = b + One(x \in Goods)
  BY OneMore
<1>3. Numbers(r) = [failed |-> a, count |-> b, hits |-> h, misses |-> m]
  BY DEF Numbers
<1>4. CASE builds[x].failed
  <2>1. x \in Bads /\ x \notin Goods
    BY <1>4 DEF Bads, Goods, Failed
  <2>2. /\ Of(s, Ended({"hit", "stop"})) = Of(r, Ended({"hit", "stop"}))
        /\ Of(s, Ended({"compile"})) = Of(r, Ended({"compile"}))
    BY <1>4, OneBuild
  <2>3. Numbers(s) = [failed |-> a + 1, count |-> b + 0, hits |-> h, misses |-> m]
    BY <1>2, <2>1, <2>2 DEF Numbers
  <2>4. Add(Numbers(r), builds[x]) = [Numbers(r) EXCEPT !.failed = @ + 1]
    BY <1>4 DEF Add
  <2> HIDE DEF a, b, h, m, r
  <2>5. Add(Numbers(r), builds[x]) = [failed |-> a + 1, count |-> b, hits |-> h, misses |-> m]
    BY <1>3, <2>4
  <2>6. Numbers(s) = Add(Numbers(r), builds[x])
    BY <1>1, <2>3, <2>5
  <2> QED BY <2>6 DEF r
<1>5. CASE ~builds[x].failed
  <2> DEFINE H == hits(builds[x].calls)
             M == misses(builds[x].calls)
  <2>1. x \notin Bads /\ x \in Goods
    BY <1>5 DEF Bads, Goods, Failed
  <2>2. /\ Cardinality(Of(s, Ended({"hit", "stop"}))) = h + H
        /\ Cardinality(Of(s, Ended({"compile"}))) = m + M
    BY <1>5, OneBuild
  <2>3. Numbers(s) = [failed |-> a + 0, count |-> b + 1, hits |-> h + H, misses |-> m + M]
    BY <1>2, <2>1, <2>2 DEF Numbers
  <2>4. Add(Numbers(r), builds[x]) = [Numbers(r) EXCEPT !.count = @ + 1, !.hits = @ + H, !.misses = @ + M]
    BY <1>5 DEF Add
  <2> HIDE DEF H, M, a, b, h, m, r
  <2>5. Add(Numbers(r), builds[x]) = [failed |-> a, count |-> b + 1, hits |-> h + H, misses |-> m + M]
    <3> DEFINE t == Numbers(r)
    <3>1. t = [failed |-> a, count |-> b, hits |-> h, misses |-> m]
      BY <1>3
    <3>2. t.failed = a /\ t.count = b /\ t.hits = h /\ t.misses = m
      BY <3>1
    <3> DEFINE n == Add(t, builds[x])
    <3>3. n = [t EXCEPT !.count = @ + 1, !.hits = @ + H, !.misses = @ + M]
      BY <2>4
    <3> HIDE DEF t, n
    <3>4. t = [failed |-> t.failed, count |-> t.count, hits |-> t.hits, misses |-> t.misses]
      BY <3>1
    <3>5. n = [failed |-> t.failed, count |-> t.count + 1, hits |-> t.hits + H, misses |-> t.misses + M]
      BY <3>3, <3>4
    <3> QED BY <3>2, <3>5 DEF t, n
  <2>6. Numbers(s) = Add(Numbers(r), builds[x])
    BY <1>1, <2>3, <2>5
  <2> QED BY <2>6 DEF r
<1> QED BY <1>4, <1>5

\* The loop of analyze_results.py counts the builds of every kind.
LEMMA StatsCount ==
  ASSUME CallsInv, script = "historical", IsList(builds)
  PROVE  Stats = Numbers(1..Len(builds))
<1> DEFINE D == 1..Len(builds)
           E(g, s) == StatsOf(g, s)
           f == [s \in SUBSET D |-> Numbers(s)]
           g == CHOOSE h : h = [s \in SUBSET D |-> E(h, s)]
<1>1. Len(builds) \in Nat /\ DOMAIN builds = D
  BY DEF IsList
<1>2. IsFiniteSet(D)
  BY <1>1, FS_Interval
<1>3. \A s \in SUBSET D : IsFiniteSet(s) /\ (s # {} => Max(s) \in s)
  BY <1>1, <1>2, FS_Subset, MaxOf
<1>4. ASSUME NEW s \in SUBSET D, NEW k, s # {} => k[s \ {Max(s)}] = Numbers(s \ {Max(s)})
      PROVE  StatsOf(k, s) = Numbers(s)
  <2>1. CASE s = {}
    <3>1. Numbers({}) = [failed |-> 0, count |-> 0, hits |-> 0, misses |-> 0]
      <4>1. \A P : {} \cap P = {} /\ Of({}, P) = {}
        BY DEF Of
      <4> QED BY <4>1, FS_EmptySet DEF Numbers
    <3> QED BY <2>1, <3>1 DEF StatsOf
  <2>2. CASE s # {}
    <3>1. Numbers(s) = Add(Numbers(s \ {Max(s)}), builds[Max(s)])
      BY <1>3, <2>2, NumbersStep
    <3>2. StatsOf(k, s) = Add(k[s \ {Max(s)}], builds[Max(s)])
      BY <2>2 DEF StatsOf
    <3> QED BY <1>4, <2>2, <3>1, <3>2
  <2> QED BY <2>1, <2>2
<1>5. f = [s \in SUBSET D |-> E(f, s)]
  <2>1. ASSUME NEW s \in SUBSET D PROVE f[s] = E(f, s)
    <3>1. s \ {Max(s)} \in SUBSET D /\ f[s] = Numbers(s) /\ f[s \ {Max(s)}] = Numbers(s \ {Max(s)})
      OBVIOUS
    <3> HIDE DEF f
    <3> QED BY <1>4, <3>1
  <2>2. f = [s \in SUBSET D |-> f[s]]
    OBVIOUS
  <2> HIDE DEF f, E
  <2> QED BY <2>1, <2>2
<1>6. g = [s \in SUBSET D |-> E(g, s)]
  <2> HIDE DEF f, E
  <2>1. \E h : h = [s \in SUBSET D |-> E(h, s)]
    BY <1>5
  <2> QED BY <2>1
<1>7. Stats = g[D]
  BY <1>1, StatsIs
<1> HIDE DEF g, f
<1> DEFINE Bad == {s \in SUBSET D : g[s] # Numbers(s)}
<1>8. Bad = {}
  <2> SUFFICES ASSUME Bad # {} PROVE FALSE
    OBVIOUS
  <2>1. PICK s \in Bad : \A r \in Bad : r \subseteq s => r = s
    <3>1. Bad \in SUBSET SUBSET D
      OBVIOUS
    <3> HIDE DEF Bad, D
    <3> QED BY <1>2, <3>1, Minimal
  <2>2. g[s] = StatsOf(g, s) /\ s \in SUBSET D
    BY <1>6
  <2>3. ASSUME s # {} PROVE g[s \ {Max(s)}] = Numbers(s \ {Max(s)})
    <3>1. Max(s) \in s
      BY <1>3, <2>2, <2>3
    <3>2. s \ {Max(s)} \subseteq s /\ s \ {Max(s)} # s /\ s \ {Max(s)} \in SUBSET D
      BY <2>2, <3>1
    <3> QED BY <2>1, <3>2
  <2>4. g[s] = Numbers(s)
    BY <1>4, <2>2, <2>3
  <2> QED BY <2>1, <2>4
<1>9. D \in SUBSET D
  OBVIOUS
<1> QED BY <1>7, <1>8, <1>9

LEMMA CallsStep == TypeInv /\ ListInv /\ CallsInv /\ [Next]_vars => CallsInv'
<1> SUFFICES ASSUME TypeInv, ListInv, CallsInv, [Next]_vars, script' = "historical" PROVE CallsInv'
  BY DEF CallsInv
<1>1. script = "historical" /\ mode' = mode
  BY Kinds DEF Select, Records, Reuses, Quiet, given
<1>2. (\A way : Counted(way)' = Counted(way)) /\ Ways' = Ways
  BY <1>1 DEF Counted, Ways
<1>3. CASE BuildCommit
  <2>1. PICK result \in Results(Stale(commit)) :
        \E way \in [(IF result.ok THEN result.made ELSE {}) -> Ways] :
          builds' = Append(builds, [commit |-> commit, parent_ok |-> parent_ok,
                                    failed |-> ~result.ok, calls |-> Counted(way)])
    BY <1>3 DEF BuildCommit
  <2> DEFINE made == IF result.ok THEN result.made ELSE {}
  <2>2. PICK way \in [made -> Ways] :
          builds' = Append(builds, [commit |-> commit, parent_ok |-> parent_ok,
                                    failed |-> ~result.ok, calls |-> Counted(way)])
    BY <2>1
  <2>3. made \in SUBSET Files
    BY DEF Results, Stale
  <2> DEFINE e == [commit |-> commit, parent_ok |-> parent_ok,
                   failed |-> ~result.ok, calls |-> Counted(way)]
             n == Len(builds)
  <2>4. e.failed \in BOOLEAN /\ e.calls = Counted(way)
    OBVIOUS
  <2>5. builds' = Append(builds, e)
    BY <2>2
  <2> HIDE DEF e, made
  <2>6. /\ n \in Nat /\ Len(builds') = n + 1 /\ (\A i \in 1..n : builds'[i] = builds[i]) /\ builds'[n + 1] = e
    BY <2>5, Appended DEF ListInv, IsList
  <2>7. \A i : i \in 1..(n + 1) <=> i \in 1..n \/ i = n + 1
    BY <2>6
  <2> HIDE DEF n
  <2>8. ASSUME NEW i \in 1..Len(builds')
        PROVE  /\ builds'[i].failed \in BOOLEAN
               /\ \E d \in SUBSET Files : \E w \in [d -> Ways] : builds'[i].calls = Counted(w)
    <3>1. CASE i = n + 1
      BY <2>3, <2>4, <2>6, <3>1
    <3>2. CASE i \in 1..n
      BY <1>1, <2>6, <3>2 DEF CallsInv, n
    <3> QED BY <2>6, <2>7, <2>8, <3>1, <3>2
  <2> QED BY <1>1, <1>2, <2>8 DEF CallsInv
<1>4. CASE ~BuildCommit
  <2>1. builds' = builds
    BY <1>1, <1>4 DEF Next, vars, Select, NoParent, ReuseParent, RebuildParent, ScratchParent,
                      BuildAndCompare, ConfigureFails, Finish
  <2> QED BY <1>1, <1>2, <2>1 DEF CallsInv
<1> QED BY <1>3, <1>4

\* For every history and every outcome of the builds, the hits and misses saved
\* for the modes with ccache are the compilations of the good builds, each
\* counted once although ccache and the plugin both count some of them.
THEOREM HistoricalBuildCallsCounted == Spec => []CallsCounted
<1> DEFINE I == TypeInv /\ ListInv /\ CallsInv
<1>1. Init => I
  <2>1. Init => CallsInv
    BY DEF Init, CallsInv
  <2> QED BY <2>1, TypeInit, ListInit
<1>2. I /\ [Next]_vars => I'
  BY TypeStep, ListStep, CallsStep
<1>3. I => CallsCounted
  <2> SUFFICES ASSUME I, script = "historical" PROVE CallsCounted
    BY DEF CallsCounted
  <2> DEFINE n == Len(builds)
  <2>1. Stats = Numbers(1..n) /\ IsList(builds) /\ n \in Nat
    BY StatsCount DEF ListInv, IsList
  <2>2. (1..n) \cap Bads = Bads /\ (1..n) \cap Goods = Goods /\ \A ways : Of(1..n, Ended(ways)) = Ended(ways)
    BY DEF Bads, Goods, Ended, Of
  <2>3. /\ Stats.failed = Cardinality(Bads) /\ Stats.count = Cardinality(Goods)
        /\ Stats.hits = Cardinality(Ended({"hit", "stop"})) /\ Stats.misses = Cardinality(Ended({"compile"}))
    BY <2>1, <2>2 DEF Numbers
  <2>4. Cardinality(Goods) + Cardinality(Bads) = n
    <3>1. IsFiniteSet(1..n) /\ Cardinality(1..n) = n
      BY <2>1, FS_Interval
    <3>2. Goods \in SUBSET (1..n) /\ Bads \in SUBSET (1..n) /\ Goods \cap Bads = {} /\ Goods \cup Bads = 1..n
      BY DEF Goods, Bads
    <3>3. IsFiniteSet(Goods) /\ IsFiniteSet(Bads)
      BY <3>1, <3>2, FS_Subset
    <3>4. Cardinality(Goods \cup Bads) = Cardinality(Goods) + Cardinality(Bads) - Cardinality(Goods \cap Bads)
      BY <3>3, FS_Union
    <3>5. Cardinality(Goods) \in Nat /\ Cardinality(Bads) \in Nat /\ Cardinality(Goods \cap Bads) = 0
      BY <3>2, <3>3, FS_CardinalityType, FS_EmptySet
    <3>6. Cardinality(Goods \cup Bads) = n
      BY <3>1, <3>2
    <3> HIDE DEF n
    <3> QED BY <3>4, <3>5, <3>6
  <2>5. mode \in {"ccache", "ccache-clang-hash"} =>
          \A ways : Ended(ways) = {c \in Goods \X Files : c[2] \in DOMAIN builds[c[1]].calls.way
                                                        /\ builds[c[1]].calls.way[c[2]] \in ways}
    BY DEF Ended, ByCcache
  <2> QED BY <2>3, <2>4, <2>5 DEF CallsCounted, Goods
<1> QED BY <1>1, <1>2, <1>3, PTL DEF Spec
=============================================================================

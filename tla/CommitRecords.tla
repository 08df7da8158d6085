--------------------------- MODULE CommitRecords ---------------------------
(***************************************************************************)
(* The first experiment: run_test_project.py compiles the commits of a     *)
(* project from the newest to older ones, in slices.  The wrapper appends  *)
(* a record per object file to its .info file while a commit is built; the *)
(* script appends what it knows of the commits of its slice, one line, to  *)
(* the file of commit infos, at its end.  add_commit_dates.py rewrites     *)
(* that file.                                                              *)
(*                                                                         *)
(* Commit 1 is the newest one.  The user runs one script at a time; any    *)
(* may be killed, or end with an exception.                                *)
(***************************************************************************)
EXTENDS Integers, Sequences, FiniteSetsExt

CONSTANTS
  M,          \* number of commits
  Files,      \* the object files of the project
  Slices,     \* pairs <<from, to>> of arguments, or <<>>
  MaxRuns     \* bound: runs of run_test_project.py

Commits == 1..M

ASSUME RecordsAssumption ==
  /\ M \in Nat \ {0} /\ MaxRuns \in Nat
  /\ \A s \in Slices : s = <<>> \/ (s[1] - 1 >= 0 /\ s[2] >= s[1] - 1)

VARIABLES
  configurable,    \* git: the commits with a configure script
  pc,              \* "idle", or where run_test_project.py ("loop", "make",
                   \* "write") or add_commit_dates.py ("dates") is
  args,            \* the arguments of the last run of run_test_project.py
  commitCounter,
  commitInfo,      \* the commits in the dictionary of the script that runs
  infoFile,        \* the lines of commitInfo_musl.info, each such commits
  records,         \* the pairs <<c, f>> such that, while c was checked out, a
                   \* record was appended to the .info file of f
  lost,            \* the commits that were in a script's hands when it died
  runs

vars == <<configurable, pc, args, commitCounter, commitInfo, infoFile, records, lost, runs>>

Init ==
  /\ configurable \in SUBSET Commits
  /\ pc = "idle" /\ args = <<>> /\ commitCounter = 0 /\ commitInfo = {}
  /\ infoFile = <<>> /\ records = {} /\ lost = {} /\ runs = 0

-----------------------------------------------------------------------------
(* run_test_project.py                                                     *)

\* Mistake: the first commit of the slice is skipped.
commitsFromOne == IF args = <<>> THEN 0 ELSE args[1]

commitsFrom == IF args = <<>> THEN 0 ELSE args[1] - 1

\* 0 stands for all, an empty slice too.  A single argument n is the slice 1, n.
commitsToHash == IF args = <<>> THEN 0 ELSE args[2] - commitsFrom

\* The loop skips and counts this many commits, if there are as many.
skipped == Min({commitsFrom, M})

Start(slice) ==
  /\ pc = "idle" /\ runs < MaxRuns
  /\ pc' = "loop" /\ args' = slice
  /\ commitCounter' = skipped' /\ commitInfo' = {}
  /\ runs' = runs + 1
  /\ UNCHANGED <<configurable, infoFile, records, lost>>

\* The commit that is checked out.
current == commitCounter + 1

\* Clean, check out, look at the commit.
CheckOut ==
  /\ pc = "loop" /\ commitCounter < M
  /\ commitInfo' = commitInfo \cup {current}
  /\ IF current \in configurable
     THEN pc' = "make"
     ELSE pc' = "write"      \* "no configure available anymore"
  /\ UNCHANGED <<configurable, args, commitCounter, infoFile, records, lost, runs>>

\* make runs the wrapper for an object file.
Compile ==
  /\ pc = "make"
  /\ \E f \in Files : records' = records \cup {<<current, f>>}
  /\ UNCHANGED <<configurable, pc, args, commitCounter, commitInfo, infoFile, lost, runs>>

\* make ends, maybe at the first file that fails: nobody looks at retcode.
MakeEnds ==
  /\ pc = "make"
  /\ commitCounter' = current
  /\ pc' = IF commitsToHash > 0 /\ commitCounter' >= commitsToHash + commitsFrom
           THEN "write" ELSE "loop"
  /\ UNCHANGED <<configurable, args, commitInfo, infoFile, records, lost, runs>>

NoCommitLeft ==
  /\ pc = "loop" /\ commitCounter = M
  /\ pc' = "write"
  /\ UNCHANGED <<configurable, args, commitCounter, commitInfo, infoFile, records, lost, runs>>

\* Mistake: the file of commit infos is opened with 'w'.
Overwritten == <<commitInfo>>

Appended == Append(infoFile, commitInfo)

WriteInfo ==
  /\ pc = "write"
  /\ infoFile' = Appended
  /\ pc' = "idle"
  /\ UNCHANGED <<configurable, args, commitCounter, commitInfo, records, lost, runs>>

-----------------------------------------------------------------------------
(* add_commit_dates.py                                                     *)

\* Only a file of one line can be evaluated.  Opening it to write empties it.
OpenDates ==
  /\ pc = "idle" /\ Len(infoFile) = 1
  /\ commitInfo' = infoFile[1] /\ infoFile' = <<>>
  /\ pc' = "dates"
  /\ UNCHANGED <<configurable, args, commitCounter, records, lost, runs>>

WriteDates ==
  /\ pc = "dates"
  /\ infoFile' = <<commitInfo>>
  /\ pc' = "idle"
  /\ UNCHANGED <<configurable, args, commitCounter, commitInfo, records, lost, runs>>

-----------------------------------------------------------------------------

\* A script is killed, or git, diffstat or the disk fail and it raises.
Die ==
  /\ pc # "idle"
  /\ lost' = lost \cup commitInfo
  /\ pc' = "idle"
  /\ UNCHANGED <<configurable, args, commitCounter, commitInfo, infoFile, records, runs>>

Next ==
  \/ \E slice \in Slices : Start(slice)
  \/ CheckOut \/ Compile \/ MakeEnds \/ NoCommitLeft \/ WriteInfo
  \/ OpenDates \/ WriteDates \/ Die

Spec == Init /\ [][Next]_vars

-----------------------------------------------------------------------------
(* Properties.                                                             *)

\* SliceHashed: a run with a slice of at least one commit collects exactly the
\* commits of the slice, up to and with the first one without configure; so
\* slices that meet leave no commit out and take none twice.
SliceHashed ==
  pc = "write" /\ (args = <<>> \/ args[1] <= args[2]) =>
    LET slice == IF args = <<>> THEN Commits ELSE (args[1]..args[2]) \cap Commits
    IN  commitInfo = {c \in slice : \A d \in slice : d < c => d \in configurable}

\* RecordsHaveInfos: records are appended file by file, infos at the end of a run,
\* and two scripts write the file of infos.  Yet, whatever slices are run in
\* whatever order, a commit with records has its infos in that file or in the
\* script that runs, unless a script that had them in its hands has died.
RecordsHaveInfos ==
  LET running == IF pc = "idle" THEN {} ELSE commitInfo
  IN  \A r \in records :
        \/ r[1] \in running \cup lost
        \/ \E k \in DOMAIN infoFile : r[1] \in infoFile[k]
=============================================================================

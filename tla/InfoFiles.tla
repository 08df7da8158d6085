----------------------------- MODULE InfoFiles -----------------------------
(***************************************************************************)
(* The .info files between the wrapper clang-hash-collect, which appends a *)
(* record per compilation, and chashutil.py, which reads the most recent   *)
(* record of every file for clang-hash-global and dependency_analyzer.     *)
(* Nothing is locked: wrappers run in parallel with each other, with the   *)
(* reader and with test cases that delete .info files.                     *)
(*                                                                         *)
(* One directory holds the .info files of all object files; make runs one  *)
(* compilation of an object file at a time.  Compilation v of an object    *)
(* file finds the elements Elements[o][v], also if the source has errors;  *)
(* but the compiler may die before the plugin prints them.  Python writes  *)
(* a line that exceeds its buffer in pieces, here two; a piece is          *)
(* <<v, part>>.                                                            *)
(***************************************************************************)
EXTENDS Naturals, Sequences, FiniteSets, FiniteSetsExt

CONSTANTS
  Objs,          \* object files
  MaxVersion,    \* bound: compilations of each
  Elements,      \* the hash of every symbol, by object file and compilation
  Functions,     \* the symbols with a function prefix
  MaxKills,      \* bound: wrappers killed
  None

ASSUME InfoAssumption ==
  /\ MaxVersion \in Nat /\ MaxKills \in Nat
  /\ None \notin Nat /\ None \notin Seq(Nat \X {1, 2})

VARIABLES
  version,    \* the last compilation of each object file
  died,       \* the compilations whose compiler died before that
  file,       \* the pieces in each .info file, or None
  wrapper,    \* the wrapper of each object file: "idle", "record", "open",
              \* "half", or "lost" when it writes to a deleted file
  kills,
  mode,       \* which of the two readers
  reader,     \* "idle", "read", "done" or the name of an exception
  todo,       \* the files the reader has still to read
  got,        \* the record it has read of each file, or None
  local_hashes,
  known       \* what was the newest whole record of each file when the reader
              \* began, or 0, also if the file was deleted since

writing == <<version, died, wrapper, kills>>
reading == <<mode, reader, todo, got, local_hashes>>
vars == <<writing, file, reading, known>>

Empty == [x \in {} |-> x]

Init ==
  /\ version = [o \in Objs |-> 0] /\ died = {} /\ kills = 0
  /\ file = [o \in Objs |-> None] /\ wrapper = [o \in Objs |-> "idle"]
  /\ mode \in {"all", "functions"} /\ reader = "idle" /\ todo = {}
  /\ got = [o \in Objs |-> None] /\ local_hashes = Empty
  /\ known = [o \in Objs |-> 0]

-----------------------------------------------------------------------------
(* The wrapper.                                                            *)

\* The compiler has ended.  Whatever it returns, the record has the elements it
\* has printed, and no 'element-hashes' if it died before it printed them.
Compile(o) ==
  /\ wrapper[o] = "idle" /\ version[o] < MaxVersion
  /\ version' = [version EXCEPT ![o] = @ + 1]
  /\ died' \in {died, died \cup {<<o, version[o] + 1>>}}
  /\ wrapper' = [wrapper EXCEPT ![o] = "record"]
  /\ UNCHANGED <<kills, file, reading, known>>

\* open(outFilename, 'a')
Open(o) ==
  /\ wrapper[o] = "record"
  /\ wrapper' = [wrapper EXCEPT ![o] = "open"]
  /\ file' = [file EXCEPT ![o] = IF @ = None THEN <<>> ELSE @]
  /\ UNCHANGED <<version, died, kills, reading, known>>

\* The line is written in one piece or in two.
Parts == {<<1>>, <<2>>, <<1, 2>>}

Write(o, parts) ==
  /\ \/ wrapper[o] = "open" /\ parts \in {<<1>>, <<1, 2>>}
     \/ wrapper[o] = "half" /\ parts = <<2>>
  /\ file' = [file EXCEPT ![o] = @ \o [i \in DOMAIN parts |-> <<version[o], parts[i]>>]]
  /\ wrapper' = [wrapper EXCEPT ![o] = IF parts = <<1>> THEN "half" ELSE "idle"]
  /\ UNCHANGED <<version, died, kills, reading, known>>

\* What is written to a file that was deleted meanwhile.
WriteLost(o) ==
  /\ wrapper[o] = "lost"
  /\ wrapper' = [wrapper EXCEPT ![o] = "idle"]
  /\ UNCHANGED <<version, died, kills, file, reading, known>>

Kill(o) ==
  /\ wrapper[o] # "idle" /\ kills < MaxKills
  /\ wrapper' = [wrapper EXCEPT ![o] = "idle"] /\ kills' = kills + 1
  /\ UNCHANGED <<version, died, file, reading, known>>

\* A test case deletes a file.
Delete(o) ==
  /\ file[o] # None
  /\ file' = [file EXCEPT ![o] = None] /\ known' = [known EXCEPT ![o] = 0]
  /\ wrapper' = [wrapper EXCEPT ![o] = IF @ \in {"open", "half"} THEN "lost" ELSE @]
  /\ UNCHANGED <<version, died, kills, reading>>

-----------------------------------------------------------------------------
(* chashutil.py                                                            *)

Ends(pieces) == {i \in DOMAIN pieces : pieces[i][2] = 2}

\* Mistake: the first line is read.
lastLineFirst(pieces) ==
  IF Ends(pieces) = {} THEN pieces ELSE SubSeq(pieces, 1, Min(Ends(pieces)))

\* read().splitlines()[-1]
lastLine(pieces) ==
  LET before == Ends(pieces) \ {Len(pieces)}
  IN  SubSeq(pieces, (IF before = {} THEN 0 ELSE Max(before)) + 1, Len(pieces))

\* Only a line of both parts of one record is an expression.
Evaluates(line) == Len(line) = 2 /\ line[1][1] = line[2][1] /\ line[1][2] = 1 /\ line[2][2] = 2

\* Mistake: it is not caught that the file has been deleted.
get_record_from_uncaught(o) ==
  CASE file[o] = None -> "IOError"
    [] file[o] = <<>> -> "IndexError"
    [] OTHER -> IF Evaluates(lastLine(file[o])) THEN "record" ELSE "SyntaxError"

\* What comes of opening a file and evaluating its last line.
get_record_from(o) ==
  CASE file[o] = None -> "None"
    [] file[o] = <<>> -> "IndexError"
    [] OTHER -> IF Evaluates(lastLine(file[o])) THEN "record" ELSE "SyntaxError"

\* Elements of a record that are looked at: all, or the functions.
Kept(o, v) ==
  LET e == Elements[o][v]
  IN  [s \in DOMAIN e \cap (IF mode = "all" THEN DOMAIN e ELSE Functions) |-> e[s]]

\* Mistake: a duplicate with another hash overwrites.
ConflictNever(elements) == FALSE

\* "otherwise, every symbol must be unique"
Conflict(elements) ==
  \E s \in DOMAIN elements \cap DOMAIN local_hashes : local_hashes[s] # elements[s]

\* local_hashes[symbol] = elem[1], for every element
Stored(elements) ==
  [s \in DOMAIN elements \cup DOMAIN local_hashes |->
     IF s \in DOMAIN elements THEN elements[s] ELSE local_hashes[s]]

\* os.walk lists the directory.
List ==
  /\ reader = "idle"
  /\ reader' = "read" /\ todo' = {o \in Objs : file[o] # None}
  /\ known' = [o \in Objs |->
       IF file[o] = None \/ Ends(file[o]) = {} THEN 0 ELSE file[o][Max(Ends(file[o]))][1]]
  /\ UNCHANGED <<writing, file, mode, got, local_hashes>>

\* read_info_files or read_info_files_functions_only, for one file.
Read(o) ==
  /\ reader = "read" /\ o \in todo
  /\ todo' = todo \ {o}
  /\ CASE get_record_from(o) = "None" -> UNCHANGED <<reader, got, local_hashes>>
       [] get_record_from(o) = "record" ->
            LET v == lastLine(file[o])[1][1]
                elements == Kept(o, v)
            IN  IF <<o, v>> \in died \/ Conflict(elements)
                THEN /\ reader' = IF <<o, v>> \in died THEN "KeyError" ELSE "AssertionError"
                     /\ UNCHANGED <<got, local_hashes>>
                ELSE /\ got' = [got EXCEPT ![o] = v]
                     /\ local_hashes' = Stored(elements)
                     /\ UNCHANGED reader
       [] OTHER -> reader' = get_record_from(o) /\ UNCHANGED <<got, local_hashes>>
  /\ UNCHANGED <<writing, file, mode, known>>

Finish ==
  /\ reader = "read" /\ todo = {}
  /\ reader' = "done"
  /\ UNCHANGED <<writing, file, mode, todo, got, local_hashes, known>>

Next ==
  \/ \E o \in Objs : \/ Compile(o) \/ Open(o) \/ WriteLost(o) \/ Kill(o) \/ Delete(o) \/ Read(o)
                     \/ \E parts \in Parts : Write(o, parts)
  \/ List \/ Finish

Spec == Init /\ [][Next]_vars

-----------------------------------------------------------------------------
(* Properties.                                                             *)

\* MostRecent: what is read of a file is a whole record, of a compilation that
\* printed its elements and is at least as recent as the newest record that was
\* complete when the reader listed the directory; "only read most recent one".
\* Only a file that was deleted since can be left out.
MostRecent ==
  \A o \in Objs :
    /\ got[o] # None => /\ known[o] <= got[o] /\ got[o] <= version[o]
                        /\ <<o, got[o]>> \notin died
    /\ reader = "done" /\ got[o] = None => known[o] = 0

\* NotMixed: the table has the elements of every record that was read with the
\* hashes of that record, and nothing else, although the files are read one after
\* the other and object files may share a definition.
NotMixed ==
  reader = "done" =>
    LET read == {o \in Objs : got[o] # None}
    IN  /\ DOMAIN local_hashes = UNION {DOMAIN Kept(o, got[o]) : o \in read}
        /\ \A o \in read : \A s \in DOMAIN Kept(o, got[o]) : local_hashes[s] = Kept(o, got[o])[s]

\* DeletionHarmless: "prevent failing testcases when some .info files are deleted
\* by another testcase while reading": opening and evaluating a file only fails
\* while a wrapper writes to it, or when one has been killed.
DeletionHarmless ==
  reader = "read" /\ kills = 0 =>
    \A o \in todo : get_record_from(o) \in {"record", "None"} \/ wrapper[o] \in {"open", "half"}

\* ReaderSucceeds: the reader never fails over a file that is being written.  It
\* does not hold: only IOError is caught.
ReaderSucceeds == reader \notin {"SyntaxError", "IndexError"}
=============================================================================

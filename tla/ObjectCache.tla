---------------------------- MODULE ObjectCache ----------------------------
(***************************************************************************)
(* The object cache of the clang plugin (clang-plugin/clang-hash.cc): the  *)
(* lookup HandleTranslationUnit does once a translation unit is parsed and *)
(* hashed, and the atexit handler link_object_file, one action per system  *)
(* call, with the build system that starts compilers, the user who edits   *)
(* sources and the compiler's back end around them.                        *)
(*                                                                         *)
(* A build system runs at most one compiler per object file, so a compiler *)
(* process is named by the object file it produces.  Compilers of          *)
(* different object files run in parallel.                                 *)
(*                                                                         *)
(* Files are directory entries that name inodes, since the cache copies by *)
(* hard link: an object file and its copy are one inode, with one content  *)
(* and one modification time.                                              *)
(***************************************************************************)
EXTENDS Integers, FiniteSets

CONSTANTS
  Objs,            \* object files of the build, one source file each
  Versions,        \* what the source of an object file may contain
  Hashes,          \* translation unit hashes
  Inodes,          \* inodes of the file system
  Codes,           \* contents of object files
  TUHash,          \* the hash of a version: AST and command line
  Code,            \* the object code a full compilation gives a version
  FrontErrs,       \* versions the front end reports an error for
  CacheDir,        \* TRUE: $CLANG_HASH_CACHE names a shared cache directory
  Faults,          \* the faults that may happen
  MaxEdits,        \* bound on the number of edits
  MaxFaults,       \* bound on the number of faults
  NoFile,          \* an absent directory entry, an absent hash file
  Torn             \* the content of a hash file that is truncated

FaultKinds == {"crash", "backend", "syscall"}

ASSUME ConstantsAssumption ==
  /\ TUHash \in [Versions -> Hashes]
  /\ Code \in [Versions -> Codes]
  /\ FrontErrs \subseteq Versions
  /\ CacheDir \in BOOLEAN
  /\ Faults \subseteq FaultKinds
  /\ MaxEdits \in Nat
  /\ MaxFaults \in Nat
  /\ NoFile \notin Inodes \cup Hashes
  /\ Torn \notin Hashes
  /\ Torn # NoFile

(***************************************************************************)
(* What the plugin's caching rests on: two versions that compile and have  *)
(* one hash have the same object code.  A version with an error may share  *)
(* its hash with one that compiles, as the front end recovers from errors  *)
(* by leaving declarations out of the AST.                                 *)
(***************************************************************************)
ASSUME HashSound ==
  \A v, w \in Versions \ FrontErrs : TUHash[v] = TUHash[w] => Code[v] = Code[w]

VARIABLES
  src,             \* the version of each object file's source
  dir,             \* the directory: which inode each path names
  content,         \* the content of each inode
  newer,           \* <<o, i>>: inode i was modified after o's source was
  hashfile,        \* the hash file of each object file
  pc,              \* where the compiler of each object file is
  mode,            \* its atexit_mode
  ok,              \* whether it exits with status 0
  edits, faults    \* how many edits and faults there were

vars == <<src, dir, content, newer, hashfile, pc, mode, ok, edits, faults>>

Obj(o) == <<"object", o>>

\* What a copy is named after: hash.substr(0, 2) and the rest of it under the
\* cache directory, or the object file with .hash.copy appended.
CopyNames == IF CacheDir THEN Hashes ELSE Objs

\* Mistake: the name depends on neither.
OneCopyForAll(o, h) == <<"copy", CHOOSE x \in CopyNames : TRUE>>

\* ObjectCache::objectcopy_filename
objectcopy_filename(o, h) == <<"copy", IF CacheDir THEN h ELSE o>>

Paths == ({"object"} \X Objs) \cup ({"copy"} \X CopyNames)

Exists(path) == dir[path] # NoFile
Linked == {dir[path] : path \in Paths}

\* the hash_new of the compiler of o
hash_new(o) == TUHash[src[o]]

\* Mistake: the old hash is not compared.
AnyCopy(o, h) == Exists(objectcopy_filename(o, h))

\* ObjectCache::find_object_from_hash: is there a copy for hash h?
find_object_from_hash(o, h) ==
  /\ ~CacheDir => hashfile[o] = h
  /\ Exists(objectcopy_filename(o, h))

Pcs == {"idle", "parse", "backend", "stat_dst", "unlink", "stat_src", "link",
        "fopen", "fwrite", "utime", "exit"}
Modes == {"NOP", "FROM_CACHE", "TO_CACHE"}

TypeOK ==
  /\ src \in [Objs -> Versions]
  /\ dir \in [Paths -> Inodes \cup {NoFile}]
  /\ content \in [Inodes -> Codes]
  /\ newer \subseteq Objs \X Inodes
  /\ hashfile \in [Objs -> Hashes \cup {NoFile, Torn}]
  /\ pc \in [Objs -> Pcs]
  /\ mode \in [Objs -> Modes]
  /\ ok \in [Objs -> BOOLEAN]
  /\ edits \in 0..MaxEdits
  /\ faults \in 0..MaxFaults

Init ==
  /\ src \in [Objs -> Versions]
  /\ dir = [path \in Paths |-> NoFile]
  /\ content \in {[i \in Inodes |-> c] : c \in Codes}
  /\ newer = {}
  /\ hashfile = [o \in Objs |-> NoFile]
  /\ pc = [o \in Objs |-> "idle"]
  /\ mode = [o \in Objs |-> "NOP"]
  /\ ok = [o \in Objs |-> TRUE]
  /\ edits = 0
  /\ faults = 0

Idle(o) == pc[o] = "idle"

\* The build system's test: the object file exists and is newer than its source.
Fresh(o) == Exists(Obj(o)) /\ <<o, dir[Obj(o)]>> \in newer

Goto(o, label) == pc' = [pc EXCEPT ![o] = label]

MayFault(kind) ==
  /\ kind \in Faults
  /\ faults < MaxFaults
  /\ faults' = faults + 1

-----------------------------------------------------------------------------
(* The environment: the user and the build system.                         *)

\* The source of o is saved, with a new content or the old one (touch).  Nobody
\* edits a source while it is being compiled.
Edit(o, v) ==
  /\ Idle(o)
  /\ edits < MaxEdits
  /\ edits' = edits + 1
  /\ src' = [src EXCEPT ![o] = v]
  /\ newer' = {pair \in newer : pair[1] # o}
  /\ UNCHANGED <<dir, content, hashfile, pc, mode, ok, faults>>

\* The build system runs the compiler of an object file that is out of date,
\* with the plugin's -stop-if-same-hash or without it.
Start(o, StopIfSameHash) ==
  /\ Idle(o)
  /\ ~Fresh(o)
  /\ Goto(o, IF StopIfSameHash THEN "parse" ELSE "backend")
  /\ UNCHANGED <<src, dir, content, newer, hashfile, mode, ok, edits, faults>>

-----------------------------------------------------------------------------
(* The plugin.                                                             *)

\* The hash is known: stop here and take the copy, or go on and make one.
\* After an error there is no lookup, and the result will be cached.
HandleTranslationUnit(o) ==
  LET HashEqual == /\ src[o] \notin FrontErrs
                   /\ find_object_from_hash(o, hash_new(o))
  IN  /\ pc[o] = "parse"
      /\ mode' = [mode EXCEPT ![o] = IF HashEqual THEN "FROM_CACHE" ELSE "TO_CACHE"]
      /\ Goto(o, IF HashEqual THEN "stat_dst" ELSE "backend")
      /\ UNCHANGED <<src, dir, content, newer, hashfile, ok, edits, faults>>

\* Where the compiler goes when the back end is done: main returns, or exit is
\* called, and the atexit handler runs if it was registered.
AtExit(o) == IF mode[o] = "NOP" THEN "exit" ELSE "stat_dst"

\* The back end writes a temporary file and renames it to the object file.
Backend(o) ==
  /\ pc[o] = "backend"
  /\ src[o] \notin FrontErrs
  /\ \E i \in Inodes \ Linked :
       /\ dir' = [dir EXCEPT ![Obj(o)] = i]
       /\ content' = [content EXCEPT ![i] = Code[src[o]]]
       /\ newer' = newer \cup (Objs \X {i})
  /\ ok' = [ok EXCEPT ![o] = TRUE]
  /\ Goto(o, AtExit(o))
  /\ UNCHANGED <<src, hashfile, mode, edits, faults>>

\* There was an error, or the back end meets one (inline assembly that does not
\* assemble, a full disk): no rename, a status other than 0, the same handlers.
BackendFails(o) ==
  /\ pc[o] = "backend"
  /\ IF src[o] \in FrontErrs THEN faults' = faults ELSE MayFault("backend")
  /\ ok' = [ok EXCEPT ![o] = FALSE]
  /\ Goto(o, AtExit(o))
  /\ UNCHANGED <<src, dir, content, newer, hashfile, mode, edits>>

\* The two paths of link_object_file.
CopyOf(o) == objectcopy_filename(o, hash_new(o))
LinkSrc(o) == IF mode[o] = "FROM_CACHE" THEN CopyOf(o) ELSE Obj(o)
LinkDst(o) == IF mode[o] = "FROM_CACHE" THEN Obj(o) ELSE CopyOf(o)

\* Mistake: what is at the destination is not removed.
StatDstKeeps(o) ==
  /\ pc[o] = "stat_dst"
  /\ Goto(o, "stat_src")
  /\ UNCHANGED <<src, dir, content, newer, hashfile, mode, ok, edits, faults>>

\* if (stat(dst) == 0)
StatDst(o) ==
  /\ pc[o] = "stat_dst"
  /\ Goto(o, IF Exists(LinkDst(o)) THEN "unlink" ELSE "stat_src")
  /\ UNCHANGED <<src, dir, content, newer, hashfile, mode, ok, edits, faults>>

\* unlink(dst)
Unlink(o) ==
  /\ pc[o] = "unlink"
  /\ Exists(LinkDst(o))
  /\ dir' = [dir EXCEPT ![LinkDst(o)] = NoFile]
  /\ Goto(o, "stat_src")
  /\ UNCHANGED <<src, content, newer, hashfile, mode, ok, edits, faults>>

\* unlink(dst) fails, because someone else did it or for a reason of the file
\* system's: the handler returns.
UnlinkFails(o) ==
  /\ pc[o] = "unlink"
  /\ IF Exists(LinkDst(o)) THEN MayFault("syscall") ELSE faults' = faults
  /\ Goto(o, "exit")
  /\ UNCHANGED <<src, dir, content, newer, hashfile, mode, ok, edits>>

\* if (stat(src) != 0) return
StatSrc(o) ==
  /\ pc[o] = "stat_src"
  /\ Goto(o, IF Exists(LinkSrc(o)) THEN "link" ELSE "exit")
  /\ UNCHANGED <<src, dir, content, newer, hashfile, mode, ok, edits, faults>>

LinkPossible(o) == Exists(LinkSrc(o)) /\ ~Exists(LinkDst(o))

\* link(src, dst), and what is left to do after it
Link(o) ==
  /\ pc[o] = "link"
  /\ LinkPossible(o)
  /\ dir' = [dir EXCEPT ![LinkDst(o)] = dir[LinkSrc(o)]]
  /\ Goto(o, CASE mode[o] = "FROM_CACHE" -> "utime"
               [] mode[o] # "FROM_CACHE" /\ CacheDir -> "exit"
               [] mode[o] # "FROM_CACHE" /\ ~CacheDir -> "fopen")
  /\ UNCHANGED <<src, content, newer, hashfile, mode, ok, edits, faults>>

\* Mistake: the return after a failed link is missing.
LinkFailsGoesOn(o) ==
  /\ pc[o] = "link"
  /\ IF LinkPossible(o) THEN MayFault("syscall") ELSE faults' = faults
  /\ Goto(o, IF mode[o] = "FROM_CACHE" THEN "utime" ELSE "exit")
  /\ UNCHANGED <<src, dir, content, newer, hashfile, mode, ok, edits>>

\* link(src, dst) fails: the handler returns.
LinkFails(o) ==
  /\ pc[o] = "link"
  /\ IF LinkPossible(o) THEN MayFault("syscall") ELSE faults' = faults
  /\ Goto(o, "exit")
  /\ UNCHANGED <<src, dir, content, newer, hashfile, mode, ok, edits>>

\* fopen(hashfile, "w+") truncates the hash file; what fwrite buffers reaches it
\* with fclose.  A hash file that is torn matches no hash.
OpenHashfile(o) ==
  /\ pc[o] = "fopen"
  /\ hashfile' = [hashfile EXCEPT ![o] = Torn]
  /\ Goto(o, "fwrite")
  /\ UNCHANGED <<src, dir, content, newer, mode, ok, edits, faults>>

\* Mistake: the hash is never written.
WriteNothing(o) ==
  /\ pc[o] = "fwrite"
  /\ Goto(o, "exit")
  /\ UNCHANGED <<src, dir, content, newer, hashfile, mode, ok, edits, faults>>

WriteHashfile(o) ==
  /\ pc[o] = "fwrite"
  /\ hashfile' = [hashfile EXCEPT ![o] = hash_new(o)]
  /\ Goto(o, "exit")
  /\ UNCHANGED <<src, dir, content, newer, mode, ok, edits, faults>>

\* Mistake: the time stamp of the copy stays.
NoUtime(o) ==
  /\ pc[o] = "utime"
  /\ Goto(o, "exit")
  /\ UNCHANGED <<src, dir, content, newer, hashfile, mode, ok, edits, faults>>

\* utime(dst, NULL): the inode, under all its names, is newer than every source.
Utime(o) ==
  /\ pc[o] = "utime"
  /\ newer' = newer \cup (Objs \X {dir[Obj(o)]})
  /\ Goto(o, "exit")
  /\ UNCHANGED <<src, dir, content, hashfile, mode, ok, edits, faults>>

-----------------------------------------------------------------------------
(* The end of a compiler process.                                          *)

Reset(o) ==
  /\ Goto(o, "idle")
  /\ mode' = [mode EXCEPT ![o] = "NOP"]
  /\ ok' = [ok EXCEPT ![o] = TRUE]

\* The compiler driver removes the object file of a compilation that failed.
Exit(o) ==
  /\ pc[o] = "exit"
  /\ dir' = IF ok[o] THEN dir ELSE [dir EXCEPT ![Obj(o)] = NoFile]
  /\ Reset(o)
  /\ UNCHANGED <<src, content, newer, hashfile, edits, faults>>

\* The compiler is killed.  Driver or build system may remove the object file.
Crash(o) ==
  /\ pc[o] \notin {"idle", "exit"}
  /\ MayFault("crash")
  /\ dir' \in {dir, [dir EXCEPT ![Obj(o)] = NoFile]}
  /\ Reset(o)
  /\ UNCHANGED <<src, content, newer, hashfile, edits>>

Step(o) ==
  \/ HandleTranslationUnit(o)
  \/ Backend(o)
  \/ BackendFails(o)
  \/ StatDst(o)
  \/ Unlink(o)
  \/ UnlinkFails(o)
  \/ StatSrc(o)
  \/ Link(o)
  \/ LinkFails(o)
  \/ OpenHashfile(o)
  \/ WriteHashfile(o)
  \/ Utime(o)
  \/ Exit(o)

Next ==
  \E o \in Objs :
    \/ \E v \in Versions : Edit(o, v)
    \/ \E StopIfSameHash \in BOOLEAN : Start(o, StopIfSameHash)
    \/ Step(o)
    \/ Crash(o)

Spec == Init /\ [][Next]_vars

(***************************************************************************)
(* A compiler process that can take a step takes one, and the build system *)
(* gets around to an object file that stays out of date.  Nothing forces   *)
(* an edit or a fault.                                                     *)
(***************************************************************************)
Fairness ==
  \A o \in Objs :
    /\ WF_vars(Step(o))
    /\ WF_vars(\E StopIfSameHash \in BOOLEAN : Start(o, StopIfSameHash))

FairSpec == Spec /\ Fairness

-----------------------------------------------------------------------------
(* Properties.                                                             *)

Holds(o, v) == content[dir[Obj(o)]] = Code[v]

\* Served: a compiler that reports success (exit(0) on a hit, the normal end of a
\* compilation otherwise) leaves the object file a full compilation of the current
\* source gives.  README: clang-hash-stop "can be used exactly as clang would be".
Served ==
  \A o \in Objs : pc[o] = "exit" /\ ok[o] => Exists(Obj(o)) /\ Holds(o, src[o])

\* ServedNotWrong: the part of Served a shared cache directory keeps.  An object
\* file may be missing when link_object_file found its copy gone, but never holds
\* the code of another version.
ServedNotWrong ==
  \A o \in Objs : pc[o] = "exit" /\ ok[o] /\ Exists(Obj(o)) => Holds(o, src[o])

\* UpToDate: an object file the build system takes for up to date is, whatever
\* sequence of edits, hits and misses gave it its content and modification time.
UpToDate ==
  \A o \in Objs : Idle(o) /\ Fresh(o) => Holds(o, src[o])

\* CopySound: whatever version the user edits a source to, a lookup
\* (find_object_from_hash) that succeeds finds the object code of that version.
CopySound ==
  \A o \in Objs, v \in Versions \ FrontErrs :
    Idle(o) /\ find_object_from_hash(o, TUHash[v]) =>
      content[dir[objectcopy_filename(o, TUHash[v])]] = Code[v]

\* RebuildSkips: once a compilation under -stop-if-same-hash succeeded, the next
\* one of the same source is skipped: hash file and copy are in place together.
RebuildSkips ==
  \A o \in Objs :
    pc[o] = "exit" /\ ok[o] /\ mode[o] # "NOP" => find_object_from_hash(o, hash_new(o))

\* Another object file's compiler moved: o is what it was to the build system.
Undisturbed(o) ==
  pc'[o] = pc[o] /\ edits' = edits =>
    /\ Fresh(o)' = Fresh(o)
    /\ Exists(Obj(o)) => Exists(Obj(o))' /\ (Holds(o, src[o])' = Holds(o, src[o]))

AllUndisturbed == \A o \in Objs : Undisturbed(o)

\* Isolation: no step of the compiler of another object file changes what an
\* object file holds or whether the build system takes it for up to date.
Isolation == [][AllUndisturbed]_vars

\* Converges: once edits and faults end, every object file is some day up to date
\* for the build system and stays so: no hit leaves a time stamp that makes the
\* build system run the compiler for ever (the reason for utime).
Converges == <>[](\A o \in Objs : Idle(o) /\ Fresh(o))

(***************************************************************************)
(* The plugin as a compiler: see the module Compiler.                      *)
(***************************************************************************)
AsCompiler ==
  INSTANCE Compiler WITH
    out   <- [o \in Objs |-> IF Exists(Obj(o)) THEN content[dir[Obj(o)]] ELSE NoFile],
    fresh <- [o \in Objs |-> Fresh(o)],
    busy  <- [o \in Objs |-> ~Idle(o)]

\* ImplementsCompiler: with the cache next to each object file and no faults,
\* clang-hash-stop implements a compiler.
ImplementsCompiler == AsCompiler!Spec
=============================================================================

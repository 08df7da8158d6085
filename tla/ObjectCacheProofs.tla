------------------------- MODULE ObjectCacheProofs -------------------------
(***************************************************************************)
(* Theorems about ObjectCache for every set of object files, versions and  *)
(* inodes, every number of edits and, where they are allowed, of faults.   *)
(***************************************************************************)
EXTENDS ObjectCache, TLAPS

-----------------------------------------------------------------------------
(* Paths.                                                                  *)

\* The paths of object files and of copies are paths, and an object file is
\* never a copy.
LEMMA PathFacts ==
  /\ \A o \in Objs : Obj(o) \in Paths
  /\ \A o \in Objs, h \in Hashes : objectcopy_filename(o, h) \in Paths
  /\ \A o, q \in Objs : Obj(o) = Obj(q) => o = q
  /\ \A o, q \in Objs, h \in Hashes : Obj(o) # objectcopy_filename(q, h)
BY ConstantsAssumption DEF Obj, objectcopy_filename, Paths, CopyNames

\* The hash and both paths of a running compiler are what their names say.
LEMMA RunFacts ==
  ASSUME TypeOK, NEW o \in Objs
  PROVE  /\ hash_new(o) \in Hashes
         /\ CopyOf(o) \in Paths
         /\ LinkSrc(o) \in Paths
         /\ LinkDst(o) \in Paths
         /\ dir[LinkSrc(o)] \in Inodes \cup {NoFile}
         /\ dir[LinkDst(o)] \in Inodes \cup {NoFile}
         /\ dir[Obj(o)] \in Inodes \cup {NoFile}
BY PathFacts, ConstantsAssumption
   DEF TypeOK, hash_new, CopyOf, LinkSrc, LinkDst

-----------------------------------------------------------------------------
(* Types.                                                                  *)

\* Every step keeps the types, in every mode and under every fault, provided
\* utime finds the object file link just made.
UtimeFindsObject == \A o \in Objs : pc[o] = "utime" => mode[o] = "FROM_CACHE" /\ Exists(Obj(o))

TypeInv == TypeOK /\ UtimeFindsObject

LEMMA TypeInit == Init => TypeInv
BY ConstantsAssumption DEF Init, TypeInv, TypeOK, UtimeFindsObject, Pcs, Modes

LEMMA TypeStep == TypeInv /\ [Next]_vars => TypeInv'
<1> SUFFICES ASSUME TypeInv, [Next]_vars
             PROVE  TypeInv'
    OBVIOUS
<1> USE DEF TypeInv
<1>1. CASE UNCHANGED vars
  BY <1>1 DEF vars, TypeOK, UtimeFindsObject, Exists
<1>2. ASSUME NEW o \in Objs, NEW v \in Versions, Edit(o, v)
      PROVE  TypeInv'
  BY <1>2, ConstantsAssumption DEF Edit, Idle, TypeOK, UtimeFindsObject, Exists
<1>3. ASSUME NEW o \in Objs, NEW b \in BOOLEAN, Start(o, b)
      PROVE  TypeInv'
  BY <1>3 DEF Start, Goto, TypeOK, UtimeFindsObject, Exists, Pcs
<1>4. ASSUME NEW o \in Objs, HandleTranslationUnit(o)
      PROVE  TypeInv'
  BY <1>4 DEF HandleTranslationUnit, Goto, TypeOK, UtimeFindsObject, Exists, Pcs, Modes
<1>5. ASSUME NEW o \in Objs, Backend(o)
      PROVE  TypeInv'
  BY <1>5, PathFacts, ConstantsAssumption
     DEF Backend, AtExit, Goto, TypeOK, UtimeFindsObject, Exists, Pcs
<1>6. ASSUME NEW o \in Objs, BackendFails(o)
      PROVE  TypeInv'
  BY <1>6, ConstantsAssumption
     DEF BackendFails, MayFault, AtExit, Goto, TypeOK, UtimeFindsObject, Exists, Pcs
<1>7. ASSUME NEW o \in Objs, StatDst(o)
      PROVE  TypeInv'
  BY <1>7 DEF StatDst, Goto, TypeOK, UtimeFindsObject, Exists, Pcs
<1>8. ASSUME NEW o \in Objs, Unlink(o)
      PROVE  TypeInv'
  BY <1>8, RunFacts, PathFacts
     DEF Unlink, Goto, TypeOK, UtimeFindsObject, Exists, Pcs, LinkDst, CopyOf, hash_new
<1>9. ASSUME NEW o \in Objs, UnlinkFails(o)
      PROVE  TypeInv'
  BY <1>9, ConstantsAssumption
     DEF UnlinkFails, MayFault, Goto, TypeOK, UtimeFindsObject, Exists, Pcs
<1>10. ASSUME NEW o \in Objs, StatSrc(o)
       PROVE  TypeInv'
  BY <1>10 DEF StatSrc, Goto, TypeOK, UtimeFindsObject, Exists, Pcs
<1>11. ASSUME NEW o \in Objs, Link(o)
       PROVE  TypeInv'
  <2> USE <1>11, RunFacts, PathFacts DEF Link, LinkPossible, Goto
  <2>1. TypeOK'
    BY DEF TypeOK, Pcs
  <2>2. UtimeFindsObject'
    BY ConstantsAssumption DEF TypeOK, UtimeFindsObject, Exists, LinkDst, LinkSrc, CopyOf, hash_new
  <2> QED BY <2>1, <2>2
<1>12. ASSUME NEW o \in Objs, LinkFails(o)
       PROVE  TypeInv'
  BY <1>12, ConstantsAssumption
     DEF LinkFails, MayFault, Goto, TypeOK, UtimeFindsObject, Exists, Pcs
<1>13. ASSUME NEW o \in Objs, OpenHashfile(o)
       PROVE  TypeInv'
  BY <1>13 DEF OpenHashfile, Goto, TypeOK, UtimeFindsObject, Exists, Pcs
<1>14. ASSUME NEW o \in Objs, WriteHashfile(o)
       PROVE  TypeInv'
  BY <1>14, RunFacts DEF WriteHashfile, Goto, TypeOK, UtimeFindsObject, Exists, Pcs
<1>15. ASSUME NEW o \in Objs, Utime(o)
       PROVE  TypeInv'
  BY <1>15, RunFacts DEF Utime, Goto, TypeOK, UtimeFindsObject, Exists, Pcs
<1>16. ASSUME NEW o \in Objs, Exit(o)
       PROVE  TypeInv'
  BY <1>16, PathFacts DEF Exit, Reset, Goto, TypeOK, UtimeFindsObject, Exists, Pcs, Modes
<1>17. ASSUME NEW o \in Objs, Crash(o)
       PROVE  TypeInv'
  BY <1>17, PathFacts, ConstantsAssumption
     DEF Crash, MayFault, Reset, Goto, TypeOK, UtimeFindsObject, Exists, Pcs, Modes
<1> QED
  BY <1>1, <1>2, <1>3, <1>4, <1>5, <1>6, <1>7, <1>8, <1>9, <1>10, <1>11, <1>12,
     <1>13, <1>14, <1>15, <1>16, <1>17 DEF Next, Step

\* Type correctness of the object cache in every mode and under every fault:
\* in particular utime is only called on an object file that is there.
THEOREM TypeCorrect == Spec => []TypeOK
<1>1. TypeInv => TypeOK
  BY DEF TypeInv
<1> QED
  BY <1>1, TypeInit, TypeStep, PTL DEF Spec

-----------------------------------------------------------------------------
(* A shared cache directory.                                               *)

AtExitPcs == {"stat_dst", "unlink", "stat_src", "link", "fopen", "fwrite", "utime"}

\* The mode a compiler is in, by where it is: nothing is decided before the
\* lookup, the back end never runs on a hit, and the handler has a mode.
ModeOK ==
  \A o \in Objs :
    /\ pc[o] \in {"idle", "parse"} => mode[o] = "NOP"
    /\ pc[o] = "backend" => mode[o] # "FROM_CACHE"
    /\ pc[o] \in AtExitPcs => mode[o] # "NOP"
    /\ pc[o] \in {"fopen", "fwrite"} => mode[o] = "TO_CACHE" /\ ~CacheDir

\* Without errors, every exit status is 0.
NoErrors == \A o \in Objs : ok[o]

\* Every copy holds the code of each version that has its hash.
Coherent ==
  \A o \in Objs, v \in Versions :
    Exists(objectcopy_filename(o, TUHash[v])) =>
      content[dir[objectcopy_filename(o, TUHash[v])]] = Code[v]

\* The object file that link_object_file copies to the cache is the one the
\* back end just wrote.
Compiled ==
  \A o \in Objs :
    mode[o] = "TO_CACHE" /\ pc[o] # "backend" => Exists(Obj(o)) /\ Holds(o, src[o])

DirInv == ModeOK /\ NoErrors /\ Coherent /\ Compiled

\* What a compiler does to object files and copies other than its own: nothing.
\* A new inode is one that no path names.
LEMMA NewInode ==
  ASSUME TypeOK, NEW i \in Inodes \ Linked, NEW path \in Paths
  PROVE  dir[path] # i
BY DEF Linked, TypeOK

LEMMA DirInit == Init => DirInv
BY PathFacts, ConstantsAssumption
   DEF Init, DirInv, ModeOK, NoErrors, Coherent, Compiled, Exists, AtExitPcs

LEMMA DirStep ==
  ASSUME CacheDir = TRUE, "backend" \notin Faults, FrontErrs = {},
         TypeInv, DirInv, [Next]_vars
  PROVE  DirInv'
<1> USE DEF DirInv, TypeInv, AtExitPcs
<1> DEFINE Copy(h) == <<"copy", h>>
<1>0. /\ \A q \in Objs, h \in Hashes : objectcopy_filename(q, h) = Copy(h)
      /\ \A h \in Hashes : Copy(h) \in Paths
      /\ \A q \in Objs, h \in Hashes : Copy(h) # Obj(q)
      /\ \A h, k \in Hashes : Copy(h) = Copy(k) => h = k
  BY PathFacts DEF objectcopy_filename, Paths, CopyNames, Obj
<1> HIDE DEF Copy
<1>1. CASE UNCHANGED vars
  BY <1>1 DEF vars, ModeOK, NoErrors, Coherent, Compiled, Exists, Holds
<1>2. ASSUME NEW o \in Objs, NEW v \in Versions, Edit(o, v)
      PROVE  DirInv'
  BY <1>2 DEF Edit, Idle, TypeOK, ModeOK, NoErrors, Coherent, Compiled, Exists, Holds
<1>3. ASSUME NEW o \in Objs, NEW b \in BOOLEAN, Start(o, b)
      PROVE  DirInv'
  BY <1>3 DEF Start, Goto, Idle, TypeOK, ModeOK, NoErrors, Coherent, Compiled, Exists, Holds
<1>4. ASSUME NEW o \in Objs, HandleTranslationUnit(o)
      PROVE  DirInv'
  BY <1>4 DEF HandleTranslationUnit, Goto, TypeOK, ModeOK, NoErrors, Coherent, Compiled,
              Exists, Holds
<1>5. ASSUME NEW o \in Objs, Backend(o)
      PROVE  DirInv'
  <2>1. PICK i \in Inodes \ Linked :
           /\ dir' = [dir EXCEPT ![Obj(o)] = i]
           /\ content' = [content EXCEPT ![i] = Code[src[o]]]
    BY <1>5 DEF Backend
  <2>2. ModeOK' /\ NoErrors'
    BY <1>5 DEF Backend, AtExit, Goto, TypeOK, ModeOK, NoErrors
  <2>3. Coherent'
    BY <1>0, <2>1, PathFacts, NewInode, ConstantsAssumption DEF TypeOK, Coherent, Exists
  <2>4. Compiled'
    BY <1>5, <2>1, PathFacts, NewInode, ConstantsAssumption
       DEF Backend, AtExit, Goto, TypeOK, Compiled, Exists, Holds
  <2> QED BY <2>2, <2>3, <2>4
<1>6. ASSUME NEW o \in Objs, BackendFails(o)
      PROVE  DirInv'
  BY <1>6 DEF BackendFails, MayFault
<1>7. ASSUME NEW o \in Objs, StatDst(o)
      PROVE  DirInv'
  BY <1>7 DEF StatDst, Goto, TypeOK, ModeOK, NoErrors, Coherent, Compiled, Exists, Holds
<1>8. ASSUME NEW o \in Objs, Unlink(o)
      PROVE  DirInv'
  <2>1. ModeOK' /\ NoErrors'
    BY <1>8 DEF Unlink, Goto, TypeOK, ModeOK, NoErrors
  <2>2. Coherent'
    BY <1>8, <1>0, RunFacts, ConstantsAssumption DEF Unlink, TypeOK, Coherent, Exists
  <2>3. Compiled'
    BY <1>8, <1>0, RunFacts, PathFacts
       DEF Unlink, Goto, TypeOK, Compiled, Exists, Holds, LinkDst, CopyOf
  <2> QED BY <2>1, <2>2, <2>3
<1>9. ASSUME NEW o \in Objs, UnlinkFails(o)
      PROVE  DirInv'
  BY <1>9 DEF UnlinkFails, Goto, TypeOK, ModeOK, NoErrors, Coherent, Compiled, Exists, Holds
<1>10. ASSUME NEW o \in Objs, StatSrc(o)
       PROVE  DirInv'
  BY <1>10 DEF StatSrc, Goto, TypeOK, ModeOK, NoErrors, Coherent, Compiled, Exists, Holds
<1>11. ASSUME NEW o \in Objs, Link(o)
       PROVE  DirInv'
  <2>1. ModeOK' /\ NoErrors'
    BY <1>11 DEF Link, Goto, TypeOK, ModeOK, NoErrors, Modes
  <2>2. Coherent'
    <3> SUFFICES ASSUME NEW q \in Objs, NEW v \in Versions, dir'[Copy(TUHash[v])] # NoFile
                 PROVE  content'[dir'[Copy(TUHash[v])]] = Code[v]
      BY <1>0, ConstantsAssumption DEF Coherent, Exists
    <3>1. CASE mode[o] = "FROM_CACHE"
      BY <1>11, <3>1, <1>0, ConstantsAssumption
         DEF Link, TypeOK, Coherent, Exists, LinkDst
    <3>2. CASE mode[o] # "FROM_CACHE" /\ TUHash[v] # TUHash[src[o]]
      BY <1>11, <3>2, <1>0, ConstantsAssumption
         DEF Link, TypeOK, Coherent, Exists, LinkDst, CopyOf, hash_new
    <3>3. CASE mode[o] # "FROM_CACHE" /\ TUHash[v] = TUHash[src[o]]
      <4>1. mode[o] = "TO_CACHE" /\ pc[o] # "backend"
        BY <1>11, <3>3 DEF Link, ModeOK, TypeOK, Modes
      <4>2. Holds(o, src[o]) /\ Code[v] = Code[src[o]]
        BY <4>1, <3>3, HashSound DEF Compiled, TypeOK
      <4> QED
        BY <1>11, <3>3, <4>2, <1>0, ConstantsAssumption
           DEF Link, TypeOK, Holds, LinkDst, LinkSrc, CopyOf, hash_new
    <3> QED BY <3>1, <3>2, <3>3
  <2>3. Compiled'
    BY <1>11, <1>0, RunFacts, PathFacts
       DEF Link, Goto, TypeOK, Compiled, Exists, Holds, LinkDst, CopyOf
  <2> QED BY <2>1, <2>2, <2>3
<1>12. ASSUME NEW o \in Objs, LinkFails(o)
       PROVE  DirInv'
  BY <1>12 DEF LinkFails, Goto, TypeOK, ModeOK, NoErrors, Coherent, Compiled, Exists, Holds
<1>13. ASSUME NEW o \in Objs, OpenHashfile(o)
       PROVE  DirInv'
  BY <1>13 DEF OpenHashfile, Goto, TypeOK, ModeOK, NoErrors, Coherent, Compiled, Exists, Holds
<1>14. ASSUME NEW o \in Objs, WriteHashfile(o)
       PROVE  DirInv'
  BY <1>14 DEF WriteHashfile, Goto, TypeOK, ModeOK, NoErrors, Coherent, Compiled, Exists, Holds
<1>15. ASSUME NEW o \in Objs, Utime(o)
       PROVE  DirInv'
  BY <1>15 DEF Utime, Goto, TypeOK, ModeOK, NoErrors, Coherent, Compiled, Exists, Holds
<1>16. ASSUME NEW o \in Objs, Exit(o)
       PROVE  DirInv'
  BY <1>16 DEF Exit, Reset, Goto, TypeOK, ModeOK, NoErrors, Coherent, Compiled, Exists, Holds
<1>17. ASSUME NEW o \in Objs, Crash(o)
       PROVE  DirInv'
  <2>1. ModeOK' /\ NoErrors'
    BY <1>17 DEF Crash, Reset, Goto, TypeOK, ModeOK, NoErrors
  <2>2. Coherent'
    BY <1>17, <1>0, PathFacts, ConstantsAssumption DEF Crash, TypeOK, Coherent, Exists
  <2>3. Compiled'
    BY <1>17, PathFacts DEF Crash, Reset, Goto, TypeOK, Compiled, Exists, Holds
  <2> QED BY <2>1, <2>2, <2>3
<1> QED
  BY <1>1, <1>2, <1>3, <1>4, <1>5, <1>6, <1>7, <1>8, <1>9, <1>10, <1>11, <1>12,
     <1>13, <1>14, <1>15, <1>16, <1>17 DEF Next, Step

\* With a shared cache directory, however compilers of any number of object
\* files interleave, whatever they are killed in the middle of and whichever
\* unlink or link fails, a lookup never finds the object code of another version,
\* as long as no compilation ends in an error.
THEOREM DirCopySound ==
  ASSUME CacheDir = TRUE, "backend" \notin Faults, FrontErrs = {}
  PROVE  Spec => []CopySound
<1>1. DirInv => CopySound
  BY DEF DirInv, Coherent, CopySound, find_object_from_hash
<1>2. TypeInv /\ DirInv /\ [Next]_vars => DirInv'
  BY DirStep
<1> QED
  BY <1>1, <1>2, TypeInit, TypeStep, DirInit, PTL DEF Spec

\* On a hit, the handler's view of the object file: gone once unlinked, and the
\* copy of the right version once linked; a plain compilation ends with its own.
OwnObject ==
  \A o \in Objs :
    /\ mode[o] = "FROM_CACHE" /\ pc[o] \in {"stat_src", "link"} => ~Exists(Obj(o))
    /\ pc[o] = "exit" /\ Exists(Obj(o)) => Holds(o, src[o])
    /\ pc[o] = "utime" => Holds(o, src[o])

LEMMA OwnInit == Init => OwnObject
BY DEF Init, OwnObject

LEMMA OwnStep ==
  ASSUME CacheDir = TRUE, Faults \subseteq {"crash"}, FrontErrs = {},
         TypeInv, DirInv, OwnObject, [Next]_vars
  PROVE  OwnObject'
<1> USE DEF DirInv, TypeInv, AtExitPcs
<1>0. \A o \in Objs : CopyOf(o) \in Paths /\ \A q \in Objs : CopyOf(o) # Obj(q)
  BY PathFacts, RunFacts DEF CopyOf, hash_new
<1>1. CASE UNCHANGED vars
  BY <1>1 DEF vars, OwnObject, Exists, Holds
<1>2. ASSUME NEW o \in Objs, NEW v \in Versions, Edit(o, v)
      PROVE  OwnObject'
  BY <1>2 DEF Edit, Idle, TypeOK, OwnObject, Exists, Holds
<1>3. ASSUME NEW o \in Objs, NEW b \in BOOLEAN, Start(o, b)
      PROVE  OwnObject'
  BY <1>3 DEF Start, Goto, TypeOK, OwnObject, Exists, Holds
<1>4. ASSUME NEW o \in Objs, HandleTranslationUnit(o)
      PROVE  OwnObject'
  BY <1>4 DEF HandleTranslationUnit, Goto, TypeOK, OwnObject, Exists, Holds
<1>5. ASSUME NEW o \in Objs, Backend(o)
      PROVE  OwnObject'
  <2>1. PICK i \in Inodes \ Linked :
           /\ dir' = [dir EXCEPT ![Obj(o)] = i]
           /\ content' = [content EXCEPT ![i] = Code[src[o]]]
    BY <1>5 DEF Backend
  <2>2. /\ UNCHANGED <<src, mode>>
        /\ pc' = [pc EXCEPT ![o] = AtExit(o)]
        /\ AtExit(o) \in {"exit", "stat_dst"}
    BY <1>5 DEF Backend, AtExit, Goto
  <2>3. /\ dir'[Obj(o)] = i
        /\ content'[i] = Code[src[o]]
        /\ \A q \in Objs : q # o => dir'[Obj(q)] = dir[Obj(q)] /\ dir[Obj(q)] # i
    BY <2>1, PathFacts, NewInode DEF TypeOK
  <2>4. \A q \in Objs : q # o /\ dir[Obj(q)] # NoFile =>
                          content'[dir[Obj(q)]] = content[dir[Obj(q)]]
    BY <2>1, <2>3, PathFacts DEF TypeOK
  <2>5. \A q \in Objs : pc[q] = "utime" => Exists(Obj(q))
    BY DEF UtimeFindsObject
  <2> QED
    BY <2>2, <2>3, <2>4, <2>5 DEF TypeOK, OwnObject, Exists, Holds
<1>6. ASSUME NEW o \in Objs, BackendFails(o)
      PROVE  OwnObject'
  BY <1>6 DEF BackendFails, MayFault
<1>7. ASSUME NEW o \in Objs, StatDst(o)
      PROVE  OwnObject'
  BY <1>7 DEF StatDst, Goto, TypeOK, OwnObject, Exists, Holds, LinkDst
<1>8. ASSUME NEW o \in Objs, Unlink(o)
      PROVE  OwnObject'
  BY <1>8, <1>0, PathFacts DEF Unlink, Goto, TypeOK, OwnObject, Exists, Holds, LinkDst
<1>9. ASSUME NEW o \in Objs, UnlinkFails(o)
      PROVE  OwnObject'
  BY <1>9 DEF UnlinkFails, MayFault, Goto, TypeOK, OwnObject, Exists, Holds, LinkDst,
              ModeOK, Compiled, Modes
<1>10. ASSUME NEW o \in Objs, StatSrc(o)
       PROVE  OwnObject'
  BY <1>10 DEF StatSrc, Goto, TypeOK, OwnObject, Exists, Holds, ModeOK, Compiled, Modes
<1>11. ASSUME NEW o \in Objs, Link(o)
       PROVE  OwnObject'
  <2>1. CASE mode[o] = "FROM_CACHE"
    <3>1. content[dir[CopyOf(o)]] = Code[src[o]]
      BY <1>11, <2>1 DEF Link, LinkPossible, LinkSrc, CopyOf, hash_new, Coherent, TypeOK
    <3> QED
      BY <1>11, <2>1, <3>1, <1>0, PathFacts
         DEF Link, Goto, TypeOK, OwnObject, Exists, Holds, LinkDst, LinkSrc
  <2>2. CASE mode[o] # "FROM_CACHE"
    BY <1>11, <2>2, <1>0, PathFacts
       DEF Link, Goto, TypeOK, OwnObject, Exists, Holds, LinkDst, ModeOK, Compiled, Modes
  <2> QED BY <2>1, <2>2
<1>12. ASSUME NEW o \in Objs, LinkFails(o)
       PROVE  OwnObject'
  BY <1>12 DEF LinkFails, MayFault, LinkPossible, LinkSrc, LinkDst, Goto, TypeOK, OwnObject,
               Exists, Holds, ModeOK, Compiled, Modes
<1>13. ASSUME NEW o \in Objs, OpenHashfile(o)
       PROVE  OwnObject'
  BY <1>13 DEF OpenHashfile, Goto, TypeOK, OwnObject, Exists, Holds
<1>14. ASSUME NEW o \in Objs, WriteHashfile(o)
       PROVE  OwnObject'
  BY <1>14 DEF WriteHashfile, ModeOK
<1>15. ASSUME NEW o \in Objs, Utime(o)
       PROVE  OwnObject'
  BY <1>15 DEF Utime, Goto, TypeOK, OwnObject, Exists, Holds
<1>16. ASSUME NEW o \in Objs, Exit(o)
       PROVE  OwnObject'
  BY <1>16 DEF Exit, Reset, Goto, TypeOK, OwnObject, Exists, Holds, NoErrors
<1>17. ASSUME NEW o \in Objs, Crash(o)
       PROVE  OwnObject'
  BY <1>17, PathFacts DEF Crash, Reset, Goto, TypeOK, OwnObject, Exists, Holds
<1> QED
  BY <1>1, <1>2, <1>3, <1>4, <1>5, <1>6, <1>7, <1>8, <1>9, <1>10, <1>11, <1>12,
     <1>13, <1>14, <1>15, <1>16, <1>17 DEF Next, Step

\* With a shared cache directory and compilers that may be killed, a compiler
\* that exits with status 0 never leaves the object code of another version: if
\* the race for the copy (unlink by another compiler) is lost, there is no object
\* file at all.
THEOREM DirServedNotWrong ==
  ASSUME CacheDir = TRUE, Faults \subseteq {"crash"}, FrontErrs = {}
  PROVE  Spec => []ServedNotWrong
<1>1. OwnObject => ServedNotWrong
  BY DEF OwnObject, ServedNotWrong
<1>2. TypeInv /\ DirInv /\ [Next]_vars => DirInv'
  BY DirStep
<1>3. TypeInv /\ DirInv /\ OwnObject /\ [Next]_vars => OwnObject'
  BY OwnStep
<1> QED
  BY <1>1, <1>2, <1>3, TypeInit, TypeStep, DirInit, OwnInit, PTL DEF Spec

-----------------------------------------------------------------------------
(* The cache next to each object file.                                     *)

Copy(o) == <<"copy", o>>

Same(path) ==
  /\ dir'[path] = dir[path]
  /\ dir[path] # NoFile => content'[dir[path]] = content[dir[path]]

\* Nothing about object file o changes.
Unaffected(o) ==
  /\ src'[o] = src[o]
  /\ hashfile'[o] = hashfile[o]
  /\ pc'[o] = pc[o]
  /\ mode'[o] = mode[o]
  /\ Same(Obj(o))
  /\ Same(Copy(o))
  /\ Fresh(o)' <=> Fresh(o)

\* No inode is shared by two object files, through their copies or not.
Disjoint ==
  \A o, q \in Objs : o # q =>
    \A a \in {Obj(o), Copy(o)}, b \in {Obj(q), Copy(q)} :
      dir[a] # NoFile => dir[a] # dir[b]

\* The object file is what a full compilation of the source gives.
Built(o) == Exists(Obj(o)) /\ Holds(o, src[o])

\* The copy is there and holds the code of the source.
CopyHolds(o) == Exists(Copy(o)) /\ content[dir[Copy(o)]] = Code[src[o]]

\* Hash file and copy agree, except between link and fopen.
HashMatchesCopy(o) ==
  pc[o] # "fopen" /\ Exists(Copy(o)) =>
    \A v \in Versions : hashfile[o] = TUHash[v] => content[dir[Copy(o)]] = Code[v]

\* A hit: the copy stays what the lookup found, the object file is removed,
\* linked and made newer than the source.
HitOK(o) ==
  mode[o] = "FROM_CACHE" =>
    /\ hashfile[o] = hash_new(o)
    /\ CopyHolds(o)
    /\ pc[o] = "unlink" => Exists(Obj(o))
    /\ pc[o] \in {"stat_src", "link"} => ~Exists(Obj(o))
    /\ pc[o] \in {"utime", "exit"} => Built(o)
    /\ pc[o] = "exit" => Fresh(o)

\* A miss: the object file stays what the back end wrote, the old copy is
\* removed, the new one linked and its hash recorded.
MissOK(o) ==
  mode[o] = "TO_CACHE" /\ pc[o] # "backend" =>
    /\ Built(o)
    /\ Fresh(o)
    /\ pc[o] = "unlink" => Exists(Copy(o))
    /\ pc[o] \in {"stat_src", "link"} => ~Exists(Copy(o))
    /\ pc[o] \in {"fopen", "fwrite", "exit"} => CopyHolds(o)
    /\ pc[o] = "exit" => hashfile[o] = hash_new(o)

\* No compiler, or one without the plugin.
QuietOK(o) ==
  /\ pc[o] = "idle" /\ Fresh(o) => Built(o)
  /\ pc[o] = "exit" /\ mode[o] = "NOP" => Built(o) /\ Fresh(o)

LocalOK(o) == HashMatchesCopy(o) /\ HitOK(o) /\ MissOK(o) /\ QuietOK(o)

LocalInv == ModeOK /\ NoErrors /\ Disjoint /\ \A o \in Objs : LocalOK(o)

LEMMA LocalPaths ==
  ASSUME CacheDir = FALSE
  PROVE  /\ \A o \in Objs : Obj(o) \in Paths /\ Copy(o) \in Paths
         /\ \A o \in Objs, h \in Hashes : objectcopy_filename(o, h) = Copy(o)
         /\ \A o, q \in Objs : Obj(o) # Copy(q)
         /\ \A o, q \in Objs : o # q => Obj(o) # Obj(q) /\ Copy(o) # Copy(q)
BY DEF Obj, Copy, objectcopy_filename, Paths, CopyNames

\* The two paths of link_object_file, spelled out.
LEMMA LocalLinkPaths ==
  ASSUME CacheDir = FALSE, TypeOK, NEW o \in Objs
  PROVE  /\ CopyOf(o) = Copy(o)
         /\ mode[o] = "FROM_CACHE" => LinkSrc(o) = Copy(o) /\ LinkDst(o) = Obj(o)
         /\ mode[o] # "FROM_CACHE" => LinkSrc(o) = Obj(o) /\ LinkDst(o) = Copy(o)
BY RunFacts, LocalPaths DEF CopyOf, LinkSrc, LinkDst

LEMMA LocalInit == ASSUME CacheDir = FALSE PROVE Init => LocalInv
<1> SUFFICES ASSUME Init PROVE LocalInv
  OBVIOUS
<1>1. \A o \in Objs : ~Exists(Obj(o)) /\ ~Exists(Copy(o))
  BY LocalPaths DEF Init, Exists
<1>2. ModeOK /\ NoErrors
  BY DEF Init, ModeOK, NoErrors, AtExitPcs
<1>3. Disjoint
  BY <1>1 DEF Disjoint, Exists
<1>4. ASSUME NEW o \in Objs PROVE LocalOK(o)
  BY <1>1 DEF Init, LocalOK, HashMatchesCopy, HitOK, MissOK, QuietOK, Fresh
<1> QED BY <1>2, <1>3, <1>4 DEF LocalInv

\* An object file whose compiler does not move keeps all that is said of it.
LEMMA LocalFrame ==
  ASSUME NEW o \in Objs, LocalOK(o), Unaffected(o)
  PROVE  LocalOK(o)'
<1>1. /\ Exists(Obj(o))' <=> Exists(Obj(o))
      /\ Exists(Copy(o))' <=> Exists(Copy(o))
      /\ hash_new(o)' = hash_new(o)
  BY DEF Unaffected, Same, Exists, hash_new
<1>2. /\ Built(o)' <=> Built(o)
      /\ CopyHolds(o)' <=> CopyHolds(o)
  BY <1>1 DEF Unaffected, Same, Exists, Built, CopyHolds, Holds
<1>3. HashMatchesCopy(o)'
  BY <1>1 DEF LocalOK, Unaffected, Same, Exists, HashMatchesCopy
<1>4. HitOK(o)'
  BY <1>1, <1>2 DEF LocalOK, Unaffected, HitOK
<1>5. MissOK(o)' /\ QuietOK(o)'
  BY <1>1, <1>2 DEF LocalOK, Unaffected, MissOK, QuietOK
<1> QED BY <1>3, <1>4, <1>5 DEF LocalOK

LocalMode == CacheDir = FALSE /\ Faults = {} /\ FrontErrs = {}

\* Without faults, no step fails: what stat found of the files is still so.
LEMMA LocalNoFailure ==
  ASSUME LocalMode, TypeInv, LocalInv, NEW o \in Objs
  PROVE  ~BackendFails(o) /\ ~UnlinkFails(o) /\ ~LinkFails(o)
<1>1. ~BackendFails(o)
  BY DEF BackendFails, MayFault, LocalMode
<1>2. HitOK(o) /\ MissOK(o)
  BY DEF LocalInv, LocalOK
<1>3. pc[o] \in {"unlink", "link"} => mode[o] \in {"FROM_CACHE", "TO_CACHE"}
  BY DEF LocalInv, ModeOK, AtExitPcs, TypeInv, TypeOK, Modes
<1>4. ASSUME mode[o] = "FROM_CACHE"
      PROVE  /\ LinkSrc(o) = Copy(o) /\ LinkDst(o) = Obj(o) /\ Exists(Copy(o))
             /\ pc[o] = "unlink" => Exists(Obj(o))
             /\ pc[o] = "link" => ~Exists(Obj(o))
  <2>1. LinkSrc(o) = Copy(o) /\ LinkDst(o) = Obj(o)
    BY <1>4, LocalLinkPaths DEF LocalMode, TypeInv
  <2> QED BY <1>2, <1>4, <2>1 DEF HitOK, CopyHolds
<1>5. ASSUME mode[o] = "TO_CACHE", pc[o] # "backend"
      PROVE  /\ LinkSrc(o) = Obj(o) /\ LinkDst(o) = Copy(o) /\ Exists(Obj(o))
             /\ pc[o] = "unlink" => Exists(Copy(o))
             /\ pc[o] = "link" => ~Exists(Copy(o))
  <2>1. LinkSrc(o) = Obj(o) /\ LinkDst(o) = Copy(o)
    BY <1>5, LocalLinkPaths DEF LocalMode, TypeInv
  <2> QED BY <1>2, <1>5, <2>1 DEF MissOK, Built
<1>6. ~UnlinkFails(o)
  <2>1. pc[o] = "unlink" => Exists(LinkDst(o))
    BY <1>3, <1>4, <1>5
  <2> QED BY <2>1 DEF UnlinkFails, MayFault, LocalMode
<1>7. ~LinkFails(o)
  <2>1. pc[o] = "link" => LinkPossible(o)
    BY <1>3, <1>4, <1>5 DEF LinkPossible
  <2> QED BY <2>1 DEF LinkFails, MayFault, LocalMode
<1> QED BY <1>1, <1>6, <1>7

\* Whatever happens to object file o leaves the others alone.
LEMMA LocalOthers ==
  ASSUME LocalMode, TypeInv, LocalInv, NEW o \in Objs, NEW q \in Objs, q # o,
         \/ \E v \in Versions : Edit(o, v)
         \/ \E b \in BOOLEAN : Start(o, b)
         \/ Step(o)
  PROVE  Unaffected(q)
<1> USE DEF LocalMode, TypeInv, Unaffected, Same
<1>0. /\ LinkDst(o) \in {Obj(o), Copy(o)}
      /\ Obj(q) \in Paths /\ Copy(q) \in Paths /\ Obj(o) \in Paths /\ Copy(o) \in Paths
      /\ Obj(q) \notin {Obj(o), Copy(o)} /\ Copy(q) \notin {Obj(o), Copy(o)}
  BY LocalPaths, LocalLinkPaths
<1>1. ASSUME NEW v \in Versions, Edit(o, v)
      PROVE  Unaffected(q)
  BY <1>1 DEF Edit, Fresh, Exists, TypeOK
<1>2. ASSUME NEW b \in BOOLEAN, Start(o, b)
      PROVE  Unaffected(q)
  BY <1>2 DEF Start, Goto, Fresh, Exists, TypeOK
<1>3. CASE HandleTranslationUnit(o)
  BY <1>3 DEF HandleTranslationUnit, Goto, Fresh, Exists, TypeOK
<1>4. CASE Backend(o)
  <2>1. PICK i \in Inodes \ Linked :
           /\ dir' = [dir EXCEPT ![Obj(o)] = i]
           /\ content' = [content EXCEPT ![i] = Code[src[o]]]
           /\ newer' = newer \cup (Objs \X {i})
    BY <1>4 DEF Backend
  <2>2. dir[Obj(q)] # i /\ dir[Copy(q)] # i
    BY <1>0, NewInode
  <2>3. Same(Obj(q)) /\ Same(Copy(q))
    BY <1>0, <2>1, <2>2 DEF TypeOK
  <2>4. Fresh(q)' <=> Fresh(q)
    BY <1>0, <2>1, <2>2, <2>3 DEF Fresh, Exists, TypeOK
  <2> QED
    BY <1>4, <2>3, <2>4 DEF Backend, Goto, TypeOK
<1>5. CASE BackendFails(o)
  BY <1>5 DEF BackendFails, Goto, Fresh, Exists, TypeOK
<1>6. CASE StatDst(o) \/ StatSrc(o)
  BY <1>6 DEF StatDst, StatSrc, Goto, Fresh, Exists, TypeOK
<1>7. CASE Unlink(o)
  BY <1>0, <1>7 DEF Unlink, Goto, Fresh, Exists, TypeOK
<1>8. CASE UnlinkFails(o) \/ LinkFails(o)
  BY <1>8 DEF UnlinkFails, LinkFails, Goto, Fresh, Exists, TypeOK
<1>9. CASE Link(o)
  BY <1>0, <1>9 DEF Link, Goto, Fresh, Exists, TypeOK
<1>10. CASE OpenHashfile(o) \/ WriteHashfile(o)
  BY <1>10 DEF OpenHashfile, WriteHashfile, Goto, Fresh, Exists, TypeOK
<1>11. CASE Utime(o)
  <2>1. dir[Obj(o)] # NoFile
    BY <1>11 DEF Utime, UtimeFindsObject, Exists
  <2>2. dir[Obj(o)] # dir[Obj(q)]
    BY <2>1 DEF LocalInv, Disjoint
  <2>3. Fresh(q)' <=> Fresh(q)
    BY <1>11, <2>2 DEF Utime, Fresh, Exists, TypeOK
  <2> QED
    BY <1>11, <2>3 DEF Utime, Goto, TypeOK
<1>12. CASE Exit(o)
  BY <1>0, <1>12 DEF Exit, Reset, Goto, Fresh, Exists, TypeOK
<1> QED
  BY <1>1, <1>2, <1>3, <1>4, <1>5, <1>6, <1>7, <1>8, <1>9, <1>10, <1>11, <1>12 DEF Step

\* Inodes stay apart: a new one is nobody's, and link stays within one object
\* file and its copy.
LEMMA LocalDisjoint ==
  ASSUME LocalMode, TypeInv, LocalInv, [Next]_vars
  PROVE  Disjoint'
<1> USE DEF LocalMode, TypeInv, LocalInv
<1>1. CASE UNCHANGED dir
  BY <1>1 DEF Disjoint
<1>2. ASSUME NEW o \in Objs, Backend(o)
      PROVE  Disjoint'
  <2>1. PICK i \in Inodes \ Linked : dir' = [dir EXCEPT ![Obj(o)] = i]
    BY <1>2 DEF Backend
  <2>2. \A path \in Paths : dir[path] # i
    BY NewInode
  <2>3. /\ dir'[Obj(o)] = i /\ \A path \in Paths \ {Obj(o)} : dir'[path] = dir[path]
        /\ \A path \in Paths : path # Obj(o) => dir'[path] # i
    BY <2>1, <2>2, LocalPaths DEF TypeOK
  <2> SUFFICES ASSUME NEW p \in Objs, NEW q \in Objs, p # q,
                      NEW a \in {Obj(p), Copy(p)}, NEW b \in {Obj(q), Copy(q)}, dir'[a] # NoFile
               PROVE  dir'[a] # dir'[b]
    BY DEF Disjoint
  <2>4. a \in Paths /\ b \in Paths /\ a # b
    BY LocalPaths
  <2>5. CASE a = Obj(o) \/ b = Obj(o)
    BY <2>3, <2>4, <2>5
  <2>6. CASE a # Obj(o) /\ b # Obj(o)
    <3>1. dir'[a] = dir[a] /\ dir'[b] = dir[b]
      BY <2>3, <2>4, <2>6
    <3> QED BY <3>1 DEF Disjoint
  <2> QED BY <2>5, <2>6
<1>3. ASSUME NEW o \in Objs, Unlink(o)
      PROVE  Disjoint'
  BY <1>3, LocalPaths, LocalLinkPaths DEF Unlink, Disjoint, TypeOK
<1>4. ASSUME NEW o \in Objs, Link(o)
      PROVE  Disjoint'
  <2> DEFINE From(a) == IF a = LinkDst(o) THEN LinkSrc(o) ELSE a
  <2>1. \A q \in Objs, a \in Paths :
          a \in {Obj(q), Copy(q)} => From(a) \in {Obj(q), Copy(q)}
    <3>1. LinkSrc(o) \in {Obj(o), Copy(o)} /\ LinkDst(o) \in {Obj(o), Copy(o)}
      BY LocalLinkPaths
    <3>2. \A q \in Objs, a \in {Obj(o), Copy(o)} : a \in {Obj(q), Copy(q)} => q = o
      BY LocalPaths
    <3> QED BY <3>1, <3>2
  <2>2. \A a \in Paths : dir'[a] = dir[From(a)]
    <3>1. dir' = [dir EXCEPT ![LinkDst(o)] = dir[LinkSrc(o)]]
      BY <1>4 DEF Link
    <3> QED BY <3>1 DEF TypeOK
  <2> HIDE DEF From
  <2> SUFFICES ASSUME NEW p \in Objs, NEW q \in Objs, p # q,
                      NEW a \in {Obj(p), Copy(p)}, NEW b \in {Obj(q), Copy(q)},
                      dir'[a] # NoFile
               PROVE  dir'[a] # dir'[b]
    BY DEF Disjoint
  <2>3. a \in Paths /\ b \in Paths
    BY LocalPaths
  <2> QED
    BY <2>1, <2>2, <2>3 DEF Disjoint
<1>5. ASSUME NEW o \in Objs, Exit(o)
      PROVE  Disjoint'
  BY <1>5, <1>1 DEF Exit, NoErrors
<1>6. ASSUME NEW o \in Objs, Crash(o)
      PROVE  FALSE
  BY <1>6 DEF Crash, MayFault
<1> QED
  BY <1>1, <1>2, <1>3, <1>4, <1>5, <1>6
     DEF Next, Step, vars, Edit, Start, HandleTranslationUnit, BackendFails, StatDst, UnlinkFails,
         StatSrc, LinkFails, OpenHashfile, WriteHashfile, Utime

LEMMA LocalStep ==
  ASSUME LocalMode, TypeInv, LocalInv, [Next]_vars
  PROVE  LocalInv'
<1> USE DEF LocalMode, TypeInv
<1>a. Disjoint'
  BY LocalDisjoint
<1>b. ASSUME NEW o \in Objs,
             \/ \E v \in Versions : Edit(o, v)
             \/ \E b \in BOOLEAN : Start(o, b)
             \/ Step(o),
             LocalOK(o)'
      PROVE  \A q \in Objs : LocalOK(q)'
  BY <1>b, LocalOthers, LocalFrame DEF LocalInv
<1>c. \A o \in Objs : /\ LocalOK(o)
                      /\ Obj(o) \in Paths
                      /\ Copy(o) \in Paths
                      /\ Obj(o) # Copy(o)
  BY LocalPaths DEF LocalInv
<1> USE DEF LocalOK
<1>1. CASE UNCHANGED vars
  BY <1>1, <1>a DEF vars, LocalInv, ModeOK, NoErrors, HashMatchesCopy, HitOK, MissOK, QuietOK,
     Built, CopyHolds, Exists, Holds, Fresh, hash_new
<1>2. ASSUME NEW o \in Objs, NEW v \in Versions, Edit(o, v)
      PROVE  LocalInv'
  <2>1. ModeOK' /\ NoErrors'
    BY <1>2 DEF Edit, LocalInv, ModeOK, NoErrors
  <2>2. mode'[o] = "NOP" /\ pc'[o] = "idle" /\ ~Fresh(o)'
    BY <1>2 DEF Edit, Idle, LocalInv, ModeOK, Fresh, TypeOK
  <2>3. LocalOK(o)'
    BY <1>2, <1>c, <2>2 DEF Edit, HashMatchesCopy, HitOK, MissOK, QuietOK, Exists
  <2> QED BY <1>a, <1>b, <1>2, <2>1, <2>3 DEF LocalInv
<1>3. ASSUME NEW o \in Objs, NEW b \in BOOLEAN, Start(o, b)
      PROVE  LocalInv'
  <2>1. ModeOK' /\ NoErrors'
    BY <1>3 DEF Start, Idle, Goto, LocalInv, ModeOK, NoErrors, TypeOK, AtExitPcs
  <2>2. mode'[o] = "NOP" /\ pc'[o] \in {"parse", "backend"}
    BY <1>3 DEF Start, Idle, Goto, LocalInv, ModeOK, TypeOK
  <2>3. LocalOK(o)'
    BY <1>3, <1>c, <2>2 DEF Start, Idle, HashMatchesCopy, HitOK, MissOK, QuietOK, Exists
  <2> QED BY <1>a, <1>b, <1>3, <2>1, <2>3 DEF LocalInv
<1>4. ASSUME NEW o \in Objs, HandleTranslationUnit(o)
      PROVE  LocalInv'
  <2>1. ModeOK' /\ NoErrors'
    BY <1>4 DEF HandleTranslationUnit, Goto, LocalInv, ModeOK, NoErrors, TypeOK, AtExitPcs
  <2>2. UNCHANGED <<src, dir, content, hashfile>> /\ pc[o] = "parse"
    BY <1>4 DEF HandleTranslationUnit
  <2>3. CASE find_object_from_hash(o, hash_new(o))
    <3>1. mode'[o] = "FROM_CACHE" /\ pc'[o] = "stat_dst"
      BY <1>4, <2>3 DEF HandleTranslationUnit, Goto, TypeOK
    <3>2. hashfile[o] = hash_new(o) /\ CopyHolds(o)
      BY <2>2, <2>3, <1>c, LocalPaths, RunFacts
         DEF find_object_from_hash, HashMatchesCopy, CopyHolds, hash_new, TypeOK
    <3> QED
      BY <1>a, <1>b, <1>4, <1>c, <2>1, <2>2, <3>1, <3>2
         DEF LocalInv, Step, HashMatchesCopy, HitOK, MissOK, QuietOK, Exists, CopyHolds, hash_new
  <2>4. CASE ~find_object_from_hash(o, hash_new(o))
    <3>1. mode'[o] = "TO_CACHE" /\ pc'[o] = "backend"
      BY <1>4, <2>4 DEF HandleTranslationUnit, Goto, TypeOK
    <3> QED
      BY <1>a, <1>b, <1>4, <1>c, <2>1, <2>2, <3>1
         DEF LocalInv, Step, HashMatchesCopy, HitOK, MissOK, QuietOK, Exists
  <2> QED BY <2>3, <2>4
<1>5. ASSUME NEW o \in Objs, Backend(o)
      PROVE  LocalInv'
  <2>1. ModeOK' /\ NoErrors'
    BY <1>5 DEF Backend, AtExit, Goto, LocalInv, ModeOK, NoErrors, TypeOK, AtExitPcs
  <2>2. PICK i \in Inodes \ Linked :
           /\ dir' = [dir EXCEPT ![Obj(o)] = i]
           /\ content' = [content EXCEPT ![i] = Code[src[o]]]
           /\ newer' = newer \cup (Objs \X {i})
    BY <1>5 DEF Backend
  <2>3. UNCHANGED <<src, hashfile, mode>> /\ pc[o] = "backend" /\ pc'[o] = AtExit(o)
    BY <1>5 DEF Backend, Goto, TypeOK
  <2>4. Built(o)' /\ Fresh(o)'
    BY <1>c, <2>2, <2>3, ConstantsAssumption DEF Built, Fresh, Exists, Holds, TypeOK
  <2>5. HashMatchesCopy(o)'
    BY <1>c, <2>2, <2>3, NewInode, ConstantsAssumption DEF HashMatchesCopy, Exists, TypeOK
  <2>6. mode'[o] # "FROM_CACHE" /\ pc'[o] \in {"exit", "stat_dst"}
         /\ (pc'[o] = "exit" => mode'[o] = "NOP")
    BY <2>3 DEF LocalInv, ModeOK, AtExit
  <2> QED
    BY <1>a, <1>b, <1>5, <2>1, <2>4, <2>5, <2>6 DEF LocalInv, Step, HitOK, MissOK, QuietOK
<1>6. ASSUME NEW o \in Objs, BackendFails(o)
      PROVE  LocalInv'
  BY <1>6 DEF BackendFails, MayFault
<1>7. ASSUME NEW o \in Objs, StatDst(o)
      PROVE  LocalInv'
  <2>1. ModeOK' /\ NoErrors'
    BY <1>7 DEF StatDst, Goto, LocalInv, ModeOK, NoErrors, TypeOK, AtExitPcs
  <2>2. /\ UNCHANGED <<src, dir, content, newer, hashfile, mode>>
        /\ pc[o] = "stat_dst"
        /\ pc'[o] = IF Exists(LinkDst(o)) THEN "unlink" ELSE "stat_src"
    BY <1>7 DEF StatDst, Goto, TypeOK
  <2>3. LocalOK(o)'
    BY <1>c, <2>2, LocalLinkPaths
       DEF HashMatchesCopy, HitOK, MissOK, QuietOK, Built, CopyHolds, Exists, Holds, Fresh, hash_new
  <2> QED BY <1>a, <1>b, <1>7, <2>1, <2>3 DEF LocalInv, Step
<1>8. ASSUME NEW o \in Objs, Unlink(o)
      PROVE  LocalInv'
  <2>1. ModeOK' /\ NoErrors'
    BY <1>8 DEF Unlink, Goto, LocalInv, ModeOK, NoErrors, TypeOK, AtExitPcs
  <2>2. /\ UNCHANGED <<src, content, newer, hashfile, mode>>
        /\ dir' = [dir EXCEPT ![LinkDst(o)] = NoFile]
        /\ pc[o] = "unlink"
        /\ pc'[o] = "stat_src"
    BY <1>8 DEF Unlink, Goto, TypeOK
  <2>3. LocalOK(o)'
    BY <1>c, <2>2, LocalLinkPaths
       DEF HashMatchesCopy, HitOK, MissOK, QuietOK, Built, CopyHolds, Exists, Holds, Fresh, hash_new,
           TypeOK
  <2> QED BY <1>a, <1>b, <1>8, <2>1, <2>3 DEF LocalInv, Step
<1>9. ASSUME NEW o \in Objs, UnlinkFails(o)
      PROVE  LocalInv'
  BY <1>9, LocalNoFailure
<1>10. ASSUME NEW o \in Objs, StatSrc(o)
       PROVE  LocalInv'
  <2>1. ModeOK' /\ NoErrors'
    BY <1>10 DEF StatSrc, Goto, LocalInv, ModeOK, NoErrors, TypeOK, AtExitPcs
  <2>2. Exists(LinkSrc(o))
    BY <1>10, <1>c, LocalLinkPaths
       DEF StatSrc, LocalInv, ModeOK, HitOK, MissOK, CopyHolds, Built, TypeOK, Modes, AtExitPcs
  <2>3. /\ UNCHANGED <<src, dir, content, newer, hashfile, mode>>
        /\ pc[o] = "stat_src"
        /\ pc'[o] = "link"
    BY <1>10, <2>2 DEF StatSrc, Goto, TypeOK
  <2>4. LocalOK(o)'
    BY <1>c, <2>3
       DEF HashMatchesCopy, HitOK, MissOK, QuietOK, Built, CopyHolds, Exists, Holds, Fresh, hash_new
  <2> QED BY <1>a, <1>b, <1>10, <2>1, <2>4 DEF LocalInv, Step
<1>11. ASSUME NEW o \in Objs, Link(o)
       PROVE  LocalInv'
  <2>1. ModeOK' /\ NoErrors'
    BY <1>11 DEF Link, Goto, LocalInv, ModeOK, NoErrors, TypeOK, AtExitPcs, Modes
  <2>2. /\ UNCHANGED <<src, content, newer, hashfile, mode>>
        /\ dir' = [dir EXCEPT ![LinkDst(o)] = dir[LinkSrc(o)]]
        /\ pc[o] = "link"
        /\ mode[o] = "FROM_CACHE" => pc'[o] = "utime"
        /\ mode[o] # "FROM_CACHE" => pc'[o] = "fopen"
    BY <1>11 DEF Link, Goto, TypeOK
  <2>3. LocalOK(o)'
    <3>1. CASE mode[o] = "FROM_CACHE"
      BY <1>c, <2>2, <3>1, LocalLinkPaths
         DEF HashMatchesCopy, HitOK, MissOK, QuietOK, Built, CopyHolds, Exists, Holds, hash_new,
             TypeOK
    <3>2. CASE mode[o] # "FROM_CACHE"
      BY <1>c, <2>2, <3>2, LocalLinkPaths
         DEF HashMatchesCopy, HitOK, MissOK, QuietOK, Built, CopyHolds, Exists, Holds, Fresh,
             hash_new, TypeOK
    <3> QED BY <3>1, <3>2
  <2> QED BY <1>a, <1>b, <1>11, <2>1, <2>3 DEF LocalInv, Step
<1>12. ASSUME NEW o \in Objs, LinkFails(o)
       PROVE  LocalInv'
  BY <1>12, LocalNoFailure
<1>13. ASSUME NEW o \in Objs, OpenHashfile(o)
       PROVE  LocalInv'
  <2>1. ModeOK' /\ NoErrors'
    BY <1>13 DEF OpenHashfile, Goto, LocalInv, ModeOK, NoErrors, TypeOK, AtExitPcs
  <2>2. /\ UNCHANGED <<src, dir, content, newer, mode>>
        /\ hashfile'[o] = Torn
        /\ pc[o] = "fopen" /\ mode[o] = "TO_CACHE"
        /\ pc'[o] = "fwrite"
    BY <1>13 DEF OpenHashfile, Goto, LocalInv, ModeOK, TypeOK
  <2>3. LocalOK(o)'
    BY <1>c, <2>2, ConstantsAssumption
       DEF HashMatchesCopy, HitOK, MissOK, QuietOK, Built, CopyHolds, Exists, Holds, Fresh, hash_new
  <2> QED BY <1>a, <1>b, <1>13, <2>1, <2>3 DEF LocalInv, Step
<1>14. ASSUME NEW o \in Objs, WriteHashfile(o)
       PROVE  LocalInv'
  <2>1. ModeOK' /\ NoErrors'
    BY <1>14 DEF WriteHashfile, Goto, LocalInv, ModeOK, NoErrors, TypeOK, AtExitPcs
  <2>2. /\ UNCHANGED <<src, dir, content, newer, mode>>
        /\ hashfile'[o] = hash_new(o)
        /\ pc[o] = "fwrite" /\ mode[o] = "TO_CACHE"
        /\ pc'[o] = "exit"
    BY <1>14 DEF WriteHashfile, Goto, LocalInv, ModeOK, TypeOK
  <2>3. \A v \in Versions : TUHash[v] = hash_new(o) => Code[v] = Code[src[o]]
    BY HashSound DEF hash_new, TypeOK
  <2>4. LocalOK(o)'
    BY <1>c, <2>2, <2>3
       DEF HashMatchesCopy, HitOK, MissOK, QuietOK, Built, CopyHolds, Exists, Holds, Fresh, hash_new
  <2> QED BY <1>a, <1>b, <1>14, <2>1, <2>4 DEF LocalInv, Step
<1>15. ASSUME NEW o \in Objs, Utime(o)
       PROVE  LocalInv'
  <2>1. ModeOK' /\ NoErrors'
    BY <1>15 DEF Utime, Goto, LocalInv, ModeOK, NoErrors, TypeOK, AtExitPcs
  <2>2. /\ UNCHANGED <<src, dir, content, hashfile, mode>>
        /\ newer' = newer \cup (Objs \X {dir[Obj(o)]})
        /\ pc[o] = "utime" /\ mode[o] = "FROM_CACHE"
        /\ pc'[o] = "exit"
    BY <1>15 DEF Utime, Goto, UtimeFindsObject, TypeOK
  <2>3. LocalOK(o)'
    BY <1>c, <2>2
       DEF HashMatchesCopy, HitOK, MissOK, QuietOK, Built, CopyHolds, Exists, Holds, Fresh, hash_new
  <2> QED BY <1>a, <1>b, <1>15, <2>1, <2>3 DEF LocalInv, Step
<1>16. ASSUME NEW o \in Objs, Exit(o)
       PROVE  LocalInv'
  <2>1. ModeOK' /\ NoErrors'
    BY <1>16 DEF Exit, Reset, Goto, LocalInv, ModeOK, NoErrors, TypeOK, AtExitPcs
  <2>2. /\ UNCHANGED <<src, dir, content, newer, hashfile>>
        /\ pc[o] = "exit" /\ mode'[o] = "NOP" /\ pc'[o] = "idle"
    BY <1>16 DEF Exit, Reset, Goto, LocalInv, NoErrors, TypeOK
  <2>3. Built(o)
    BY <1>c, <2>2 DEF HitOK, MissOK, QuietOK, TypeOK, Modes
  <2>4. LocalOK(o)'
    BY <1>c, <2>2, <2>3 DEF HashMatchesCopy, HitOK, MissOK, QuietOK, Built, Exists, Holds
  <2> QED BY <1>a, <1>b, <1>16, <2>1, <2>4 DEF LocalInv, Step
<1>17. ASSUME NEW o \in Objs, Crash(o)
       PROVE  LocalInv'
  BY <1>17 DEF Crash, MayFault
<1> QED
  BY <1>1, <1>2, <1>3, <1>4, <1>5, <1>6, <1>7, <1>8, <1>9, <1>10, <1>11, <1>12,
     <1>13, <1>14, <1>15, <1>16, <1>17 DEF Next, Step

LEMMA LocalInvariance ==
  ASSUME LocalMode
  PROVE  Spec => [](TypeInv /\ LocalInv)
<1>1. CacheDir = FALSE
  BY DEF LocalMode
<1>2. Init => LocalInv
  BY <1>1, LocalInit
<1>3. TypeInv /\ LocalInv /\ [Next]_vars => LocalInv'
  BY LocalStep
<1> QED
  BY <1>2, <1>3, TypeInit, TypeStep, PTL DEF Spec

\* With the cache next to each object file, and no faults or errors: a compiler
\* that exits with status 0 leaves the object code of its source, through any
\* sequence of edits, hits and misses and with any number of parallel compilers.
THEOREM LocalServed == ASSUME LocalMode PROVE Spec => []Served
<1>1. TypeInv /\ LocalInv => Served
  BY DEF TypeInv, TypeOK, Modes, LocalInv, LocalOK, HitOK, MissOK, QuietOK, Built, Served
<1> QED BY <1>1, LocalInvariance, PTL

\* And what the build system takes for up to date is.
THEOREM LocalUpToDate == ASSUME LocalMode PROVE Spec => []UpToDate
<1>1. TypeInv /\ LocalInv => UpToDate
  BY DEF LocalInv, LocalOK, QuietOK, Built, UpToDate, Idle
<1> QED BY <1>1, LocalInvariance, PTL

\* And a lookup finds the code of the version it is made for.
THEOREM LocalCopySound == ASSUME LocalMode PROVE Spec => []CopySound
<1>1. TypeInv /\ LocalInv => CopySound
  <2> SUFFICES ASSUME LocalInv, NEW o \in Objs, NEW v \in Versions \ FrontErrs,
                      Idle(o), find_object_from_hash(o, TUHash[v])
               PROVE  content[dir[objectcopy_filename(o, TUHash[v])]] = Code[v]
    BY DEF CopySound
  <2>1. CacheDir = FALSE /\ objectcopy_filename(o, TUHash[v]) = Copy(o)
    BY LocalPaths, ConstantsAssumption DEF LocalMode
  <2> QED
    BY <2>1 DEF LocalInv, LocalOK, HashMatchesCopy, find_object_from_hash, Idle
<1> QED BY <1>1, LocalInvariance, PTL

\* And a second compilation of the same source is skipped.
THEOREM LocalRebuildSkips == ASSUME LocalMode PROVE Spec => []RebuildSkips
<1>1. TypeInv /\ LocalInv => RebuildSkips
  <2> SUFFICES ASSUME TypeInv, LocalInv, NEW o \in Objs, pc[o] = "exit", mode[o] # "NOP"
               PROVE  find_object_from_hash(o, hash_new(o))
    BY DEF RebuildSkips
  <2>1. mode[o] \in {"FROM_CACHE", "TO_CACHE"}
    BY DEF TypeInv, TypeOK, Modes
  <2>2. HitOK(o) /\ MissOK(o)
    BY DEF LocalInv, LocalOK
  <2>3. hashfile[o] = hash_new(o) /\ Exists(Copy(o))
    BY <2>1, <2>2 DEF HitOK, MissOK, CopyHolds
  <2>4. objectcopy_filename(o, hash_new(o)) = Copy(o)
    BY LocalPaths, RunFacts DEF LocalMode, TypeInv
  <2> QED BY <2>3, <2>4 DEF find_object_from_hash
<1> QED BY <1>1, LocalInvariance, PTL

\* And compilers of different object files do not disturb each other.
THEOREM LocalIsolation == ASSUME LocalMode PROVE Spec => Isolation
<1>1. ASSUME NEW o \in Objs, Unaffected(o)
      PROVE  Undisturbed(o)
  BY <1>1 DEF Unaffected, Same, Undisturbed, Fresh, Exists, Holds
<1>2. ASSUME TypeInv, LocalInv, Next
      PROVE  \A q \in Objs : Undisturbed(q)
  <2>1. PICK o \in Objs :
          \/ \E v \in Versions : Edit(o, v)
          \/ \E b \in BOOLEAN : Start(o, b)
          \/ Step(o)
    BY <1>2 DEF Next, Crash, MayFault, LocalMode
  <2>2. \A q \in Objs : q # o => Undisturbed(q)
    BY <1>1, <1>2, <2>1, LocalOthers
  <2>3. Undisturbed(o)
    <3>1. CASE \E v \in Versions : Edit(o, v)
      BY <1>2, <3>1 DEF Undisturbed, Edit, TypeInv, TypeOK
    <3>2. CASE \E b \in BOOLEAN : Start(o, b)
      BY <1>2, <3>2 DEF Undisturbed, Start, Idle, Goto, TypeInv, TypeOK
    <3>3. CASE Step(o)
      BY <1>2, <3>3
         DEF Undisturbed, Step, HandleTranslationUnit, Backend, BackendFails, AtExit, StatDst, Unlink, UnlinkFails,
             StatSrc, Link, LinkFails, OpenHashfile, WriteHashfile, Utime, Exit, Reset, Goto,
             TypeInv, TypeOK
    <3> QED BY <2>1, <3>1, <3>2, <3>3
  <2> QED BY <2>2, <2>3
<1>3. TypeInv /\ LocalInv /\ [Next]_vars => [AllUndisturbed]_vars
  BY <1>2 DEF AllUndisturbed
<1> QED BY <1>3, LocalInvariance, PTL DEF Spec, Isolation

-----------------------------------------------------------------------------
(* The cache next to each object file implements a compiler.               *)

\* The refinement mapping, at one object file.
Out(o) == IF Exists(Obj(o)) THEN content[dir[Obj(o)]] ELSE NoFile

LEMMA OthersOut ==
  ASSUME LocalMode, TypeInv, LocalInv, NEW o \in Objs,
         \/ \E v \in Versions : Edit(o, v)
         \/ \E b \in BOOLEAN : Start(o, b)
         \/ Step(o)
  PROVE  \A q \in Objs : q # o =>
           Out(q)' = Out(q) /\ (Fresh(q)' <=> Fresh(q)) /\ (Idle(q)' <=> Idle(q))
BY LocalOthers DEF Unaffected, Same, Out, Exists, Idle

LEMMA CompilerStep ==
  ASSUME LocalMode, TypeInv, LocalInv, Next
  PROVE  [AsCompiler!Next]_(AsCompiler!vars)
<1> USE DEF LocalMode, TypeInv
<1> DEFINE out   == [o \in Objs |-> Out(o)]
           fresh == [o \in Objs |-> Fresh(o)]
           busy  == [o \in Objs |-> ~Idle(o)]
<1>0. PICK o \in Objs :
        \/ \E v \in Versions : Edit(o, v)
        \/ \E b \in BOOLEAN : Start(o, b)
        \/ Step(o)
  BY DEF Next, Crash, MayFault
<1>1. LocalOK(o) /\ ok[o] /\ Obj(o) \in Paths /\ Copy(o) \in Paths /\ Obj(o) # Copy(o)
  BY LocalPaths DEF LocalInv, NoErrors
<1>2. \A q \in Objs : q # o =>
        Out(q)' = Out(q) /\ (Fresh(q)' <=> Fresh(q)) /\ (Idle(q)' <=> Idle(q))
  BY <1>0, OthersOut
\* A step that o does not see.
<1>3. ASSUME Out(o)' = Out(o), Fresh(o)' <=> Fresh(o), Idle(o)' <=> Idle(o), src' = src
      PROVE  UNCHANGED AsCompiler!vars
  <2>1. out' = out /\ fresh' = fresh /\ busy' = busy
    BY <1>2, <1>3 DEF Fresh, Idle, Exists
  <2> QED BY <1>3, <2>1 DEF AsCompiler!vars, Out
<1>4. ASSUME NEW v \in Versions, Edit(o, v)
      PROVE  AsCompiler!Edit(o, v)
  <2>1. Out(o)' = Out(o) /\ ~Fresh(o)' /\ Idle(o) /\ Idle(o)' /\ src' = [src EXCEPT ![o] = v]
    BY <1>4 DEF Edit, Out, Exists, Fresh, Idle, TypeOK
  <2>2. out' = out /\ fresh' = [fresh EXCEPT ![o] = FALSE] /\ busy' = busy
    BY <1>2, <2>1 DEF Fresh, Idle, Exists
  <2> QED BY <2>1, <2>2 DEF AsCompiler!Edit, Out
<1>5. ASSUME NEW b \in BOOLEAN, Start(o, b)
      PROVE  AsCompiler!Run(o)
  <2>1. /\ Out(o)' = Out(o) /\ (Fresh(o)' <=> Fresh(o))
        /\ ~Fresh(o) /\ Idle(o) /\ ~Idle(o)' /\ src' = src
    BY <1>5 DEF Start, Goto, Out, Exists, Fresh, Idle, TypeOK
  <2>2. out' = out /\ fresh' = fresh /\ busy' = [busy EXCEPT ![o] = TRUE]
    BY <1>2, <2>1 DEF Fresh, Idle, Exists
  <2> QED BY <2>1, <2>2 DEF AsCompiler!Run, Out
\* A step that leaves o with the object code of its source.
<1>6. ASSUME Out(o)' = Code[src[o]], ~Idle(o), ~Idle(o)', src' = src
      PROVE  \E stamp \in BOOLEAN : AsCompiler!Deliver(o, stamp)
  <2>1. /\ out' = [out EXCEPT ![o] = Code[src[o]]]
        /\ fresh' = [fresh EXCEPT ![o] = Fresh(o)']
        /\ busy' = busy
    BY <1>2, <1>6 DEF Fresh, Idle, Exists
  <2>2. AsCompiler!Deliver(o, Fresh(o)')
    BY <1>6, <2>1 DEF AsCompiler!Deliver, Out
  <2>3. Fresh(o)' \in BOOLEAN
    BY DEF Fresh, Exists
  <2> QED BY <2>2, <2>3
<1>7. CASE HandleTranslationUnit(o)
  BY <1>7, <1>3 DEF HandleTranslationUnit, Goto, Out, Exists, Fresh, Idle, TypeOK
<1>8. ASSUME Backend(o)
      PROVE  \E stamp \in BOOLEAN : AsCompiler!Deliver(o, stamp)
  <2>1. Out(o)' = Code[src[o]]
    BY <1>8, <1>1, ConstantsAssumption DEF Backend, Out, Exists, TypeOK
  <2> QED
    BY <1>8, <2>1, <1>6 DEF Backend, AtExit, Goto, Idle, TypeOK
<1>9. CASE StatDst(o) \/ StatSrc(o)
  BY <1>9, <1>3 DEF StatDst, StatSrc, Goto, Out, Exists, Fresh, Idle, TypeOK
<1>10. CASE OpenHashfile(o) \/ WriteHashfile(o)
  BY <1>10, <1>3 DEF OpenHashfile, WriteHashfile, Goto, Out, Exists, Fresh, Idle, TypeOK
<1>11. CASE BackendFails(o) \/ UnlinkFails(o) \/ LinkFails(o)
  BY <1>11, LocalNoFailure
<1>12. ASSUME Unlink(o), mode[o] = "FROM_CACHE"
       PROVE  AsCompiler!Remove(o)
  <2>1. Out(o)' = NoFile /\ ~Fresh(o)' /\ ~Idle(o) /\ ~Idle(o)' /\ src' = src
    BY <1>12, <1>1, LocalLinkPaths DEF Unlink, Goto, Out, Exists, Fresh, Idle, TypeOK
  <2>2. /\ out' = [out EXCEPT ![o] = NoFile]
        /\ fresh' = [fresh EXCEPT ![o] = FALSE]
        /\ busy' = busy
    BY <1>2, <2>1 DEF Fresh, Idle, Exists
  <2> QED BY <2>1, <2>2 DEF AsCompiler!Remove, Out
<1>13. ASSUME Unlink(o) \/ Link(o), mode[o] # "FROM_CACHE"
       PROVE  UNCHANGED AsCompiler!vars
  BY <1>13, <1>1, <1>3, LocalLinkPaths
     DEF Unlink, Link, Goto, Out, Exists, Fresh, Idle, TypeOK
<1>14. ASSUME Link(o), mode[o] = "FROM_CACHE"
       PROVE  \E stamp \in BOOLEAN : AsCompiler!Deliver(o, stamp)
  <2>1. Out(o)' = Code[src[o]]
    BY <1>14, <1>1, LocalLinkPaths DEF Link, LocalOK, HitOK, CopyHolds, Out, Exists, TypeOK
  <2> QED
    BY <1>14, <2>1, <1>6 DEF Link, Goto, Idle, TypeOK
<1>15. ASSUME Utime(o)
       PROVE  \E stamp \in BOOLEAN : AsCompiler!Deliver(o, stamp)
  <2>1. Out(o)' = Code[src[o]]
    BY <1>15, <1>1
       DEF Utime, UtimeFindsObject, LocalOK, HitOK, Built, Holds, Out, Exists, TypeOK
  <2> QED
    BY <1>15, <2>1, <1>6 DEF Utime, Goto, Idle, TypeOK
<1>16. ASSUME Exit(o)
       PROVE  AsCompiler!Finish(o)
  <2>1. Built(o) /\ Fresh(o)
    BY <1>16, <1>1 DEF Exit, LocalOK, HitOK, MissOK, QuietOK, TypeOK, Modes
  <2>2. /\ Out(o) = Code[src[o]] /\ Out(o)' = Out(o) /\ Fresh(o) /\ Fresh(o)'
        /\ ~Idle(o) /\ Idle(o)' /\ src' = src
    BY <1>16, <1>1, <2>1
       DEF Exit, Reset, Goto, Built, Holds, Out, Exists, Fresh, Idle, TypeOK
  <2>3. out' = out /\ fresh' = fresh /\ busy' = [busy EXCEPT ![o] = FALSE]
    BY <1>2, <2>2 DEF Fresh, Idle, Exists
  <2> QED BY <2>2, <2>3 DEF AsCompiler!Finish, Out
<1> QED
  BY <1>0, <1>4, <1>5, <1>7, <1>8, <1>9, <1>10, <1>11, <1>12, <1>13, <1>14, <1>15, <1>16
     DEF Step, AsCompiler!Next

\* With the cache next to each object file, and no faults or errors,
\* clang-hash-stop implements the abstract compiler: skipping is not seen.
THEOREM LocalImplementsCompiler == ASSUME LocalMode PROVE Spec => ImplementsCompiler
<1>1. Init => AsCompiler!Init
  <2> SUFFICES ASSUME Init PROVE AsCompiler!Init
    OBVIOUS
  <2>1. \A o \in Objs : ~Exists(Obj(o)) /\ Idle(o)
    BY PathFacts DEF Init, Exists, Idle
  <2> QED BY <2>1 DEF Init, AsCompiler!Init, Fresh
<1>2. UNCHANGED vars => UNCHANGED AsCompiler!vars
  BY DEF vars, AsCompiler!vars, Exists, Fresh, Idle
<1>3. TypeInv /\ LocalInv /\ [Next]_vars => [AsCompiler!Next]_(AsCompiler!vars)
  BY <1>2, CompilerStep
<1> QED
  BY <1>1, <1>3, LocalInvariance, PTL DEF Spec, ImplementsCompiler, AsCompiler!Spec
=============================================================================

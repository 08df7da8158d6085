-------------------------- MODULE InfoFilesProofs --------------------------
(***************************************************************************)
(* Proofs about InfoFiles: for any number of object files, compilations,   *)
(* kills and deletions, and any elements, a reader gets whole records that *)
(* are recent enough, and its table is made of these and nothing else.     *)
(***************************************************************************)
EXTENDS InfoFiles, WellFoundedInduction, TLAPS

Pieces == Nat \X {1, 2}

Outcomes == {"idle", "read", "done", "IndexError", "SyntaxError", "KeyError", "AssertionError"}

TypeOK ==
  /\ version \in [Objs -> Nat] /\ kills \in Nat
  /\ file \in [Objs -> Seq(Pieces) \cup {None}]
  /\ wrapper \in [Objs -> {"idle", "record", "open", "half", "lost"}]
  /\ reader \in Outcomes /\ todo \subseteq Objs
  /\ got \in [Objs -> Nat \cup {None}]
  /\ known \in [Objs -> Nat]

-----------------------------------------------------------------------------
(* The files.                                                              *)

\* Later pieces are of later compilations.
Ordered(f) == \A i, j \in 1..Len(f) : i <= j => f[i][1] <= f[j][1]

\* The second part of a record follows the first one.
Paired(f) == \A i \in 1..Len(f) : f[i][2] = 2 => i > 1 /\ f[i - 1] = <<f[i][1], 1>>

\* No record was cut off, but perhaps the last one.
Uncut(f) == \A i \in 1..(Len(f) - 1) : f[i][2] = 1 => f[i + 1][2] = 2

FileInv ==
  \A o \in Objs :
    /\ wrapper[o] \in {"open", "half"} => file[o] # None
    /\ wrapper[o] = "half" => Len(file[o]) > 0 /\ file[o][Len(file[o])] = <<version[o], 1>>
    /\ file[o] # None =>
         /\ Ordered(file[o]) /\ Paired(file[o])
         /\ \A i \in 1..Len(file[o]) : file[o][i][1] <= version[o]

\* Until a wrapper is killed only the one that writes leaves a record cut off.
CleanInv ==
  kills = 0 => \A o \in Objs : file[o] # None =>
    /\ Uncut(file[o])
    /\ Len(file[o]) = 0 => wrapper[o] = "open"
    /\ Len(file[o]) > 0 /\ file[o][Len(file[o])][2] = 1 => wrapper[o] = "half"

-----------------------------------------------------------------------------
(* The reader.                                                             *)

HaveRecord == {o \in Objs : got[o] # None}

\* The record that was the newest one is still in the file.
KnownInv ==
  \A o \in Objs : reader = "read" /\ known[o] # 0 =>
    file[o] # None /\ \E i \in Ends(file[o]) : file[o][i][1] = known[o]

GotInv ==
  /\ reader = "idle" => \A o \in Objs : got[o] = None
  /\ \A o \in todo : got[o] = None
  /\ reader = "done" => todo = {}
  /\ \A o \in Objs :
       /\ got[o] # None => /\ known[o] <= got[o] /\ got[o] <= version[o]
                           /\ <<o, got[o]>> \notin died
       /\ reader \in {"read", "done"} /\ o \notin todo /\ got[o] = None => known[o] = 0

TableInv ==
  /\ DOMAIN local_hashes = UNION {DOMAIN Kept(o, got[o]) : o \in HaveRecord}
  /\ \A o \in HaveRecord : \A s \in DOMAIN Kept(o, got[o]) : local_hashes[s] = Kept(o, got[o])[s]

Inv == TypeOK /\ FileInv /\ CleanInv /\ KnownInv /\ GotInv /\ TableInv

-----------------------------------------------------------------------------
(* Lemmas about the operators.                                             *)

\* A set of natural numbers that are not greater than n has a greatest one.
LEMMA MaxOf ==
  ASSUME NEW n \in Nat, NEW S \in SUBSET (0..n), S # {}
  PROVE  Max(S) \in S /\ \A y \in S : y <= Max(S)
<1> DEFINE T == {t \in Nat : n - t \in S}
<1>1. T \in SUBSET Nat
  OBVIOUS
<1>2. T # {}
  <2>1. PICK x \in S : x \in 0..n
    OBVIOUS
  <2>2. n - x \in Nat /\ n - (n - x) = x
    BY <2>1
  <2>3. n - x \in T
    BY <2>2
  <2> QED BY <2>3
<1>3. PICK t \in T : \A u \in T : ~ (<<u, t>> \in OpToRel(<, Nat))
  <2> HIDE DEF T
  <2> QED BY <1>1, <1>2, NatLessThanWellFounded, WFMin
<1>4. ASSUME NEW u \in T PROVE ~(u < t)
  <2>1. <<u, t>> \in Nat \X Nat
    OBVIOUS
  <2>2. u < t => <<u, t>> \in OpToRel(<, Nat)
    BY <2>1, Zenon DEF OpToRel
  <2> QED BY <1>3, <2>2
<1>5. n - t \in S
  OBVIOUS
<1>6. ASSUME NEW y \in S PROVE n - t >= y
  <2>1. y \in 0..n /\ t \in Nat
    OBVIOUS
  <2>2. n - y \in Nat /\ n - (n - y) = y
    BY <2>1
  <2>3. n - y \in T
    BY <2>2
  <2>4. ~(n - y < t)
    BY <1>4, <2>3
  <2> QED BY <2>1, <2>4
<1>7. \E x \in S : \A y \in S : x >= y
  BY <1>5, <1>6
<1>8. Max(S) \in S /\ \A y \in S : Max(S) >= y
  BY <1>7 DEF Max
<1>9. \A y \in S : y \in Nat
  OBVIOUS
<1> QED BY <1>8, <1>9

LEMMA EndsAre == \A f \in Seq(Pieces) : Ends(f) = {i \in 1..Len(f) : f[i][2] = 2}
  BY DEF Ends

\* The last line, if it can be evaluated, is the last record.
LEMMA LastRecord ==
  ASSUME NEW f \in Seq(Pieces), f # <<>>, Evaluates(lastLine(f))
  PROVE  /\ Len(f) \in Ends(f)
         /\ lastLine(f)[1][1] = f[Len(f)][1]
<1> DEFINE before == Ends(f) \ {Len(f)}
           k == IF before = {} THEN 0 ELSE Max(before)
<1>1. Len(f) \in Nat /\ Len(f) > 0
  OBVIOUS
<1>2. k \in 0..(Len(f) - 1)
  <2>1. before \in SUBSET (0..(Len(f) - 1))
    BY DEF Ends
  <2>2. CASE before # {}
    <3> HIDE DEF before
    <3>0. Len(f) - 1 \in Nat
      BY <1>1
    <3>1. Max(before) \in before
      BY <2>1, <2>2, <3>0, MaxOf
    <3> QED BY <1>1, <2>1, <2>2, <3>1
  <2> QED BY <1>1, <2>2
<1>3. lastLine(f) = SubSeq(f, k + 1, Len(f))
  BY DEF lastLine
<1> HIDE DEF k
<1>4. Len(SubSeq(f, k + 1, Len(f))) = Len(f) - k
  BY <1>1, <1>2
<1>5. k = Len(f) - 2
  BY <1>1, <1>2, <1>3, <1>4 DEF Evaluates
<1>6. lastLine(f)[1] = f[k + 1] /\ lastLine(f)[2] = f[k + 2]
  BY <1>1, <1>2, <1>3, <1>5
<1>7. f[Len(f)][2] = 2 /\ lastLine(f)[1][1] = f[Len(f)][1]
  BY <1>1, <1>5, <1>6 DEF Evaluates
<1> QED BY <1>1, <1>7 DEF Ends

\* A file of whole records can be evaluated.
LEMMA WholeEvaluates ==
  ASSUME NEW f \in Seq(Pieces), Paired(f), Uncut(f), Len(f) > 0, f[Len(f)][2] # 1
  PROVE  Evaluates(lastLine(f))
<1> DEFINE before == Ends(f) \ {Len(f)}
           k == IF before = {} THEN 0 ELSE Max(before)
<1>1. Len(f) \in Nat /\ f[Len(f)] \in Pieces /\ f[Len(f)][2] = 2
  <2>1. Len(f) \in Nat /\ f[Len(f)] \in Pieces
    OBVIOUS
  <2> QED BY <2>1 DEF Pieces
<1>2. Len(f) > 1 /\ f[Len(f) - 1] = <<f[Len(f)][1], 1>>
  BY <1>1 DEF Paired
<1>3. before \in SUBSET (0..(Len(f) - 2))
  BY <1>1, <1>2 DEF Ends
<1>4. Len(f) > 2 => Len(f) - 2 \in before
  <2> SUFFICES ASSUME Len(f) > 2 PROVE Len(f) - 2 \in before
    OBVIOUS
  <2>1. Len(f) - 2 \in 1..(Len(f) - 1) /\ (Len(f) - 2) + 1 = Len(f) - 1
    BY <1>1
  <2>2. f[Len(f) - 2] \in Pieces
    BY <1>1, <2>1
  <2>3. f[Len(f) - 2][2] # 1
    BY <1>2, <2>1 DEF Uncut
  <2>4. f[Len(f) - 2][2] = 2
    BY <2>2, <2>3 DEF Pieces
  <2>5. \A n \in Nat : n - 2 # n /\ (n - 2 \in 1..(n - 1) => n - 2 \in 1..n)
    OBVIOUS
  <2>6. Len(f) - 2 \in 1..Len(f) /\ Len(f) - 2 # Len(f)
    BY <1>1, <2>1, <2>5
  <2> QED BY <2>4, <2>6, EndsAre
<1>5. k = Len(f) - 2
  <2> HIDE DEF before
  <2>1. CASE before = {}
    <3>1. ~(Len(f) > 2)
      BY <1>4, <2>1
    <3>2. k = 0
      BY <2>1
    <3> QED BY <1>1, <1>2, <3>1, <3>2
  <2>2. CASE before # {}
    <3>1. Len(f) - 2 \in Nat
      BY <1>1, <1>2
    <3>2. Max(before) \in before /\ \A y \in before : y <= Max(before)
      BY <1>3, <2>2, <3>1, MaxOf
    <3>3. Len(f) > 2
      <4>1. Max(before) \in 0..(Len(f) - 2)
        BY <1>3, <3>2
      <4>2. 0 \notin before
        BY DEF before, Ends
      <4> QED BY <1>1, <1>2, <1>3, <3>2, <4>1, <4>2
    <3>4. Max(before) \in 0..(Len(f) - 2) /\ Len(f) - 2 <= Max(before)
      BY <1>3, <1>4, <3>2, <3>3
    <3>5. k = Max(before)
      BY <2>2
    <3> HIDE DEF k
    <3> QED BY <1>1, <3>4, <3>5
  <2> QED BY <2>1, <2>2
<1>6. lastLine(f) = SubSeq(f, k + 1, Len(f))
  BY DEF lastLine
<1> HIDE DEF k
<1>7. Len(lastLine(f)) = 2 /\ lastLine(f)[1] = f[Len(f) - 1] /\ lastLine(f)[2] = f[Len(f)]
  BY <1>1, <1>2, <1>5, <1>6
<1> QED BY <1>1, <1>2, <1>7 DEF Evaluates

\* What Write appends.
Line(v, parts) == [i \in DOMAIN parts |-> <<v, parts[i]>>]

LEMMA Appended ==
  ASSUME NEW f \in Seq(Pieces), NEW v \in Nat, NEW parts \in Parts
  PROVE  /\ f \o Line(v, parts) \in Seq(Pieces)
         /\ Len(f) \in Nat
         /\ Len(f \o Line(v, parts)) = Len(f) + Len(parts)
         /\ \A i \in 1..Len(f) : (f \o Line(v, parts))[i] = f[i]
         /\ (f \o Line(v, parts))[Len(f) + 1] = <<v, parts[1]>>
         /\ parts = <<1, 2>> => (f \o Line(v, parts))[Len(f) + 2] = <<v, 2>>
<1>1. Line(v, parts) \in Seq(Pieces) /\ Len(Line(v, parts)) = Len(parts)
  BY DEF Line, Pieces, Parts
<1>2. Line(v, parts)[1] = <<v, parts[1]>> /\ (parts = <<1, 2>> => Line(v, parts)[2] = <<v, 2>>)
  BY DEF Line, Parts
<1> DEFINE l == Line(v, parts)
<1>3. Len(parts) \in {1, 2} /\ (parts = <<1, 2>> => Len(parts) = 2)
  BY DEF Parts
<1> HIDE DEF l
<1> QED BY <1>1, <1>2, <1>3 DEF l
\* Where a piece is after something was appended.
LEMMA Places ==
  \A m \in Nat, n \in {1, 2} : \A i \in 1..(m + n) :
    i \in 1..m \/ i = m + 1 \/ (i = m + 2 /\ n = 2)
  OBVIOUS

-----------------------------------------------------------------------------
(* The steps, one by one.                                                  *)

LEMMA NoneIsNoFile == None \notin Seq(Pieces) /\ None # <<>> /\ None \notin Nat
<1>1. <<>> \in Seq(Pieces)
  OBVIOUS
<1>2. None \notin Seq(Pieces) /\ None \notin Nat
  BY InfoAssumption, Zenon DEF Pieces
<1> QED BY <1>1, <1>2, Zenon

LEMMA Opened ==
  ASSUME TypeOK, NEW o \in Objs, file[o] # None
  PROVE  /\ file[o] \in Seq(Pieces) /\ Len(file[o]) \in Nat
         /\ \A i \in 1..Len(file[o]) : file[o][i] \in Pieces /\ file[o][i][1] \in Nat
         /\ Ends(file[o]) = {i \in 1..Len(file[o]) : file[o][i][2] = 2}
<1>1. file[o] \in Seq(Pieces)
  BY DEF TypeOK
<1>2. Len(file[o]) \in Nat /\ \A i \in 1..Len(file[o]) : file[o][i] \in Pieces
  BY <1>1
<1> QED BY <1>1, <1>2, EndsAre DEF Pieces

\* The outcomes of reading a file.
Skips(o) == file[o] = None /\ UNCHANGED <<reader, got, local_hashes>>

Fails == reader' \in Outcomes \ {"idle", "read", "done"} /\ UNCHANGED <<got, local_hashes>>

Takes(o, v) ==
  /\ file[o] # None /\ file[o] # <<>> /\ Len(file[o]) \in Ends(file[o])
  /\ v = file[o][Len(file[o])][1]
  /\ <<o, v>> \notin died /\ ~Conflict(Kept(o, v))
  /\ got' = [got EXCEPT ![o] = v] /\ local_hashes' = Stored(Kept(o, v))
  /\ reader' = reader

LEMMA ReadIs ==
  ASSUME TypeOK, NEW o \in Objs, Read(o)
  PROVE  Skips(o) \/ Fails \/ Takes(o, lastLine(file[o])[1][1])
<1> DEFINE v == lastLine(file[o])[1][1]
<1>1. CASE file[o] = None
  <2>1. None # <<>>
    BY NoneIsNoFile
  <2>2. get_record_from(o) = "None"
    BY <1>1, <2>1 DEF get_record_from
  <2> QED BY <1>1, <2>2 DEF Read, Skips
<1>2. CASE file[o] # None /\ file[o] = <<>>
  <2>1. get_record_from(o) = "IndexError"
    BY <1>2 DEF get_record_from
  <2> QED BY <2>1 DEF Read, Fails, Outcomes
<1>3. CASE file[o] # None /\ file[o] # <<>> /\ ~Evaluates(lastLine(file[o]))
  <2>1. get_record_from(o) = "SyntaxError"
    BY <1>3 DEF get_record_from
  <2> QED BY <2>1 DEF Read, Fails, Outcomes
<1>4. CASE file[o] # None /\ file[o] # <<>> /\ Evaluates(lastLine(file[o]))
  <2>1. get_record_from(o) = "record"
    BY <1>4 DEF get_record_from
  <2>2. Len(file[o]) \in Ends(file[o]) /\ v = file[o][Len(file[o])][1]
    BY <1>4, Opened, LastRecord
  <2>3. CASE <<o, v>> \in died \/ Conflict(Kept(o, v))
    BY <2>1, <2>3 DEF Read, Fails, Outcomes
  <2>4. CASE ~(<<o, v>> \in died \/ Conflict(Kept(o, v)))
    <3>1. got' = [got EXCEPT ![o] = v] /\ local_hashes' = Stored(Kept(o, v)) /\ reader' = reader
      BY <2>1, <2>4 DEF Read
    <3> QED BY <1>4, <2>2, <2>4, <3>1 DEF Takes
  <2> QED BY <2>3, <2>4
<1> QED BY <1>1, <1>2, <1>3, <1>4

\* What List learns of a file.
LEMMA ListIs ==
  ASSUME TypeOK, List, NEW o \in Objs
  PROVE  /\ known'[o] \in Nat
         /\ known'[o] # 0 => file[o] # None /\ \E i \in Ends(file[o]) : file[o][i][1] = known'[o]
<1>1. CASE file[o] = None \/ Ends(file[o]) = {}
  BY <1>1 DEF List
<1>2. CASE file[o] # None /\ Ends(file[o]) # {}
  <2>0. /\ Len(file[o]) \in Nat
        /\ Ends(file[o]) = {i \in 1..Len(file[o]) : file[o][i][2] = 2}
    BY <1>2, Opened
  <2>1. Ends(file[o]) \in SUBSET (0..Len(file[o])) /\ Len(file[o]) \in Nat
    BY <2>0
  <2>2. Max(Ends(file[o])) \in Ends(file[o])
    BY <1>2, <2>1, MaxOf
  <2>3. known'[o] = file[o][Max(Ends(file[o]))][1]
    BY <1>2 DEF List
  <2> QED BY <1>2, <2>2, <2>3, Opened
<1> QED BY <1>1, <1>2

\* What Write leaves of a file.
LEMMA WriteIs ==
  ASSUME TypeOK, FileInv, NEW o \in Objs, NEW parts \in Parts, Write(o, parts)
  PROVE  /\ file[o] # None /\ file[o] \in Seq(Pieces) /\ version[o] \in Nat
         /\ file' = [file EXCEPT ![o] = file[o] \o Line(version[o], parts)]
<1>1. file[o] # None
  BY DEF Write, FileInv
<1> QED BY <1>1, Opened DEF Write, Line, TypeOK

LEMMA TypeStep == TypeOK /\ FileInv /\ [Next]_vars => TypeOK'
<1> SUFFICES ASSUME TypeOK, FileInv, [Next]_vars PROVE TypeOK'
  OBVIOUS
<1>1. CASE UNCHANGED vars
  BY <1>1 DEF vars, writing, reading, TypeOK
<1>2. ASSUME NEW o \in Objs, Compile(o) PROVE TypeOK'
  BY <1>2 DEF Compile, reading, TypeOK
<1>3. ASSUME NEW o \in Objs, Open(o) PROVE TypeOK'
  BY <1>3 DEF Open, reading, TypeOK
<1>4. ASSUME NEW o \in Objs, NEW parts \in Parts, Write(o, parts) PROVE TypeOK'
  <2>1. file' \in [Objs -> Seq(Pieces) \cup {None}]
    <3>1. file[o] \o Line(version[o], parts) \in Seq(Pieces)
      BY <1>4, WriteIs, Appended
    <3>2. file' = [file EXCEPT ![o] = file[o] \o Line(version[o], parts)]
      BY <1>4, WriteIs
    <3> QED BY <3>1, <3>2 DEF TypeOK
  <2> QED BY <1>4, <2>1 DEF Write, reading, TypeOK
<1>5. ASSUME NEW o \in Objs, WriteLost(o) PROVE TypeOK'
  BY <1>5 DEF WriteLost, reading, TypeOK
<1>6. ASSUME NEW o \in Objs, Kill(o) PROVE TypeOK'
  BY <1>6 DEF Kill, reading, TypeOK
<1>7. ASSUME NEW o \in Objs, Delete(o) PROVE TypeOK'
  BY <1>7 DEF Delete, reading, TypeOK
<1>8. ASSUME NEW o \in Objs, Read(o) PROVE TypeOK'
  <2>1. UNCHANGED <<writing, file, known>> /\ todo' = todo \ {o} /\ reader = "read"
    BY <1>8 DEF Read
  <2>2. ASSUME NEW v, Takes(o, v) PROVE v \in Nat
    BY <2>2, Opened DEF Takes
  <2>3. CASE Skips(o) \/ Fails
    BY <2>1, <2>3 DEF Skips, Fails, TypeOK, writing
  <2>4. ASSUME NEW v, Takes(o, v) PROVE TypeOK'
    <3>1. got' \in [Objs -> Nat \cup {None}]
      BY <2>2, <2>4 DEF Takes, TypeOK
    <3> QED BY <2>1, <2>4, <3>1 DEF Takes, TypeOK, writing
  <2> QED BY <1>8, <2>3, <2>4, ReadIs
<1>9. CASE List
  <2>1. known' \in [Objs -> Nat]
    BY <1>9, ListIs DEF List
  <2> QED BY <1>9, <2>1 DEF List, writing, TypeOK, Outcomes
<1>10. CASE Finish
  BY <1>10 DEF Finish, writing, TypeOK, Outcomes
<1> QED BY <1>1, <1>2, <1>3, <1>4, <1>5, <1>6, <1>7, <1>8, <1>9, <1>10 DEF Next

LEMMA FileStep == TypeOK /\ FileInv /\ [Next]_vars => FileInv'
<1> SUFFICES ASSUME TypeOK, FileInv, [Next]_vars PROVE FileInv'
  OBVIOUS
<1>1. CASE UNCHANGED <<version, file, wrapper>>
  BY <1>1 DEF FileInv
<1>2. ASSUME NEW o \in Objs, Compile(o) PROVE FileInv'
  <2> SUFFICES ASSUME NEW p \in Objs
               PROVE  /\ wrapper'[p] \in {"open", "half"} => file[p] # None
                      /\ wrapper'[p] = "half" =>
                           Len(file[p]) > 0 /\ file[p][Len(file[p])] = <<version'[p], 1>>
                      /\ file[p] # None => \A i \in 1..Len(file[p]) : file[p][i][1] <= version'[p]
    BY <1>2 DEF FileInv, Compile
  <2>1. CASE p # o
    BY <1>2, <2>1 DEF FileInv, Compile, TypeOK
  <2>2. CASE p = o
    <3>1. wrapper'[p] = "record" /\ version'[p] = version[p] + 1 /\ version[p] \in Nat
      BY <1>2, <2>2 DEF Compile, TypeOK
    <3>2. file[p] # None => \A i \in 1..Len(file[p]) : file[p][i][1] \in Nat /\ file[p][i][1] <= version[p]
      BY Opened DEF FileInv
    <3> QED BY <3>1, <3>2
  <2> QED BY <2>1, <2>2
<1>3. ASSUME NEW o \in Objs, Open(o) PROVE FileInv'
  <2> SUFFICES ASSUME NEW p \in Objs
               PROVE  /\ wrapper'[p] \in {"open", "half"} => file'[p] # None
                      /\ wrapper'[p] = "half" =>
                           Len(file'[p]) > 0 /\ file'[p][Len(file'[p])] = <<version[p], 1>>
                      /\ file'[p] # None =>
                           /\ Ordered(file'[p]) /\ Paired(file'[p])
                           /\ \A i \in 1..Len(file'[p]) : file'[p][i][1] <= version[p]
    BY <1>3 DEF FileInv, Open, Ordered, Paired
  <2>1. CASE p # o \/ file[o] # None
    BY <1>3, <2>1 DEF FileInv, Open, TypeOK
  <2>2. CASE p = o /\ file[o] = None
    <3>1. wrapper'[p] = "open" /\ file'[p] = <<>>
      BY <1>3, <2>2 DEF Open, TypeOK
    <3> QED BY <3>1, NoneIsNoFile DEF Ordered, Paired
  <2> QED BY <2>1, <2>2
<1>4. ASSUME NEW o \in Objs, NEW parts \in Parts, Write(o, parts) PROVE FileInv'
  <2> DEFINE f == file[o]
             g == file[o] \o Line(version[o], parts)
  <2>1. /\ f # None /\ f \in Seq(Pieces) /\ version[o] \in Nat
        /\ file' = [file EXCEPT ![o] = g]
    BY <1>4, WriteIs
  <2>2. /\ g \in Seq(Pieces) /\ Len(f) \in Nat /\ Len(g) = Len(f) + Len(parts)
        /\ \A i \in 1..Len(f) : g[i] = f[i]
        /\ g[Len(f) + 1] = <<version[o], parts[1]>>
        /\ parts = <<1, 2>> => g[Len(f) + 2] = <<version[o], 2>>
    BY <2>1, Appended
  <2>3. \A i \in 1..Len(f) : f[i][1] \in Nat /\ f[i][1] <= version[o]
    BY <2>1, Opened DEF FileInv
  <2>4. /\ parts = <<2>> => Len(f) > 0 /\ f[Len(f)] = <<version[o], 1>>
        /\ version' = version
        /\ wrapper' = [wrapper EXCEPT ![o] = IF parts = <<1>> THEN "half" ELSE "idle"]
        /\ Ordered(f) /\ Paired(f)
    BY <1>4, <2>1 DEF Write, FileInv
  <2> HIDE DEF f, g
  <2>5. Len(parts) \in {1, 2} /\ (Len(parts) = 2 => parts = <<1, 2>>) /\ (parts = <<1>> => Len(parts) = 1)
        /\ parts[1] \in {1, 2} /\ (parts[1] = 2 => parts = <<2>>) /\ (Len(parts) = 1 => parts \in {<<1>>, <<2>>})
    BY DEF Parts
  <2>6. \A i \in 1..Len(g) : g[i][1] \in Nat /\ g[i][1] <= version[o] /\ (i > Len(f) => g[i][1] = version[o])
    <3> SUFFICES ASSUME NEW i \in 1..Len(g)
                 PROVE  g[i][1] \in Nat /\ g[i][1] <= version[o] /\ (i > Len(f) => g[i][1] = version[o])
      OBVIOUS
    <3>1. i \in 1..Len(f) \/ i = Len(f) + 1 \/ (i = Len(f) + 2 /\ Len(parts) = 2)
      BY <2>2, <2>5, Places
    <3> QED BY <2>1, <2>2, <2>3, <2>5, <3>1
  <2>7. Ordered(g)
    <3> SUFFICES ASSUME NEW i \in 1..Len(g), NEW j \in 1..Len(g), i <= j PROVE g[i][1] <= g[j][1]
      BY DEF Ordered
    <3>1. CASE j \in 1..Len(f)
      BY <2>2, <2>4, <3>1 DEF Ordered
    <3>2. CASE j > Len(f)
      BY <2>6, <3>2
    <3> QED BY <2>2, <3>1, <3>2
  <2>8. Paired(g)
    <3> SUFFICES ASSUME NEW i \in 1..Len(g), g[i][2] = 2 PROVE i > 1 /\ g[i - 1] = <<g[i][1], 1>>
      BY DEF Paired
    <3>1. CASE i \in 1..Len(f)
      <4>1. i > 1 /\ f[i - 1] = <<f[i][1], 1>>
        BY <2>2, <2>4, <3>1 DEF Paired
      <4>2. i - 1 \in 1..Len(f)
        BY <2>2, <3>1, <4>1
      <4>3. g[i] = f[i] /\ g[i - 1] = f[i - 1]
        BY <2>2, <3>1, <4>2
      <4> QED BY <4>1, <4>3
    <3>2. CASE i = Len(f) + 1
      <4>1. parts = <<2>> /\ g[i] = <<version[o], 2>>
        BY <2>2, <2>5, <3>2
      <4>2. Len(f) > 0 /\ f[Len(f)] = <<version[o], 1>>
        BY <2>4, <4>1
      <4>3. i - 1 = Len(f) /\ i - 1 \in 1..Len(f) /\ i > 1
        BY <2>2, <3>2, <4>2
      <4> QED BY <2>2, <4>1, <4>2, <4>3
    <3>3. CASE i = Len(f) + 2 /\ Len(parts) = 2
      BY <2>2, <2>5, <3>3
    <3> QED BY <2>2, <2>5, <3>1, <3>2, <3>3, Places
  <2>9. parts = <<1>> => Len(g) > 0 /\ g[Len(g)] = <<version[o], 1>>
    BY <2>2, <2>5
  <2>10. g # None /\ file'[o] = g
    BY <2>1, <2>2, NoneIsNoFile DEF TypeOK
  <2> SUFFICES ASSUME NEW p \in Objs
               PROVE  /\ wrapper'[p] \in {"open", "half"} => file'[p] # None
                      /\ wrapper'[p] = "half" =>
                           Len(file'[p]) > 0 /\ file'[p][Len(file'[p])] = <<version[p], 1>>
                      /\ file'[p] # None =>
                           /\ Ordered(file'[p]) /\ Paired(file'[p])
                           /\ \A i \in 1..Len(file'[p]) : file'[p][i][1] <= version[p]
    BY <2>4 DEF FileInv, Ordered, Paired
  <2>11. CASE p # o
    BY <2>1, <2>4, <2>11 DEF FileInv, TypeOK
  <2>12. CASE p = o
    <3>1. wrapper'[p] = "half" => parts = <<1>>
      BY <2>4, <2>12 DEF TypeOK
    <3> QED BY <2>6, <2>7, <2>8, <2>9, <2>10, <2>12, <3>1
  <2> QED BY <2>11, <2>12
<1>5. ASSUME NEW o \in Objs, WriteLost(o) \/ Kill(o) PROVE FileInv'
  BY <1>5 DEF WriteLost, Kill, FileInv, TypeOK
<1>6. ASSUME NEW o \in Objs, Delete(o) PROVE FileInv'
  <2>1. \A p \in Objs : p # o => file'[p] = file[p] /\ wrapper'[p] = wrapper[p]
    BY <1>6 DEF Delete, TypeOK
  <2>2. file'[o] = None /\ wrapper'[o] \notin {"open", "half"} /\ version' = version
    BY <1>6 DEF Delete, TypeOK
  <2> QED BY <2>1, <2>2 DEF FileInv, Ordered, Paired
<1>7. ASSUME NEW o \in Objs, Read(o) PROVE FileInv'
  BY <1>1, <1>7 DEF Read, writing
<1>8. CASE List \/ Finish
  BY <1>1, <1>8 DEF List, Finish, writing
<1>9. CASE UNCHANGED vars
  BY <1>1, <1>9 DEF vars, writing
<1> QED BY <1>2, <1>3, <1>4, <1>5, <1>6, <1>7, <1>8, <1>9 DEF Next

LEMMA CleanStep == TypeOK /\ FileInv /\ CleanInv /\ [Next]_vars => CleanInv'
<1> SUFFICES ASSUME TypeOK, FileInv, CleanInv, [Next]_vars PROVE CleanInv'
  OBVIOUS
<1> DEFINE Clean(f, w) == /\ Uncut(f)
                          /\ Len(f) = 0 => w = "open"
                          /\ Len(f) > 0 /\ f[Len(f)][2] = 1 => w = "half"
<1>0. /\ CleanInv <=> (kills = 0 => \A p \in Objs : file[p] # None => Clean(file[p], wrapper[p]))
      /\ CleanInv' <=> (kills' = 0 => \A p \in Objs : file'[p] # None => Clean(file'[p], wrapper'[p]))
  BY DEF CleanInv, Uncut
<1>1. CASE UNCHANGED <<kills, file, wrapper>>
  BY <1>1 DEF CleanInv
<1>2. ASSUME NEW o \in Objs, Compile(o) \/ WriteLost(o) PROVE CleanInv'
  <2>1. /\ kills' = kills /\ file' = file /\ wrapper[o] \notin {"open", "half"}
        /\ \A p \in Objs : p # o => wrapper'[p] = wrapper[p]
    BY <1>2 DEF Compile, WriteLost, TypeOK
  <2> QED BY <1>0, <2>1
<1>3. ASSUME NEW o \in Objs, Open(o) PROVE CleanInv'
  <2>1. /\ kills' = kills /\ wrapper[o] = "record" /\ wrapper'[o] = "open"
        /\ \A p \in Objs : p # o => wrapper'[p] = wrapper[p] /\ file'[p] = file[p]
        /\ file'[o] = IF file[o] = None THEN <<>> ELSE file[o]
    BY <1>3 DEF Open, TypeOK
  <2>2. Clean(<<>>, "open")
    BY DEF Uncut
  <2> QED BY <1>0, <2>1, <2>2
<1>4. ASSUME NEW o \in Objs, NEW parts \in Parts, Write(o, parts), kills' = 0,
             file'[o] # None
      PROVE  Clean(file'[o], wrapper'[o])
  <2> DEFINE f == file[o]
             g == file[o] \o Line(version[o], parts)
  <2>1. /\ f # None /\ f \in Seq(Pieces) /\ version[o] \in Nat
        /\ file' = [file EXCEPT ![o] = g]
    BY <1>4, WriteIs
  <2>2. /\ g \in Seq(Pieces) /\ Len(f) \in Nat /\ Len(g) = Len(f) + Len(parts)
        /\ \A i \in 1..Len(f) : g[i] = f[i]
        /\ g[Len(f) + 1] = <<version[o], parts[1]>>
        /\ parts = <<1, 2>> => g[Len(f) + 2] = <<version[o], 2>>
    BY <2>1, Appended
  <2>3. file'[o] = g /\ wrapper'[o] = IF parts = <<1>> THEN "half" ELSE "idle"
    BY <1>4, <2>1 DEF Write, TypeOK
  <2>4. Clean(f, wrapper[o])
    BY <1>0, <1>4, <2>1 DEF Write
  <2>5. parts[1] = 1 => wrapper[o] = "open"
    BY <1>4 DEF Write
  <2>6. Len(f) > 0 /\ f[Len(f)][2] = 1 => parts = <<2>>
    BY <1>4, <2>4 DEF Write
  <2> HIDE DEF f, g, Clean
  <2> DEFINE n == Len(f)
  <2>7. \/ Len(g) = n + 1 /\ g[n + 1][2] = 1 /\ parts = <<1>>
        \/ Len(g) = n + 1 /\ g[n + 1][2] = 2 /\ parts = <<2>>
        \/ Len(g) = n + 2 /\ g[n + 1][2] = 1 /\ g[n + 2][2] = 2 /\ parts = <<1, 2>>
    <3>1. CASE parts = <<1>>
      BY <2>2, <3>1
    <3>2. CASE parts = <<2>>
      BY <2>2, <3>2
    <3>3. CASE parts = <<1, 2>>
      BY <2>2, <3>3
    <3> QED BY <3>1, <3>2, <3>3 DEF Parts
  <2>8. ASSUME NEW i \in 1..(Len(g) - 1), g[i][2] = 1 PROVE g[i + 1][2] = 2
    <3>1. n \in Nat /\ i \in Nat /\ i > 0
      BY <2>2
    <3>2. i \in 1..(n - 1) \/ i = n \/ (i = n + 1 /\ parts = <<1, 2>>)
      <4> HIDE DEF n
      <4> QED BY <2>7, <3>1
    <3>3. CASE i \in 1..(n - 1)
      <4>1. i \in 1..Len(f) /\ i + 1 \in 1..Len(f)
        BY <3>1, <3>3
      <4>2. g[i] = f[i] /\ g[i + 1] = f[i + 1]
        BY <2>2, <4>1
      <4> QED BY <2>4, <2>8, <3>3, <4>2 DEF Clean, Uncut
    <3>4. CASE i = n
      <4>1. Len(f) > 0 /\ f[Len(f)][2] = 1
        BY <2>2, <2>8, <3>1, <3>4
      <4>2. parts = <<2>>
        BY <2>6, <4>1
      <4> QED BY <2>7, <3>4, <4>2
    <3>5. CASE i = n + 1 /\ parts = <<1, 2>>
      <4>1. g[n + 2][2] = 2
        BY <2>7, <3>5
      <4>2. i + 1 = n + 2
        BY <3>1, <3>5
      <4> QED BY <4>1, <4>2
    <3> QED BY <3>2, <3>3, <3>4, <3>5
  <2>9. g[Len(g)][2] = 1 => parts = <<1>>
    BY <2>7
  <2>10. Len(g) > 0 /\ Len(g) # 0
    BY <2>2, <2>7
  <2>11. Uncut(g)
    BY <2>8 DEF Uncut
  <2>12. wrapper'[o] = "half" \/ g[Len(g)][2] # 1
    BY <2>3, <2>9
  <2> QED BY <2>3, <2>10, <2>11, <2>12 DEF Clean
<1>5. ASSUME NEW o \in Objs, NEW parts \in Parts, Write(o, parts) PROVE CleanInv'
  <2>1. /\ kills' = kills
        /\ \A p \in Objs : p # o => wrapper'[p] = wrapper[p] /\ file'[p] = file[p]
    BY <1>5 DEF Write, TypeOK
  <2> HIDE DEF Clean
  <2> QED BY <1>0, <1>4, <1>5, <2>1
<1>6. ASSUME NEW o \in Objs, Kill(o) PROVE CleanInv'
  BY <1>0, <1>6 DEF Kill, TypeOK
<1>7. ASSUME NEW o \in Objs, Delete(o) PROVE CleanInv'
  <2>1. /\ kills' = kills /\ file'[o] = None
        /\ \A p \in Objs : p # o => wrapper'[p] = wrapper[p] /\ file'[p] = file[p]
    BY <1>7 DEF Delete, TypeOK
  <2> HIDE DEF Clean
  <2> QED BY <1>0, <2>1
<1>8. ASSUME NEW o \in Objs, Read(o) PROVE CleanInv'
  BY <1>1, <1>8 DEF Read, writing
<1>9. CASE List \/ Finish
  BY <1>1, <1>9 DEF List, Finish, writing
<1>10. CASE UNCHANGED vars
  BY <1>1, <1>10 DEF vars, writing
<1> QED BY <1>2, <1>3, <1>5, <1>6, <1>7, <1>8, <1>9, <1>10 DEF Next

LEMMA KnownStep == TypeOK /\ FileInv /\ KnownInv /\ [Next]_vars => KnownInv'
<1> SUFFICES ASSUME TypeOK, FileInv, KnownInv, [Next]_vars, reader' = "read", NEW p \in Objs,
                    known'[p] # 0
             PROVE  file'[p] # None /\ \E i \in Ends(file'[p]) : file'[p][i][1] = known'[p]
  BY DEF KnownInv, Ends
<1>1. CASE UNCHANGED <<file, reader, known>>
  BY <1>1 DEF KnownInv
<1>2. ASSUME NEW o \in Objs, Compile(o) \/ WriteLost(o) \/ Kill(o)
      PROVE  UNCHANGED <<file, reader, known>>
  BY <1>2 DEF Compile, WriteLost, Kill, reading
<1>3. ASSUME NEW o \in Objs, Open(o)
      PROVE  file'[p] # None /\ \E i \in Ends(file'[p]) : file'[p][i][1] = known'[p]
  <2>1. reader' = reader /\ known' = known /\ (file[p] # None => file'[p] = file[p])
    BY <1>3 DEF Open, reading, TypeOK
  <2> QED BY <2>1 DEF KnownInv
<1>4. ASSUME NEW o \in Objs, NEW parts \in Parts, Write(o, parts)
      PROVE  file'[p] # None /\ \E i \in Ends(file'[p]) : file'[p][i][1] = known'[p]
  <2> DEFINE f == file[o]
             g == file[o] \o Line(version[o], parts)
  <2>1. /\ f # None /\ f \in Seq(Pieces) /\ version[o] \in Nat
        /\ file' = [file EXCEPT ![o] = g] /\ reader' = reader /\ known' = known
    BY <1>4, WriteIs DEF Write, reading
  <2>2. /\ g \in Seq(Pieces) /\ Len(f) \in Nat /\ Len(g) = Len(f) + Len(parts)
        /\ \A i \in 1..Len(f) : g[i] = f[i]
    BY <2>1, Appended
  <2>3. file[p] # None /\ \E i \in Ends(file[p]) : file[p][i][1] = known[p]
    BY <2>1 DEF KnownInv
  <2>4. CASE p # o
    BY <2>1, <2>3, <2>4 DEF TypeOK
  <2>5. CASE p = o
    <3>1. file'[p] = g /\ g # None
      BY <2>1, <2>2, <2>5, NoneIsNoFile DEF TypeOK
    <3>2. PICK i \in Ends(f) : f[i][1] = known[p]
      BY <2>3, <2>5
    <3>3. i \in 1..Len(f) /\ f[i][2] = 2
      BY <2>1, EndsAre
    <3>4. Len(parts) \in Nat
      OBVIOUS
    <3> HIDE DEF f, g
    <3>5. i \in 1..Len(g) /\ g[i] = f[i]
      BY <2>2, <3>3, <3>4
    <3>6. i \in Ends(g)
      BY <2>2, <3>3, <3>5, EndsAre
    <3> QED BY <2>1, <3>1, <3>2, <3>5, <3>6
  <2> QED BY <2>4, <2>5
<1>5. ASSUME NEW o \in Objs, Delete(o)
      PROVE  file'[p] # None /\ \E i \in Ends(file'[p]) : file'[p][i][1] = known'[p]
  <2>1. p # o /\ file'[p] = file[p] /\ known'[p] = known[p] /\ reader' = reader
    BY <1>5 DEF Delete, reading, TypeOK
  <2> QED BY <2>1 DEF KnownInv
<1>6. ASSUME NEW o \in Objs, Read(o)
      PROVE  file'[p] # None /\ \E i \in Ends(file'[p]) : file'[p][i][1] = known'[p]
  BY <1>6 DEF Read, writing, KnownInv
<1>7. CASE List
  BY <1>7, ListIs DEF List
<1>8. CASE Finish
  BY <1>8 DEF Finish
<1>9. CASE UNCHANGED vars
  BY <1>1, <1>9 DEF vars, reading
<1> QED BY <1>1, <1>2, <1>3, <1>4, <1>5, <1>6, <1>7, <1>8, <1>9 DEF Next
\* A record that is taken is not older than the newest one was at the start.
LEMMA TakenIsRecent ==
  ASSUME TypeOK, FileInv, KnownInv, reader = "read", NEW o \in Objs, NEW v, Takes(o, v)
  PROVE  v \in Nat /\ known[o] <= v /\ v <= version[o]
<1>1. /\ file[o] # None /\ file[o] \in Seq(Pieces) /\ Len(file[o]) \in Nat
      /\ Ends(file[o]) = {i \in 1..Len(file[o]) : file[o][i][2] = 2}
      /\ \A i \in 1..Len(file[o]) : file[o][i][1] \in Nat
  BY Opened DEF Takes
<1>2. Len(file[o]) \in 1..Len(file[o]) /\ v = file[o][Len(file[o])][1]
  BY <1>1 DEF Takes
<1>3. v \in Nat /\ v <= version[o]
  BY <1>1, <1>2 DEF FileInv
<1>4. CASE known[o] = 0
  BY <1>3, <1>4
<1>5. CASE known[o] # 0
  <2>1. PICK i \in Ends(file[o]) : file[o][i][1] = known[o]
    BY <1>5 DEF KnownInv
  <2>2. i \in 1..Len(file[o]) /\ i <= Len(file[o])
    BY <1>1
  <2>3. Ordered(file[o])
    BY <1>1 DEF FileInv
  <2>4. file[o][i][1] <= file[o][Len(file[o])][1]
    BY <1>2, <2>2, <2>3 DEF Ordered
  <2> QED BY <1>2, <1>3, <2>1, <2>4
<1> QED BY <1>3, <1>4, <1>5

LEMMA GotStep == TypeOK /\ FileInv /\ KnownInv /\ GotInv /\ [Next]_vars => GotInv'
<1> SUFFICES ASSUME TypeOK, FileInv, KnownInv, GotInv, [Next]_vars PROVE GotInv'
  OBVIOUS
<1>1. CASE UNCHANGED <<version, died, reader, todo, got, known>>
  BY <1>1 DEF GotInv
<1>2. ASSUME NEW o \in Objs, Compile(o) PROVE GotInv'
  <2>1. /\ UNCHANGED <<reader, todo, got, known>>
        /\ died' \subseteq died \cup {<<o, version[o] + 1>>}
        /\ \A p \in Objs : version[p] \in Nat /\ version'[p] \in Nat /\ version[p] <= version'[p]
    BY <1>2 DEF Compile, reading, TypeOK
  <2>2. ASSUME NEW p \in Objs, got[p] # None
        PROVE  got[p] <= version'[p] /\ <<p, got[p]>> \notin died'
    <3>1. got[p] \in Nat /\ got[p] <= version[p] /\ <<p, got[p]>> \notin died
      BY <2>2 DEF GotInv, TypeOK
    <3>2. got[p] # version[p] + 1
      BY <2>1, <3>1
    <3>3. <<p, got[p]>> # <<o, version[o] + 1>>
      BY <3>2
    <3> QED BY <2>1, <3>1, <3>3
  <2> QED BY <2>1, <2>2 DEF GotInv
<1>3. ASSUME NEW o \in Objs, Open(o) \/ WriteLost(o) \/ Kill(o) PROVE GotInv'
  BY <1>1, <1>3 DEF Open, WriteLost, Kill, reading
<1>4. ASSUME NEW o \in Objs, NEW parts \in Parts, Write(o, parts) PROVE GotInv'
  BY <1>1, <1>4 DEF Write, reading
<1>5. ASSUME NEW o \in Objs, Delete(o) PROVE GotInv'
  <2>1. /\ UNCHANGED <<version, died, reader, todo, got>>
        /\ \A p \in Objs : known'[p] = known[p] \/ known'[p] = 0
    BY <1>5 DEF Delete, reading, TypeOK
  <2>2. \A p \in Objs : got[p] # None => got[p] \in Nat /\ 0 <= got[p]
    BY DEF TypeOK
  <2> QED BY <2>1, <2>2 DEF GotInv
<1>6. ASSUME NEW o \in Objs, Read(o) PROVE GotInv'
  <2>1. /\ reader = "read" /\ o \in todo /\ todo' = todo \ {o}
        /\ UNCHANGED <<version, died, known>>
    BY <1>6 DEF Read, writing
  <2>2. CASE Skips(o)
    <3>1. known[o] = 0
      BY <2>1, <2>2 DEF Skips, KnownInv
    <3>2. UNCHANGED <<reader, got>>
      BY <2>2 DEF Skips
    <3> QED BY <2>1, <3>1, <3>2 DEF GotInv
  <2>3. CASE Fails
    <3>1. reader' \notin {"idle", "read", "done"} /\ got' = got
      BY <2>3 DEF Fails
    <3> QED BY <2>1, <3>1 DEF GotInv
  <2>4. ASSUME NEW v, Takes(o, v) PROVE GotInv'
    <3>1. v \in Nat /\ known[o] <= v /\ v <= version[o] /\ v # None
      BY <2>1, <2>4, TakenIsRecent, NoneIsNoFile
    <3>2. /\ got'[o] = v /\ reader' = reader /\ <<o, v>> \notin died
          /\ \A p \in Objs : p # o => got'[p] = got[p]
      BY <2>4 DEF Takes, TypeOK
    <3>3. todo \subseteq Objs
      BY DEF TypeOK
    <3> QED BY <2>1, <3>1, <3>2, <3>3 DEF GotInv
  <2> QED BY <1>6, <2>2, <2>3, <2>4, ReadIs
<1>7. CASE List
  <2>1. /\ reader' = "read" /\ got' = got /\ todo' = {p \in Objs : file[p] # None}
        /\ \A p \in Objs : got[p] = None
    BY <1>7 DEF List, GotInv
  <2>2. \A p \in Objs : file[p] = None => known'[p] = 0
    BY <1>7 DEF List
  <2> QED BY <2>1, <2>2 DEF GotInv
<1>8. CASE Finish
  BY <1>8 DEF Finish, writing, GotInv
<1>9. CASE UNCHANGED vars
  BY <1>1, <1>9 DEF vars, writing, reading
<1> QED BY <1>2, <1>3, <1>4, <1>5, <1>6, <1>7, <1>8, <1>9 DEF Next

LEMMA TableStep == TypeOK /\ FileInv /\ KnownInv /\ GotInv /\ TableInv /\ [Next]_vars => TableInv'
<1> SUFFICES ASSUME TypeOK, FileInv, KnownInv, GotInv, TableInv, [Next]_vars PROVE TableInv'
  OBVIOUS
<1>0. mode' = mode
  BY DEF Next, vars, Compile, Open, Write, WriteLost, Kill, Delete, Read, List, Finish, reading
<1>1. \A o, v : Kept(o, v)' = Kept(o, v)
  BY <1>0 DEF Kept
<1>2. CASE UNCHANGED <<got, local_hashes>>
  <2>1. HaveRecord' = HaveRecord
    BY <1>2 DEF HaveRecord
  <2> QED BY <1>0, <1>2, <2>1 DEF TableInv, Kept
<1>3. ASSUME NEW o \in Objs, NEW v, reader = "read", o \in todo, Takes(o, v) PROVE TableInv'
  <2>1. v \in Nat /\ v # None
    BY <1>3, TakenIsRecent, NoneIsNoFile
  <2>2. /\ got'[o] = v /\ got[o] = None /\ \A p \in Objs : p # o => got'[p] = got[p]
    BY <1>3 DEF Takes, GotInv, TypeOK
  <2>3. HaveRecord' = HaveRecord \cup {o} /\ o \notin HaveRecord /\ HaveRecord \subseteq Objs
    BY <2>1, <2>2 DEF HaveRecord
  <2> DEFINE new == Kept(o, v)
  <2>4. local_hashes' = [s \in DOMAIN new \cup DOMAIN local_hashes |->
                           IF s \in DOMAIN new THEN new[s] ELSE local_hashes[s]]
    BY <1>3 DEF Takes, Stored
  <2>5. \A s \in DOMAIN new \cap DOMAIN local_hashes : local_hashes[s] = new[s]
    BY <1>3 DEF Takes, Conflict
  <2>6. /\ UNION {DOMAIN Kept(p, got'[p]) : p \in HaveRecord'}
             = DOMAIN new \cup UNION {DOMAIN Kept(p, got[p]) : p \in HaveRecord}
    <3>1. \A p \in HaveRecord : got'[p] = got[p]
      BY <2>2, <2>3
    <3>2. got'[o] = v
      BY <2>2
    <3> QED BY <2>3, <3>1, <3>2
  <2> HIDE DEF new
  <2>7. DOMAIN local_hashes' = UNION {DOMAIN Kept(p, got'[p]) : p \in HaveRecord'}
    BY <2>4, <2>6 DEF TableInv
  <2>8. ASSUME NEW p \in HaveRecord', NEW s \in DOMAIN Kept(p, got'[p])
        PROVE  local_hashes'[s] = Kept(p, got'[p])[s]
    <3>1. CASE p = o
      BY <2>2, <2>4, <3>1 DEF new
    <3>2. CASE p # o
      <4>1. p \in HaveRecord /\ got'[p] = got[p]
        BY <2>2, <2>3, <3>2
      <4>2. s \in DOMAIN local_hashes /\ local_hashes[s] = Kept(p, got[p])[s]
        BY <4>1 DEF TableInv
      <4> QED BY <2>4, <2>5, <4>1, <4>2
    <3> QED BY <3>1, <3>2
  <2>9. TableInv' <=> /\ DOMAIN local_hashes' = UNION {DOMAIN Kept(p, got'[p]) : p \in HaveRecord'}
                      /\ \A p \in HaveRecord' : \A s \in DOMAIN Kept(p, got'[p]) :
                           local_hashes'[s] = Kept(p, got'[p])[s]
    BY <1>0 DEF TableInv, Kept
  <2> QED BY <2>7, <2>8, <2>9
<1>4. ASSUME NEW o \in Objs, Read(o) PROVE TableInv'
  <2>1. reader = "read" /\ o \in todo
    BY <1>4 DEF Read
  <2> QED BY <1>2, <1>3, <1>4, <2>1, ReadIs DEF Skips, Fails
<1>5. CASE \A o \in Objs : ~Read(o)
  BY <1>2, <1>5 DEF Next, vars, Compile, Open, Write, WriteLost, Kill, Delete, List, Finish, reading
<1> QED BY <1>4, <1>5

-----------------------------------------------------------------------------
(* The theorems.                                                           *)

LEMMA InvHolds == Spec => []Inv
<1>1. Init => Inv
  <2> SUFFICES ASSUME Init PROVE Inv
    OBVIOUS
  <2>1. TypeOK
    BY DEF Init, TypeOK, Outcomes
  <2>2. FileInv /\ CleanInv
    BY DEF Init, FileInv, CleanInv
  <2>3. KnownInv /\ GotInv
    BY DEF Init, KnownInv, GotInv
  <2>4. TableInv
    <3>1. HaveRecord = {}
      BY DEF Init, HaveRecord
    <3>2. DOMAIN local_hashes = {}
      BY DEF Init, Empty
    <3> QED BY <3>1, <3>2 DEF TableInv
  <2> QED BY <2>1, <2>2, <2>3, <2>4 DEF Inv
<1>2. Inv /\ [Next]_vars => Inv'
  BY TypeStep, FileStep, CleanStep, KnownStep, GotStep, TableStep DEF Inv
<1> QED BY <1>1, <1>2, PTL DEF Spec

\* However compilations, kills and deletions come between the steps of
\* read_info_files, get_record_from gives the whole record of a compilation that
\* printed its elements and is not older than the newest one when the walk began.
THEOREM InfoFilesMostRecent == Spec => []MostRecent
<1>1. Inv => MostRecent
  BY DEF Inv, GotInv, MostRecent
<1> QED BY <1>1, InvHolds, PTL

\* local_hashes has the elements of the records that were read, and no others.
THEOREM InfoFilesNotMixed == Spec => []NotMixed
<1>1. Inv => NotMixed
  BY DEF Inv, TableInv, NotMixed, HaveRecord
<1> QED BY <1>1, InvHolds, PTL

\* Deletions never make get_record_from fail.
THEOREM InfoFilesDeletionHarmless == Spec => []DeletionHarmless
<1>1. Inv => DeletionHarmless
  <2> SUFFICES ASSUME Inv, kills = 0, NEW o \in todo, wrapper[o] \notin {"open", "half"},
                      file[o] # None
               PROVE  get_record_from(o) = "record"
    <3>1. None # <<>>
      BY NoneIsNoFile
    <3>2. \A o \in Objs : file[o] = None => get_record_from(o) = "None"
      BY <3>1 DEF get_record_from
    <3> QED BY <3>2 DEF DeletionHarmless, Inv, TypeOK
  <2>1. o \in Objs /\ file[o] \in Seq(Pieces) /\ Len(file[o]) \in Nat
    BY Opened DEF Inv, TypeOK
  <2>2. Len(file[o]) # 0 /\ Uncut(file[o]) /\ file[o][Len(file[o])][2] # 1
    BY <2>1 DEF Inv, CleanInv
  <2>3. Paired(file[o])
    BY <2>1 DEF Inv, FileInv
  <2>4. Evaluates(lastLine(file[o]))
    BY <2>1, <2>2, <2>3, WholeEvaluates
  <2>5. file[o] # <<>>
    BY <2>2
  <2> QED BY <2>4, <2>5 DEF get_record_from
<1> QED BY <1>1, InvHolds, PTL
=============================================================================

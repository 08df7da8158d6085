------------------------------ MODULE Compiler ------------------------------
(***************************************************************************)
(* What a build system may expect of a compiler that "can be used exactly  *)
(* as clang would be invoked": while it runs, the object file may vanish   *)
(* and is then replaced by the object code of the current source; when it  *)
(* reports success the object file is there, holds that code and is newer  *)
(* than the source.  No other object file is affected.                     *)
(***************************************************************************)
CONSTANTS Objs, Versions, Code, NoFile

VARIABLES
  src,     \* the version of each object file's source
  out,     \* the content of each object file, or NoFile
  fresh,   \* whether it is newer than its source
  busy     \* whether its compiler runs

vars == <<src, out, fresh, busy>>

Init ==
  /\ src \in [Objs -> Versions]
  /\ out = [o \in Objs |-> NoFile]
  /\ fresh = [o \in Objs |-> FALSE]
  /\ busy = [o \in Objs |-> FALSE]

Edit(o, v) ==
  /\ ~busy[o]
  /\ src' = [src EXCEPT ![o] = v]
  /\ fresh' = [fresh EXCEPT ![o] = FALSE]
  /\ UNCHANGED <<out, busy>>

Run(o) ==
  /\ ~busy[o]
  /\ ~fresh[o]
  /\ busy' = [busy EXCEPT ![o] = TRUE]
  /\ UNCHANGED <<src, out, fresh>>

Remove(o) ==
  /\ busy[o]
  /\ out' = [out EXCEPT ![o] = NoFile]
  /\ fresh' = [fresh EXCEPT ![o] = FALSE]
  /\ UNCHANGED <<src, busy>>

\* The new content may carry an old time stamp at first.
Deliver(o, stamp) ==
  /\ busy[o]
  /\ out' = [out EXCEPT ![o] = Code[src[o]]]
  /\ fresh' = [fresh EXCEPT ![o] = stamp]
  /\ UNCHANGED <<src, busy>>

Finish(o) ==
  /\ busy[o]
  /\ out[o] = Code[src[o]]
  /\ fresh[o]
  /\ busy' = [busy EXCEPT ![o] = FALSE]
  /\ UNCHANGED <<src, out, fresh>>

Next ==
  \E o \in Objs :
    \/ \E v \in Versions : Edit(o, v)
    \/ Run(o)
    \/ Remove(o)
    \/ \E stamp \in BOOLEAN : Deliver(o, stamp)
    \/ Finish(o)

Spec == Init /\ [][Next]_vars
=============================================================================

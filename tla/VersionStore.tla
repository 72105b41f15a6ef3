---------------------------- MODULE VersionStore ----------------------------
(***************************************************************************)
(* What the model registry promises, whatever the file system does in      *)
(* between: a set of retained versions and a pointer that, when there is   *)
(* one, names one of them.  A version appears once, newest last; the       *)
(* pointer moves only to a retained version; the version it names is never *)
(* deleted.  A training forgets the pointer when it starts.                *)
(***************************************************************************)
EXTENDS Naturals

CONSTANT MaxVersions   \* bound: versions ever added

NoVersion == 0
VersionIds == 1 .. MaxVersions

VARIABLES kept,     \* the versions a rollback may restore
          current   \* the version in force, or NoVersion

vars == <<kept, current>>

Init == kept = {} /\ current = NoVersion

(* A new version is newer than every version retained so far. *)
Add(v) ==
    /\ \A w \in kept : w < v
    /\ kept' = kept \cup {v}
    /\ UNCHANGED current

PointTo(v) ==
    /\ v \in kept
    /\ current' = v
    /\ UNCHANGED kept

Drop(v) ==
    /\ v \in kept \ {current}
    /\ kept' = kept \ {v}
    /\ UNCHANGED current

Forget == current' = NoVersion /\ UNCHANGED kept

Next == Forget \/ \E v \in VersionIds : Add(v) \/ PointTo(v) \/ Drop(v)

Spec == Init /\ [][Next]_vars
=============================================================================

------------------------------- MODULE Mirror -------------------------------
(***************************************************************************)
(* What the sidecar promises of each object, whatever it does inside: it   *)
(* works with ever newer versions of the object, what happens to one       *)
(* object disturbs no other, and once it has the current version at hand   *)
(* it does not spoil a file that is right.  The detailed specification is  *)
(* Resources; SyncProperties holds the mapping.                            *)
(***************************************************************************)
EXTENDS Integers

CONSTANTS
    Obj,      \* the objects
    None      \* no version: the object is not to be on the volume

VARIABLES
    rev,      \* the last version given to any object
    wanted,   \* the version that is to be on the volume
    taken,    \* the last version the sidecar took up
    shown     \* the wanted objects all of whose files are right

vars == <<rev, wanted, taken, shown>>

(* Nothing is on the volume yet; an object without keys needs nothing there. *)
Init ==
    /\ rev = 0
    /\ wanted \in [Obj -> {None, 0}]
    /\ taken = [r \in Obj |-> -1]
    /\ shown \subseteq {r \in Obj : wanted[r] # None}

(* A user changes r.  What is on the volume may be right for the new version *)
(* by chance, or no longer; the other objects are not concerned.             *)
Change(r) ==
    /\ rev' = rev + 1
    /\ \E v \in {None, rev'} : wanted' = [wanted EXCEPT ![r] = v]
    /\ shown' \ {r} = shown \ {r}
    /\ r \in shown' => wanted'[r] # None
    /\ UNCHANGED taken

(* The sidecar takes up a version of r, never an older one than before. *)
Take(r) ==
    /\ \E v \in taken[r]..rev : taken' = [taken EXCEPT ![r] = v]
    /\ UNCHANGED <<rev, wanted, shown>>

(* A write makes the last file of r right. *)
Show(r) ==
    /\ wanted[r] # None
    /\ shown' = shown \union {r}
    /\ UNCHANGED <<rev, wanted, taken>>

(* A file of r that was right is changed for an older version of r. *)
Spoil(r) ==
    /\ taken[r] # wanted[r]
    /\ shown' = shown \ {r}
    /\ UNCHANGED <<rev, wanted, taken>>

Next == \E r \in Obj : Change(r) \/ Take(r) \/ Show(r) \/ Spoil(r)

Spec == Init /\ [][Next]_vars
=============================================================================

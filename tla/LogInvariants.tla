---------------------------- MODULE LogInvariants ---------------------------
(***************************************************************************)
(* The inductive invariants behind the properties of LogRotation.          *)
(***************************************************************************)
EXTENDS LogRotation

(* While a line is being emitted it is the next one; the handle is at the  *)
(* log only if there is one.                                               *)
EmitInv ==
    /\ pc \in {"move", "open", "write"} => line.no = last + 1 /\ last < MaxLines
    /\ pc = "move" => backup_count > 0
    /\ handle = "log" => disk[0] # None
    /\ (pc = "down") = (handle = "closed")

(* Whatever is on the disk was emitted. *)
NumbersInv == OnDisk \subseteq 1..last

(* The order of the lines, inductive together with NumbersInv. *)
OrderInv == EmitInv /\ NumbersInv /\ InOrder

(* While nothing fails, the handle is at the log except between the last   *)
(* rename and the opening, and the file a rename moves to is free.         *)
QuietInv == faults = 0 =>
    /\ pc \in {"idle", "move", "write"} => handle = "log"
    /\ pc = "open" => handle = "null" /\ disk[0] = None
    /\ pc = "move" /\ next < backup_count => disk[next + 1] = None

(* A line is written to a log that has room for it, or is empty. *)
RoomInv == faults = 0 /\ max_bytes > 0 /\ backup_count > 0 /\ pc = "write" =>
    \/ disk[0].lines = <<>>
    \/ disk[0].size + line.size <= max_bytes

BoundInv == QuietInv /\ RoomInv /\ Bounded

(* The missing backups below number i. *)
Holes(i) == {j \in 1..(i - 1) : disk[j] = None}

(* The hole a rotation carries towards the log, if it is below number i. *)
Carried(i) == IF pc = "move" /\ next + 1 < i THEN 1 ELSE 0

(* Each end of the process leaves one hole at most; the holes below the    *)
(* newest lost line, as those below any backup, are not more.              *)
HolesInv == faults = 0 =>
    /\ \A i \in 1..backup_count :
          disk[i] # None => Cardinality(Holes(i)) <= crashes + Carried(i)
    /\ Lost => Cardinality(Holes(backup_count + 1))
                 <= crashes + Carried(backup_count + 1)

(* What the proofs of the log rest on, as one run checks it: where the handle *)
(* and the gap of a rotation are at each step of emit (logger.rs:221-242).    *)
LogInv == OrderInv /\ SuffixKept /\ BoundInv /\ HolesInv
=============================================================================

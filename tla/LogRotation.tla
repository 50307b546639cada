---------------------------- MODULE LogRotation -----------------------------
(***************************************************************************)
(* The rotating log file of logger.rs: what emit does to the file and its  *)
(* backups, one system call after the other, so that the process may die   *)
(* between any two of them and any of them may fail.  File 0 is the log    *)
(* itself, file i its backup with the suffix ".i".  Lines are numbered.    *)
(***************************************************************************)
EXTENDS Integers, Sequences, FiniteSets

CONSTANTS
    None,        \* no such file
    Limits,      \* the values maxBytes may have
    Counts,      \* the values backupCount may have
    Sizes,       \* the lengths of lines
    MaxLines,    \* bound on the lines
    MaxCrashes,  \* bound on the ends of the process
    MaxFaults    \* bound on the failing system calls

VARIABLES
    max_bytes, backup_count,
    disk,        \* the files: the numbers of their lines, and their length
    handle,      \* Sink.file: "log", "null" for /dev/null, or "closed"
    pc,          \* where emit is: "idle", "move", "open", "write"; or "down"
    next,        \* the file to be moved next
    line,        \* the line being emitted
    last,        \* auxiliary: the lines emitted so far
    crashes, faults

config == <<max_bytes, backup_count>>
bounds == <<crashes, faults>>
vars == <<config, disk, handle, pc, next, line, last, bounds>>

ASSUME LogAssumption ==
    /\ Limits \subseteq Nat /\ Counts \subseteq Nat
    /\ Sizes \subseteq Nat \ {0}
    /\ {MaxLines, MaxCrashes, MaxFaults} \subseteq Nat
    /\ None \notin [lines: Seq(1..MaxLines), size: Nat]
-----------------------------------------------------------------------------
FileNumbers == 0..backup_count

(* The size of what the handle points to: /dev/null has none. *)
Metadata == IF handle = "log" THEN disk[0].size ELSE 0

(* Mutant: the new line is not counted. *)
TooLongAlready(found, size) == /\ max_bytes > 0 /\ backup_count > 0
                               /\ found > max_bytes
TooLong(found, size) == /\ max_bytes > 0 /\ backup_count > 0
                        /\ found + size > max_bytes

(* A system call may fail while the bound lasts; emit ignores it. *)
Fault == faults < MaxFaults /\ faults' = faults + 1

(* A rotation starts with the oldest backup. *)
Decide(found, size) ==
    IF TooLong(found, size) THEN pc' = "move" /\ next' = backup_count
    ELSE pc' = "write" /\ UNCHANGED next

(* emit asks for the size only if there is a limit; a size that cannot be   *)
(* read counts as 0.                                                        *)
Emit(size) ==
    /\ pc = "idle"
    /\ last < MaxLines
    /\ line' = [no |-> last + 1, size |-> size]
    /\ \/ Decide(Metadata, size) /\ UNCHANGED bounds
       \/ max_bytes > 0 /\ Fault /\ Decide(0, size) /\ UNCHANGED crashes
    /\ UNCHANGED <<config, disk, handle, last>>

(* Mutants: the backups are shifted in ascending order; by two at a time. *)
ThenUpwards(i) ==
    IF i = 0 THEN -1
    ELSE IF i = backup_count THEN (IF backup_count > 1 THEN 1 ELSE 0)
    ELSE IF i + 1 < backup_count THEN i + 1 ELSE 0
ThenSkip(i) == i - 2

Then(i) == i - 1

(* Mutant: files are copied, not renamed. *)
Copied == IF next = backup_count THEN disk ELSE [disk EXCEPT ![next + 1] = disk[next]]

Moved == IF next = backup_count THEN [disk EXCEPT ![next] = None]
         ELSE IF disk[next] = None THEN disk
         ELSE [disk EXCEPT ![next + 1] = disk[next], ![next] = None]

(* The oldest backup is removed, the others shifted, the log comes last; it *)
(* is closed before: the handle points at /dev/null meanwhile.  A panic on   *)
(* opening /dev/null aborts the process: it is Crash at next = 0.           *)
Move ==
    /\ pc = "move"
    /\ \/ disk' = Moved /\ UNCHANGED bounds
       \/ Fault /\ UNCHANGED <<disk, crashes>>
    /\ next' = Then(next)
    /\ IF next = 0 THEN pc' = "open" /\ handle' = "null"
       ELSE UNCHANGED <<pc, handle>>
    /\ UNCHANGED <<config, line, last>>

(* Mutant: an existing log is truncated. *)
Truncated == [disk EXCEPT ![0] = [lines |-> <<>>, size |-> 0]]

(* create(true).append(true) *)
Opened == IF disk[0] # None THEN disk
          ELSE [disk EXCEPT ![0] = [lines |-> <<>>, size |-> 0]]

(* A log that cannot be opened again leaves the handle at /dev/null. *)
Open ==
    /\ pc = "open"
    /\ \/ disk' = Opened /\ handle' = "log" /\ UNCHANGED bounds
       \/ Fault /\ UNCHANGED <<disk, handle, crashes>>
    /\ pc' = "write"
    /\ UNCHANGED <<config, next, line, last>>

(* Lines written to /dev/null are gone. *)
Written == IF handle # "log" THEN disk
           ELSE [disk EXCEPT ![0] = [lines |-> Append(@.lines, line.no),
                                     size |-> @.size + line.size]]

Write ==
    /\ pc = "write"
    /\ \/ /\ disk' = Written
          /\ UNCHANGED bounds
       \/ Fault /\ UNCHANGED <<disk, crashes>>
    /\ last' = line.no
    /\ pc' = "idle"
    /\ UNCHANGED <<config, handle, next, line>>

(* The process ends; a line it had not written was not emitted. *)
Crash ==
    /\ pc # "down"
    /\ crashes < MaxCrashes
    /\ crashes' = crashes + 1
    /\ pc' = "down"
    /\ handle' = "closed"
    /\ next' = 0 /\ line' = [no |-> 0, size |-> 0]
    /\ UNCHANGED <<config, disk, last, faults>>

(* init: a log that cannot be opened ends the process at once. *)
Restart ==
    /\ pc = "down"
    /\ pc' = "idle"
    /\ handle' = "log"
    /\ disk' = Opened
    /\ UNCHANGED <<config, next, line, last, bounds>>
-----------------------------------------------------------------------------
Init ==
    /\ max_bytes \in Limits
    /\ backup_count \in Counts
    /\ disk = [i \in FileNumbers |-> None]
    /\ handle = "closed"
    /\ pc = "down"
    /\ next = 0
    /\ line = [no |-> 0, size |-> 0]
    /\ last = 0
    /\ crashes = 0 /\ faults = 0

Next == (\E size \in Sizes : Emit(size)) \/ Move \/ Open \/ Write \/ Crash \/ Restart

Spec == Init /\ [][Next]_vars
-----------------------------------------------------------------------------
Lines(i) == IF disk[i] = None THEN <<>> ELSE disk[i].lines

OnDisk == UNION {{Lines(i)[k] : k \in DOMAIN Lines(i)} : i \in FileNumbers}

Lost == \E n \in 1..last : n \notin OnDisk

Backups == {i \in FileNumbers \ {0} : disk[i] # None}

(* The variables have their types. *)
TypeOK ==
    /\ max_bytes \in Limits /\ backup_count \in Counts
    /\ disk \in [FileNumbers -> [lines: Seq(1..MaxLines), size: Nat] \union {None}]
    /\ handle \in {"log", "null", "closed"}
    /\ pc \in {"idle", "move", "open", "write", "down"}
    /\ next \in IF pc = "move" THEN 0..backup_count ELSE {0, -1}
    /\ line \in [no: 0..MaxLines, size: Sizes \union {0}]
    /\ last \in 0..MaxLines
    /\ crashes \in 0..MaxCrashes /\ faults \in 0..MaxFaults

(* Whatever fails, and wherever the process ends: a reader who goes from the  *)
(* oldest backup to the log finds the lines in order, and none of them twice  *)
(* (logger.rs:225-241).                                                       *)
InOrder == \A i, j \in FileNumbers :
    \A k \in DOMAIN Lines(i), l \in DOMAIN Lines(j) :
        i > j \/ (i = j /\ k < l) => Lines(i)[k] < Lines(j)[l]

(* While no system call fails, the lines that are lost are the oldest ones,   *)
(* even if the process ends in the middle of a rotation (logger.rs:225-241).  *)
SuffixKept == faults = 0 =>
    \A n \in OnDisk : n <= last /\ n..last \subseteq OnDisk

(* ... no file outgrows maxBytes, unless by a single line (logger.rs:221-224). *)
Bounded == faults = 0 /\ max_bytes > 0 /\ backup_count > 0 =>
    \A i \in FileNumbers : disk[i] # None /\ disk[i].size > max_bytes
                               => Len(disk[i].lines) = 1

(* ... and lines are given up only for backupCount newer backups; each end of *)
(* the process costs one backup at most (logger.rs:226-229).                  *)
BackupsKept == faults = 0 /\ pc = "idle" /\ Lost =>
    Cardinality(Backups) >= backup_count - crashes
=============================================================================

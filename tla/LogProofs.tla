----------------------------- MODULE LogProofs ------------------------------
(***************************************************************************)
(* The proofs about the rotating log: the types, the order of the lines,   *)
(* and, while no system call fails, which lines are lost, how long a file  *)
(* may be and how many backups there are.                                  *)
(***************************************************************************)
EXTENDS LogInvariants, FiniteSetTheorems, TLAPS

File == [lines: Seq(1..MaxLines), size: Nat]

(* The log is one of the files; a file that is there is a record. *)
LEMMA Files == ASSUME TypeOK
               PROVE  /\ backup_count \in Nat /\ max_bytes \in Nat
                      /\ FileNumbers = 0..backup_count
                      /\ 0 \in FileNumbers
                      /\ disk \in [FileNumbers -> File \union {None}]
                      /\ \A i \in FileNumbers : disk[i] # None => disk[i] \in File
                      /\ None \notin File
  BY LogAssumption DEF TypeOK, FileNumbers, File

(* A new file has no lines. *)
LEMMA NewFile == [lines |-> <<>>, size |-> 0] \in File
  BY DEF File

(* A rename keeps the types. *)
LEMMA MovedType == ASSUME TypeOK, pc = "move"
                   PROVE  Moved \in [FileNumbers -> File \union {None}]
<1>1. next \in 0..backup_count
  BY DEF TypeOK
<1>2. /\ backup_count \in Nat
      /\ FileNumbers = 0..backup_count
      /\ disk \in [FileNumbers -> File \union {None}]
  BY Files
<1>3. next \in FileNumbers
  BY <1>1, <1>2
<1>4. ASSUME next # backup_count PROVE next + 1 \in FileNumbers
  BY <1>1, <1>2, <1>4
<1> QED
  BY <1>2, <1>3, <1>4 DEF Moved

(* Opening the log keeps the types. *)
LEMMA OpenedType == ASSUME TypeOK
                    PROVE  /\ Opened \in [FileNumbers -> File \union {None}]
                           /\ Opened[0] # None
  BY Files, NewFile DEF Opened

(* Writing a line keeps the types. *)
LEMMA WrittenType == ASSUME TypeOK, EmitInv, pc = "write"
                     PROVE  /\ Written \in [FileNumbers -> File \union {None}]
                            /\ handle = "log" => Written[0] # None
<1>1. CASE handle # "log"
  BY <1>1, Files DEF Written
<1>2. CASE handle = "log"
  <2> DEFINE new == [lines |-> Append(disk[0].lines, line.no),
                     size |-> disk[0].size + line.size]
  <2>1. disk[0] \in File
    BY <1>2, Files DEF EmitInv
  <2>2. line.no \in 1..MaxLines /\ line.size \in Nat
    <3>1. line.no \in 0..MaxLines /\ line.size \in Sizes \union {0}
      BY DEF TypeOK
    <3>2. line.no = last + 1 /\ last \in 0..MaxLines
      BY DEF TypeOK, EmitInv
    <3>3. MaxLines \in Nat /\ Sizes \subseteq Nat
      BY LogAssumption
    <3>4. line.no \in 1..MaxLines
      BY <3>1, <3>2, <3>3
    <3>5. \A s \in Sizes \union {0} : s \in Nat
      BY <3>3
    <3>6. line.size \in Nat
      BY <3>1, <3>5, Zenon
    <3> QED
      BY <3>4, <3>6
  <2>3. new.lines \in Seq(1..MaxLines)
    BY <2>1, <2>2 DEF File
  <2>4. new.size \in Nat
    BY <2>1, <2>2 DEF File
  <2>5. new \in File
    BY <2>3, <2>4 DEF File
  <2>6. Written = [disk EXCEPT ![0] = new]
    BY <1>2 DEF Written
  <2> HIDE DEF new
  <2> QED
    BY <2>5, <2>6, Files
<1> QED
  BY <1>1, <1>2

(* The type invariant of a step, from the type of the disk. *)
LEMMA TypeStep ==
    ASSUME TypeOK, EmitInv, [Next]_vars
    PROVE  TypeOK' /\ EmitInv'
<1> USE DEF config, bounds
<1>0. backup_count \in Nat /\ max_bytes \in Nat
  BY Files
<1>1. ASSUME NEW size \in Sizes, Emit(size)
      PROVE  TypeOK' /\ EmitInv'
  <2>1. /\ line' \in [no: 0..MaxLines, size: Sizes \union {0}]
        /\ crashes' = crashes /\ faults' \in 0..MaxFaults
    BY <1>1, LogAssumption DEF Emit, Fault, TypeOK
  <2>2. next' \in (IF pc' = "move" THEN 0..backup_count ELSE {0, -1})
    BY <1>0, <1>1 DEF Emit, Decide, TypeOK
  <2>3. TypeOK'
    BY <1>1, <2>1, <2>2 DEF Emit, Decide, TypeOK, FileNumbers
  <2>4. EmitInv'
    BY <1>0, <1>1, LogAssumption DEF Emit, Decide, TypeOK, EmitInv, TooLong
  <2> QED
    BY <2>3, <2>4
<1>2. CASE Move
  <2>1. disk' \in [FileNumbers -> File \union {None}]
    BY <1>2, MovedType, Files DEF Move
  <2>2. next' \in (IF pc' = "move" THEN 0..backup_count ELSE {0, -1})
    BY <1>0, <1>2 DEF Move, TypeOK, Then
  <2>3. crashes' \in 0..MaxCrashes /\ faults' \in 0..MaxFaults
    BY <1>2, LogAssumption DEF Move, TypeOK, Fault
  <2>4. TypeOK'
    BY <1>2, <2>1, <2>2, <2>3 DEF Move, TypeOK, FileNumbers, File
  <2>5. ASSUME handle' = "log" PROVE disk'[0] # None
    <3>1. next # 0 /\ handle = "log" /\ next \in 0..backup_count
      BY <1>2, <2>5 DEF Move, TypeOK
    <3>2. disk[0] # None
      BY <3>1 DEF EmitInv
    <3>3. Moved[0] = disk[0]
      BY <1>0, <3>1, Files DEF Moved
    <3> QED
      BY <1>2, <3>2, <3>3 DEF Move
  <2>6. EmitInv'
    BY <1>2, <2>5 DEF Move, EmitInv
  <2> QED
    BY <2>4, <2>6
<1>3. CASE Open
  <2>1. disk' \in [FileNumbers -> File \union {None}]
    BY <1>3, OpenedType, Files DEF Open
  <2>2. crashes' \in 0..MaxCrashes /\ faults' \in 0..MaxFaults
    BY <1>3, LogAssumption DEF Open, TypeOK, Fault
  <2>3. TypeOK'
    BY <1>3, <2>1, <2>2 DEF Open, TypeOK, FileNumbers, File
  <2>4. EmitInv'
    BY <1>3, OpenedType DEF Open, EmitInv
  <2> QED
    BY <2>3, <2>4
<1>4. CASE Write
  <2>1. disk' \in [FileNumbers -> File \union {None}]
    BY <1>4, WrittenType, Files DEF Write
  <2>2. crashes' \in 0..MaxCrashes /\ faults' \in 0..MaxFaults
    BY <1>4, LogAssumption DEF Write, TypeOK, Fault
  <2>3. TypeOK'
    BY <1>4, <2>1, <2>2 DEF Write, TypeOK, FileNumbers, File
  <2>4. EmitInv'
    BY <1>4, WrittenType DEF Write, EmitInv
  <2> QED
    BY <2>3, <2>4
<1>5. CASE Crash
  <2>1. line' \in [no: 0..MaxLines, size: Sizes \union {0}]
    BY <1>5, LogAssumption DEF Crash
  <2>2. crashes' \in 0..MaxCrashes
    BY <1>5, LogAssumption DEF Crash, TypeOK
  <2>3. TypeOK'
    BY <1>5, <2>1, <2>2 DEF Crash, TypeOK, FileNumbers
  <2>4. EmitInv'
    BY <1>5 DEF Crash, EmitInv
  <2> QED
    BY <2>3, <2>4
<1>6. CASE Restart
  <2>1. TypeOK'
    BY <1>6, OpenedType DEF Restart, TypeOK, FileNumbers, File
  <2>2. EmitInv'
    BY <1>6, OpenedType DEF Restart, EmitInv
  <2> QED
    BY <2>1, <2>2
<1>7. CASE UNCHANGED vars
  BY <1>7 DEF vars, TypeOK, EmitInv, FileNumbers
<1> QED
  BY <1>1, <1>2, <1>3, <1>4, <1>5, <1>6, <1>7 DEF Next

(* Every reachable state has its types: in particular the handle is at the *)
(* log only if there is a log, and the renames of emit stay between the    *)
(* log and the oldest backup (logger.rs:224-241).                          *)
THEOREM LogTypes == Spec => [](TypeOK /\ EmitInv)
<1>1. Init => TypeOK /\ EmitInv
  BY LogAssumption DEF Init, TypeOK, EmitInv, FileNumbers
<1>2. TypeOK /\ EmitInv /\ [Next]_vars => (TypeOK /\ EmitInv)'
  BY TypeStep
<1> QED
  BY <1>1, <1>2, PTL DEF Spec
-----------------------------------------------------------------------------
(* The lines of a file are a sequence of numbers. *)
LEMMA LinesType == ASSUME TypeOK, NEW i \in FileNumbers
                   PROVE  Lines(i) \in Seq(1..MaxLines)
<1>1. CASE disk[i] = None
  BY <1>1 DEF Lines
<1>2. CASE disk[i] # None
  <2>1. disk[i] \in File
    BY <1>2, Files
  <2> QED
    BY <1>2, <2>1 DEF Lines, File
<1> QED
  BY <1>1, <1>2

(* A line is on the disk if it is in one of the files. *)
LEMMA OnDiskMember ==
    \A n : n \in OnDisk <=> \E i \in FileNumbers : \E k \in DOMAIN Lines(i) : n = Lines(i)[k]
  BY DEF OnDisk

(* The same of the state after a step. *)
LEMMA OnDiskMemberNext ==
    \A n : n \in OnDisk' <=> \E i \in FileNumbers' : \E k \in DOMAIN Lines(i)' : n = Lines(i)'[k]
  BY DEF OnDisk

(* Opening the log changes no lines. *)
LEMMA OpenedLines == ASSUME TypeOK, disk' = Opened
                     PROVE  \A i \in FileNumbers : Lines(i)' = Lines(i)
  BY Files DEF Opened, Lines

(* The file whose lines number i has after a move, if it has any. *)
From(i) == IF next < backup_count /\ disk[next] # None /\ i = next + 1 THEN next ELSE i

(* A move empties files or renames one to the next number: the order of    *)
(* the others is kept.                                                     *)
LEMMA MovedLines ==
    ASSUME TypeOK, pc = "move", disk' = Moved
    PROVE  /\ \A i \in FileNumbers : /\ From(i) \in FileNumbers
                                     /\ Lines(i)' = <<>> \/ Lines(i)' = Lines(From(i))
           /\ \A i, j \in FileNumbers :
                 i > j /\ Lines(i)' # <<>> /\ Lines(j)' # <<>> => From(i) > From(j)
<1>1. next \in 0..backup_count /\ backup_count \in Nat
  BY Files DEF TypeOK
<1>2. CASE next = backup_count
  <2>1. \A i \in FileNumbers : From(i) = i
    BY <1>1, <1>2, Files DEF From
  <2>2. \A i \in FileNumbers : disk'[i] = IF i = next THEN None ELSE disk[i]
    BY <1>2, Files DEF Moved
  <2>3. \A i \in FileNumbers : Lines(i)' = <<>> \/ Lines(i)' = Lines(i)
    BY <2>2 DEF Lines
  <2> QED
    BY <2>1, <2>3, Files
<1>3. CASE next # backup_count /\ disk[next] = None
  <2>1. \A i \in FileNumbers : From(i) = i
    BY <1>3 DEF From
  <2>2. disk' = disk
    BY <1>3 DEF Moved
  <2>3. \A i \in FileNumbers : Lines(i)' = Lines(i)
    BY <2>2 DEF Lines
  <2> QED
    BY <2>1, <2>3, Files
<1>4. CASE next # backup_count /\ disk[next] # None
  <2>1. next \in FileNumbers /\ next + 1 \in FileNumbers /\ next < backup_count
    BY <1>1, <1>4, Files
  <2>2. \A i \in FileNumbers : From(i) = IF i = next + 1 THEN next ELSE i
    BY <1>4, <2>1 DEF From
  <2>3. \A i \in FileNumbers :
           disk'[i] = IF i = next THEN None ELSE IF i = next + 1 THEN disk[next] ELSE disk[i]
    BY <1>1, <1>4, <2>1, Files DEF Moved
  <2>4. \A i \in FileNumbers :
           Lines(i)' = IF i = next THEN <<>> ELSE Lines(From(i))
    BY <1>1, <2>1, <2>2, <2>3, Files DEF Lines
  <2>5. \A i \in FileNumbers : From(i) \in FileNumbers
    BY <2>1, <2>2
  <2>6. ASSUME NEW i \in FileNumbers, NEW j \in FileNumbers,
               i > j, i # next, j # next
        PROVE  From(i) > From(j)
    BY <1>1, <2>2, <2>6, Files
  <2> QED
    BY <2>4, <2>5, <2>6
<1> QED
  BY <1>2, <1>3, <1>4

(* A line is written at the end of the log. *)
LEMMA WrittenLines ==
    ASSUME TypeOK, EmitInv, pc = "write", disk' = Written
    PROVE  /\ \A i \in FileNumbers : i # 0 => Lines(i)' = Lines(i)
           /\ handle # "log" => Lines(0)' = Lines(0)
           /\ handle = "log" => Lines(0)' = Append(Lines(0), last + 1)
<1>1. CASE handle # "log"
  BY <1>1 DEF Written, Lines
<1>2. CASE handle = "log"
  <2>1. disk[0] # None /\ line.no = last + 1
    BY <1>2 DEF EmitInv
  <2>2. disk'[0] # None
    BY <1>2, WrittenType
  <2>3. disk'[0].lines = Append(disk[0].lines, last + 1)
    BY <1>2, <2>1, Files DEF Written
  <2>4. \A i \in FileNumbers : i # 0 => disk'[i] = disk[i]
    BY <1>2, Files DEF Written
  <2> QED
    BY <1>2, <2>1, <2>2, <2>3, <2>4 DEF Lines
<1> QED
  BY <1>1, <1>2

(* Where no file changes its lines, the same lines are on the disk, in the *)
(* same order.                                                             *)
LEMMA SameLines ==
    ASSUME UNCHANGED backup_count, \A i \in FileNumbers : Lines(i)' = Lines(i)
    PROVE  OnDisk' = OnDisk /\ (InOrder => InOrder')
<1>1. FileNumbers' = FileNumbers
  BY DEF FileNumbers
<1>2. OnDisk' = OnDisk
  BY <1>1, OnDiskMember, OnDiskMemberNext
<1>3. InOrder => InOrder'
  BY <1>1 DEF InOrder
<1> QED
  BY <1>2, <1>3

(* A move loses lines or renames files, and keeps the order. *)
LEMMA MovedOrder ==
    ASSUME TypeOK, pc = "move", disk' = Moved, UNCHANGED backup_count, InOrder
    PROVE  OnDisk' \subseteq OnDisk /\ InOrder'
<1>1. FileNumbers' = FileNumbers
  BY DEF FileNumbers
<1>2. OnDisk' \subseteq OnDisk
  <2> SUFFICES ASSUME NEW n, n \in OnDisk' PROVE n \in OnDisk
    OBVIOUS
  <2>1. PICK i \in FileNumbers : \E k \in DOMAIN Lines(i)' : n = Lines(i)'[k]
    BY <1>1, OnDiskMemberNext
  <2>2. Lines(i)' # <<>>
    BY <2>1
  <2> QED
    BY <2>1, <2>2, MovedLines, OnDiskMember
<1>3. SUFFICES ASSUME NEW i \in FileNumbers, NEW j \in FileNumbers,
                      NEW k \in DOMAIN Lines(i)', NEW l \in DOMAIN Lines(j)',
                      i > j \/ (i = j /\ k < l)
               PROVE  Lines(i)'[k] < Lines(j)'[l]
  BY <1>1, <1>2 DEF InOrder
<1>4. Lines(i)' # <<>> /\ Lines(j)' # <<>>
  OBVIOUS
<1>5. /\ Lines(i)' = Lines(From(i)) /\ Lines(j)' = Lines(From(j))
      /\ From(i) \in FileNumbers /\ From(j) \in FileNumbers
      /\ i > j => From(i) > From(j)
  BY <1>4, MovedLines
<1>6. CASE i > j
  BY <1>5, <1>6 DEF InOrder
<1>7. CASE i = j /\ k < l
  BY <1>5, <1>7 DEF InOrder
<1> QED
  BY <1>3, <1>6, <1>7

(* A line written is the newest, at the end of the first file. *)
LEMMA WrittenOrder ==
    ASSUME TypeOK, EmitInv, NumbersInv, pc = "write", disk' = Written,
           UNCHANGED backup_count, InOrder
    PROVE  /\ handle # "log" => OnDisk' = OnDisk
           /\ handle = "log" => OnDisk' = OnDisk \union {last + 1}
           /\ InOrder'
<1>1. FileNumbers' = FileNumbers /\ 0 \in FileNumbers /\ FileNumbers \subseteq Nat
  BY Files DEF FileNumbers
<1>2. CASE handle # "log"
  BY <1>2, WrittenLines, SameLines
<1>3. CASE handle = "log"
  <2> DEFINE old == Lines(0)
             new == Lines(0)'
  <2>1. old \in Seq(1..MaxLines) /\ last \in Nat
    BY <1>1, LinesType, LogAssumption DEF TypeOK
  <2>2. new = Append(old, last + 1)
    BY <1>3, WrittenLines
  <2>3. Len(old) \in Nat /\ DOMAIN old = 1..Len(old) /\ Len(new) = Len(old) + 1
        /\ DOMAIN new = 1..(Len(old) + 1)
        /\ new[Len(old) + 1] = last + 1
        /\ \A k \in 1..Len(old) : new[k] = old[k]
    BY <2>1, <2>2
  <2>4. \A i \in FileNumbers : i # 0 => Lines(i)' = Lines(i)
    BY WrittenLines
  <2>5. \A n \in OnDisk : n \in Nat /\ n <= last
    BY <2>1 DEF NumbersInv
  <2> HIDE DEF old, new
  <2>6. ASSUME NEW n \in OnDisk' PROVE n \in OnDisk \union {last + 1}
    <3>1. PICK i \in FileNumbers : \E k \in DOMAIN Lines(i)' : n = Lines(i)'[k]
      BY <1>1, <2>6, OnDiskMemberNext
    <3>2. CASE i # 0
      BY <2>4, <3>1, <3>2, OnDiskMember
    <3>3. CASE i = 0
      <4>1. PICK k \in 1..(Len(old) + 1) : n = new[k]
        BY <2>3, <3>1, <3>3 DEF new
      <4>2. CASE k \in 1..Len(old)
        BY <1>1, <2>3, <4>1, <4>2, OnDiskMember DEF old
      <4>3. CASE k = Len(old) + 1
        BY <2>3, <4>1, <4>3
      <4> QED
        BY <2>3, <4>1, <4>2, <4>3
    <3> QED
      BY <3>2, <3>3
  <2>7. ASSUME NEW n \in OnDisk \union {last + 1} PROVE n \in OnDisk'
    <3>1. CASE n = last + 1
      <4>1. Len(old) + 1 \in DOMAIN new
        BY <2>3
      <4> QED
        BY <1>1, <2>3, <3>1, <4>1, OnDiskMemberNext DEF new
    <3>2. CASE n \in OnDisk
      <4>1. PICK i \in FileNumbers : \E k \in DOMAIN Lines(i) : n = Lines(i)[k]
        BY <3>2, OnDiskMember
      <4>2. CASE i # 0
        BY <1>1, <2>4, <4>1, <4>2, OnDiskMemberNext
      <4>3. CASE i = 0
        <5>1. PICK k \in 1..Len(old) : n = old[k]
          BY <2>3, <4>1, <4>3 DEF old
        <5>2. k \in DOMAIN new /\ n = new[k]
          BY <2>3, <5>1
        <5> QED
          BY <1>1, <5>2, OnDiskMemberNext DEF new
      <4> QED
        BY <4>2, <4>3
    <3> QED
      BY <2>7, <3>1, <3>2
  <2>8. OnDisk' = OnDisk \union {last + 1}
    BY <2>6, <2>7
  <2>9. ASSUME NEW i \in FileNumbers, NEW j \in FileNumbers,
               NEW k \in DOMAIN Lines(i)', NEW l \in DOMAIN Lines(j)',
               i > j \/ (i = j /\ k < l)
        PROVE  Lines(i)'[k] < Lines(j)'[l]
    <3>1. CASE j # 0
      <4>1. i # 0
        BY <1>1, <2>9, <3>1
      <4> QED
        BY <2>4, <2>9, <3>1, <4>1 DEF InOrder
    <3>2. CASE j = 0 /\ l \in 1..Len(old)
      <4>1. new[l] = old[l] /\ l \in DOMAIN old
        BY <2>3, <3>2
      <4>2. CASE i # 0
        <5>1. Lines(i)[k] < old[l]
          BY <2>4, <2>9, <3>2, <4>1, <4>2 DEF InOrder, old
        <5> QED
          BY <2>4, <3>2, <4>1, <4>2, <5>1 DEF new
      <4>3. CASE i = 0
        <5>1. k \in 1..Len(old) /\ k < l
          BY <1>1, <2>3, <2>9, <3>2, <4>3 DEF new
        <5>2. old[k] < old[l]
          BY <1>1, <2>3, <4>1, <5>1 DEF InOrder, old
        <5> QED
          BY <2>3, <3>2, <4>1, <4>3, <5>1, <5>2 DEF new
      <4> QED
        BY <4>2, <4>3
    <3>3. CASE j = 0 /\ l = Len(old) + 1
      <4>1. Lines(j)'[l] = last + 1
        BY <2>3, <3>3 DEF new
      <4>2. Lines(i)'[k] \in OnDisk
        <5>1. CASE i # 0
          BY <2>4, <5>1, OnDiskMember
        <5>2. CASE i = 0
          <6>1. k \in 1..Len(old)
            BY <1>1, <2>3, <2>9, <3>3, <5>2 DEF new
          <6> QED
            BY <2>3, <5>2, <6>1, OnDiskMember DEF old, new
        <5> QED
          BY <5>1, <5>2
      <4> QED
        BY <2>1, <2>5, <4>1, <4>2
    <3>4. j = 0 => l \in 1..(Len(old) + 1)
      BY <2>3 DEF new
    <3> QED
      BY <2>3, <3>1, <3>2, <3>3, <3>4
  <2>10. InOrder'
    BY <1>1, <2>9 DEF InOrder
  <2> QED
    BY <1>3, <2>8, <2>10
<1> QED
  BY <1>2, <1>3
-----------------------------------------------------------------------------
(* Every step keeps the order of the lines. *)
LEMMA OrderStep ==
    ASSUME TypeOK, EmitInv, NumbersInv, InOrder, [Next]_vars
    PROVE  NumbersInv' /\ InOrder'
<1> USE DEF config, bounds
<1>1. UNCHANGED backup_count
  BY DEF Next, Emit, Move, Open, Write, Crash, Restart, vars
<1>2. last \in Nat
  BY LogAssumption DEF TypeOK
<1>3. CASE UNCHANGED <<disk, last>>
  <2>1. \A i \in FileNumbers : Lines(i)' = Lines(i)
    BY <1>3 DEF Lines
  <2> QED
    BY <1>1, <1>3, <2>1, SameLines DEF NumbersInv
<1>4. CASE disk' = Opened /\ UNCHANGED last
  BY <1>1, <1>4, OpenedLines, SameLines DEF NumbersInv
<1>5. CASE disk' = Moved /\ UNCHANGED last /\ pc = "move"
  BY <1>1, <1>5, MovedOrder DEF NumbersInv
<1>6. CASE Write
  <2>1. last' = last + 1 /\ 1..last \subseteq 1..last'
    BY <1>2, <1>6 DEF Write, EmitInv
  <2>2. OnDisk' \subseteq OnDisk \union {last + 1} /\ InOrder'
    <3>1. CASE disk' = Written
      BY <1>1, <1>6, <3>1, WrittenOrder DEF Write
    <3>2. CASE disk' = disk
      <4>1. \A i \in FileNumbers : Lines(i)' = Lines(i)
        BY <3>2 DEF Lines
      <4> QED
        BY <1>1, <4>1, SameLines
    <3> QED
      BY <1>6, <3>1, <3>2 DEF Write
  <2>3. last + 1 \in 1..last'
    BY <1>2, <2>1
  <2> QED
    BY <2>1, <2>2, <2>3 DEF NumbersInv
<1> QED
  BY <1>3, <1>4, <1>5, <1>6 DEF Next, Emit, Move, Open, Crash, Restart, vars

(* At the start there are no lines. *)
LEMMA NoLines == ASSUME Init
                 PROVE  /\ TypeOK /\ EmitInv
                        /\ OnDisk = {} /\ NumbersInv /\ InOrder
<1>1. TypeOK /\ EmitInv
  BY LogAssumption DEF Init, TypeOK, EmitInv, FileNumbers
<1>2. \A i \in FileNumbers : Lines(i) = <<>>
  BY DEF Init, Lines
<1>3. \A i \in FileNumbers : DOMAIN Lines(i) = {}
  BY <1>2
<1>4. OnDisk = {}
  BY <1>3, OnDiskMember
<1> QED
  BY <1>1, <1>3, <1>4 DEF NumbersInv, InOrder

(* The order is kept in every behaviour, together with what it rests on. *)
LEMMA LinesAlways == Spec => [](TypeOK /\ OrderInv)
<1>1. Init => TypeOK /\ OrderInv
  BY NoLines DEF OrderInv
<1>2. TypeOK /\ OrderInv /\ [Next]_vars => (TypeOK /\ OrderInv)'
  BY TypeStep, OrderStep DEF OrderInv
<1> QED
  BY <1>1, <1>2, PTL DEF Spec

(* Whatever fails and wherever the process ends, the lines on the disk are *)
(* in order, from the oldest backup to the log, and none is there twice    *)
(* (logger.rs:225-241).                                                    *)
THEOREM InOrderCorrect == Spec => []InOrder
<1>1. TypeOK /\ OrderInv => InOrder
  BY DEF OrderInv
<1> QED
  BY <1>1, LinesAlways, PTL
-----------------------------------------------------------------------------
(* A step after which no call has failed did not fail itself. *)
LEMMA NoFault == ASSUME TypeOK, [Next]_vars, faults' = 0
                 PROVE  faults = 0 /\ ~Fault
<1>1. faults \in Nat
  BY LogAssumption DEF TypeOK
<1>2. ~Fault
  BY <1>1 DEF Fault
<1> QED
  BY <1>2 DEF Next, Emit, Move, Open, Write, Crash, Restart, vars, bounds

(* Every step keeps the handle at the log, and the target of a rename free. *)
LEMMA QuietStep ==
    ASSUME TypeOK, EmitInv, QuietInv, [Next]_vars
    PROVE  QuietInv'
<1> USE DEF config, bounds
<1>0. SUFFICES ASSUME faults' = 0
               PROVE  /\ pc' \in {"idle", "move", "write"} => handle' = "log"
                      /\ pc' = "open" => handle' = "null" /\ disk'[0] = None
                      /\ pc' = "move" /\ next' < backup_count' => disk'[next' + 1] = None
  BY DEF QuietInv
<1>1. /\ faults = 0 /\ ~Fault
      /\ pc \in {"idle", "move", "write"} => handle = "log"
      /\ pc = "open" => handle = "null" /\ disk[0] = None
      /\ pc = "move" /\ next < backup_count => disk[next + 1] = None
  BY <1>0, NoFault DEF QuietInv
<1>2. /\ backup_count \in Nat /\ 0 \in FileNumbers
      /\ FileNumbers = 0..backup_count
      /\ disk \in [FileNumbers -> File \union {None}]
  BY Files
<1>3. ASSUME NEW size \in Sizes, Emit(size)
      PROVE  QuietInv'
  BY <1>1, <1>2, <1>3 DEF Emit, Decide, QuietInv
<1>4. CASE Move
  <2>1. disk' = Moved /\ UNCHANGED backup_count /\ pc = "move"
    BY <1>1, <1>4 DEF Move
  <2>2. next \in 0..backup_count
    BY <1>4 DEF Move, TypeOK
  <2>3. Moved[next] = None
    BY <1>2, <2>2 DEF Moved
  <2>4. next' = next - 1 /\ next' + 1 = next
    BY <1>4, <2>2 DEF Move, Then
  <2>5. CASE next = 0
    BY <1>4, <2>1, <2>3, <2>5 DEF Move
  <2>6. CASE next # 0
    <3>1. UNCHANGED <<pc, handle>>
      BY <1>4, <2>6 DEF Move
    <3> QED
      BY <1>1, <2>1, <2>3, <2>4, <3>1
  <2> QED
    BY <2>5, <2>6
<1>5. CASE Open
  BY <1>1, <1>5 DEF Open
<1>6. CASE Write
  BY <1>1, <1>6 DEF Write
<1>7. CASE Crash
  BY <1>7 DEF Crash
<1>8. CASE Restart
  BY <1>8 DEF Restart
<1>9. CASE UNCHANGED vars
  BY <1>1, <1>9 DEF vars
<1> QED
  BY <1>0, <1>3, <1>4, <1>5, <1>6, <1>7, <1>8, <1>9 DEF Next, QuietInv

(* While nothing fails, a move empties the oldest backup, or it moves a    *)
(* file to a free number and loses nothing.                                *)
LEMMA MovedKeeps ==
    ASSUME TypeOK, EmitInv, QuietInv, pc = "move", faults = 0, disk' = Moved,
           UNCHANGED backup_count
    PROVE  \A n \in OnDisk : \/ n \in OnDisk'
                             \/ /\ next = backup_count
                                /\ \E k \in DOMAIN Lines(next) : n = Lines(next)[k]
<1>1. /\ FileNumbers' = FileNumbers /\ FileNumbers = 0..backup_count
      /\ disk \in [FileNumbers -> File \union {None}]
      /\ next \in FileNumbers /\ backup_count \in Nat
  BY Files DEF FileNumbers, TypeOK
<1>2. SUFFICES ASSUME NEW n \in OnDisk,
                      NEW i \in FileNumbers, NEW k \in DOMAIN Lines(i), n = Lines(i)[k],
                      ~(next = backup_count /\ i = next)
               PROVE  n \in OnDisk'
  BY OnDiskMember
<1>3. disk[i] # None
  BY <1>2 DEF Lines
<1>4. CASE i = next
  <2>1. PICK j \in FileNumbers : j = i + 1
    BY <1>1, <1>2, <1>4
  <2>2. disk'[j] = disk[i]
    BY <1>1, <1>2, <1>3, <1>4, <2>1 DEF Moved
  <2>3. Lines(j)' = Lines(i)
    BY <2>2 DEF Lines
  <2> QED
    BY <1>1, <1>2, <2>3, OnDiskMemberNext
<1>5. CASE i # next
  <2>1. next # backup_count => i # next + 1
    BY <1>1, <1>3 DEF QuietInv
  <2>2. disk'[i] = disk[i]
    BY <1>1, <1>5, <2>1 DEF Moved
  <2>3. Lines(i)' = Lines(i)
    BY <2>2 DEF Lines
  <2> QED
    BY <1>1, <1>2, <2>3, OnDiskMemberNext
<1> QED
  BY <1>4, <1>5

(* Every step loses the oldest lines only. *)
LEMMA SuffixStep ==
    ASSUME TypeOK, EmitInv, NumbersInv, InOrder, QuietInv, SuffixKept, [Next]_vars
    PROVE  SuffixKept'
<1> USE DEF config, bounds
<1>0. SUFFICES ASSUME faults' = 0
               PROVE  \A n \in OnDisk' : n <= last' /\ n..last' \subseteq OnDisk'
  BY DEF SuffixKept
<1>1. faults = 0 /\ ~Fault
  BY <1>0, NoFault
<1>2. UNCHANGED backup_count
  BY DEF Next, Emit, Move, Open, Write, Crash, Restart, vars
<1>3. last \in Nat /\ OnDisk \subseteq 1..last
  BY LogAssumption DEF TypeOK, NumbersInv
<1>4. \A n \in OnDisk : n \in Nat /\ n <= last /\ n..last \subseteq OnDisk
  BY <1>1, <1>3 DEF SuffixKept
<1>5. CASE UNCHANGED <<disk, last>>
  <2>1. \A i \in FileNumbers : Lines(i)' = Lines(i)
    BY <1>5 DEF Lines
  <2> QED
    BY <1>2, <1>4, <1>5, <2>1, SameLines
<1>6. CASE disk' = Opened /\ UNCHANGED last
  <2>1. OnDisk' = OnDisk
    BY <1>2, <1>6, OpenedLines, SameLines
  <2>2. last' = last
    BY <1>6
  <2> QED
    BY <1>4, <2>1, <2>2
<1>7. CASE disk' = Moved /\ UNCHANGED last /\ pc = "move"
  <2>1. OnDisk' \subseteq OnDisk
    BY <1>2, <1>7, MovedOrder
  <2>2. SUFFICES ASSUME NEW n \in OnDisk', NEW m \in n..last
                 PROVE  m \in OnDisk'
    BY <1>4, <1>7, <2>1
  <2>3. n \in OnDisk /\ n \in Nat /\ n <= last /\ m \in OnDisk /\ m \in Nat /\ n <= m
    BY <1>3, <1>4, <2>2, <2>1
  <2>4. CASE m \notin OnDisk'
    <3>1. /\ next = backup_count
          /\ \E k \in DOMAIN Lines(next) : m = Lines(next)[k]
      BY <1>1, <1>2, <1>7, <2>3, <2>4, MovedKeeps
    <3>2. PICK k \in DOMAIN Lines(next) : m = Lines(next)[k]
      BY <3>1
    <3>3. /\ FileNumbers' = FileNumbers /\ next \in FileNumbers
          /\ disk \in [FileNumbers -> File \union {None}]
          /\ FileNumbers = 0..backup_count /\ backup_count \in Nat
      BY <1>2, <3>1, Files DEF FileNumbers
    <3>4. \A i \in FileNumbers :
             disk'[i] = IF i = next THEN None ELSE disk[i]
      BY <1>7, <3>1, <3>3 DEF Moved
    <3>5. PICK i \in FileNumbers : \E l \in DOMAIN Lines(i)' : n = Lines(i)'[l]
      BY <2>2, <3>3, OnDiskMemberNext
    <3>6. i # next
      <4>1. Lines(i)' # <<>>
        BY <3>5
      <4> QED
        BY <3>4, <4>1 DEF Lines
    <3>7. PICK l \in DOMAIN Lines(i) : n = Lines(i)[l]
      BY <3>4, <3>5, <3>6 DEF Lines
    <3>8. next > i
      BY <3>1, <3>3, <3>6
    <3>9. m < n
      BY <3>2, <3>3, <3>7, <3>8 DEF InOrder
    <3> QED
      BY <2>3, <3>9
  <2> QED
    BY <2>3, <2>4
<1>8. CASE Write
  <2>1. disk' = Written /\ handle = "log" /\ last' = last + 1 /\ pc = "write"
    BY <1>1, <1>8 DEF Write, EmitInv, QuietInv
  <2>2. OnDisk' = OnDisk \union {last + 1}
    BY <1>2, <2>1, WrittenOrder
  <2>3. SUFFICES ASSUME NEW n \in OnDisk', NEW m \in n..last'
                 PROVE  m \in OnDisk'
    <3>1. \A n \in OnDisk' : n \in Nat /\ n <= last + 1
      BY <1>3, <1>4, <2>2
    <3> QED
      BY <2>1, <2>3, <3>1
  <2>4. CASE n = last + 1
    BY <1>3, <2>1, <2>2, <2>3, <2>4
  <2>5. CASE n \in OnDisk
    <3>1. n \in Nat /\ n <= last /\ n..last \subseteq OnDisk
      BY <1>4, <2>5
    <3>2. m \in n..last \/ m = last + 1
      BY <1>3, <2>1, <2>3, <3>1
    <3> QED
      BY <1>3, <2>1, <2>2, <3>1, <3>2
  <2> QED
    BY <2>2, <2>3, <2>4, <2>5
<1> QED
  BY <1>5, <1>6, <1>7, <1>8 DEF Next, Emit, Move, Open, Crash, Restart, vars
-----------------------------------------------------------------------------
(* Every step leaves room in the log, and files within maxBytes. *)
LEMMA BoundStep ==
    ASSUME TypeOK, EmitInv, QuietInv, RoomInv, Bounded, [Next]_vars
    PROVE  RoomInv' /\ Bounded'
<1> USE DEF config, bounds
<1>0. UNCHANGED config
  BY DEF Next, Emit, Move, Open, Write, Crash, Restart, vars
<1>1. FileNumbers' = FileNumbers
  BY <1>0 DEF FileNumbers
<1>2. SUFFICES ASSUME faults' = 0, max_bytes > 0, backup_count > 0
               PROVE  /\ pc' = "write" => \/ disk'[0].lines = <<>>
                                          \/ disk'[0].size + line'.size <= max_bytes
                      /\ \A i \in FileNumbers : disk'[i] # None /\ disk'[i].size > max_bytes
                                                   => Len(disk'[i].lines) = 1
  BY <1>0, <1>1 DEF RoomInv, Bounded
<1>3. /\ faults = 0 /\ ~Fault
      /\ pc \in {"idle", "move", "write"} => handle = "log"
      /\ pc = "open" => disk[0] = None
      /\ pc = "write" => disk[0].lines = <<>> \/ disk[0].size + line.size <= max_bytes
      /\ \A i \in FileNumbers : disk[i] # None /\ disk[i].size > max_bytes
                                   => Len(disk[i].lines) = 1
  BY <1>2, NoFault DEF QuietInv, RoomInv, Bounded
<1>4. /\ backup_count \in Nat /\ max_bytes \in Nat /\ FileNumbers = 0..backup_count
      /\ 0 \in FileNumbers
      /\ disk \in [FileNumbers -> File \union {None}]
      /\ \A i \in FileNumbers : disk[i] # None => disk[i] \in File
  BY Files
<1>5. ASSUME NEW size \in Sizes, Emit(size)
      PROVE  RoomInv' /\ Bounded'
  <2>1. disk' = disk /\ line'.size = size /\ handle = "log"
    BY <1>3, <1>5 DEF Emit
  <2>2. pc' = "write" => ~TooLong(Metadata, size)
    BY <1>3, <1>5 DEF Emit, Decide
  <2>3. disk[0] \in File
    BY <1>4, <2>1 DEF EmitInv
  <2>4. disk[0].size \in Nat /\ size \in Nat
    BY <2>3, LogAssumption DEF File
  <2>5. pc' = "write" => disk[0].size + size <= max_bytes
    BY <1>2, <1>4, <2>1, <2>2, <2>4 DEF TooLong, Metadata
  <2> QED
    BY <1>0, <1>1, <1>3, <2>1, <2>5 DEF RoomInv, Bounded
<1>6. CASE Move
  <2>1. disk' = Moved /\ pc' # "write"
    BY <1>3, <1>6 DEF Move
  <2>2. next \in FileNumbers
    BY <1>4, <1>6 DEF Move, TypeOK
  <2>3. \A i \in FileNumbers : disk'[i] = None \/ \E j \in FileNumbers : disk'[i] = disk[j]
    BY <1>4, <2>1, <2>2 DEF Moved
  <2> QED
    BY <1>3, <2>1, <2>3
<1>7. CASE Open
  <2>1. disk' = [disk EXCEPT ![0] = [lines |-> <<>>, size |-> 0]]
    BY <1>3, <1>7 DEF Open, Opened
  <2>2. disk'[0].lines = <<>> /\ disk'[0].size = 0
    BY <1>4, <2>1
  <2>3. \A i \in FileNumbers : i # 0 => disk'[i] = disk[i]
    BY <1>4, <2>1
  <2> QED
    BY <1>2, <1>3, <1>4, <2>2, <2>3
<1>8. CASE Write
  <2> DEFINE new == [lines |-> Append(disk[0].lines, line.no),
                     size |-> disk[0].size + line.size]
  <2>1. disk' = [disk EXCEPT ![0] = new] /\ pc' = "idle" /\ pc = "write"
    BY <1>3, <1>8 DEF Write, Written
  <2>2. disk[0] \in File
    BY <1>3, <1>4, <2>1 DEF EmitInv
  <2>3. disk[0].lines = <<>> => Len(new.lines) = 1
    OBVIOUS
  <2>4. new.size = disk[0].size + line.size
    OBVIOUS
  <2> HIDE DEF new
  <2>5. disk'[0] = new /\ \A i \in FileNumbers : i # 0 => disk'[i] = disk[i]
    BY <1>4, <2>1
  <2>6. line.size \in Nat /\ disk[0].size \in Nat
    <3>1. \A s \in Sizes \union {0} : s \in Nat
      BY LogAssumption
    <3>2. line.size \in Sizes \union {0}
      BY DEF TypeOK
    <3> QED
      BY <2>2, <3>1, <3>2, Zenon DEF File
  <2>7. new.size > max_bytes => Len(new.lines) = 1
    BY <1>3, <1>4, <2>1, <2>3, <2>4, <2>6
  <2>8. ASSUME NEW i \in FileNumbers, disk'[i] # None, disk'[i].size > max_bytes
        PROVE  Len(disk'[i].lines) = 1
    BY <1>3, <2>5, <2>7, <2>8
  <2> QED
    BY <2>1, <2>8
<1>9. CASE Crash
  BY <1>3, <1>9 DEF Crash
<1>10. CASE Restart
  <2>1. \A i \in FileNumbers : disk'[i] = disk[i] \/ disk'[i].size = 0
    BY <1>4, <1>10 DEF Restart, Opened
  <2>2. pc' = "idle"
    BY <1>10 DEF Restart
  <2>3. ASSUME NEW i \in FileNumbers, disk'[i] # None, disk'[i].size > max_bytes
        PROVE  Len(disk'[i].lines) = 1
    BY <1>2, <1>3, <1>4, <2>1, <2>3
  <2> QED
    BY <2>2, <2>3
<1>11. CASE UNCHANGED vars
  BY <1>3, <1>11 DEF vars
<1> QED
  BY <1>0, <1>1, <1>2, <1>5, <1>6, <1>7, <1>8, <1>9, <1>10, <1>11 DEF Next, RoomInv, Bounded
-----------------------------------------------------------------------------
(* The holes are finitely many. *)
LEMMA HolesType == ASSUME TypeOK, NEW i \in Nat
                   PROVE  /\ IsFiniteSet(Holes(i)) /\ Cardinality(Holes(i)) \in Nat
                          /\ i > 0 => Cardinality(Holes(i)) <= i - 1
<1>1. IsFiniteSet(1..(i - 1)) /\ (i > 0 => Cardinality(1..(i - 1)) = i - 1)
  BY FS_Interval
<1>2. Holes(i) \subseteq 1..(i - 1)
  BY DEF Holes
<1>3. IsFiniteSet(Holes(i)) /\ Cardinality(Holes(i)) <= Cardinality(1..(i - 1))
  BY <1>1, <1>2, FS_Subset
<1> QED
  BY <1>1, <1>3, FS_CardinalityType

(* A step that leaves the backups where they are adds no hole. *)
LEMMA SameHoles ==
    ASSUME TypeOK, HolesInv, faults = 0, UNCHANGED backup_count,
           crashes' \in Nat,
           \A j \in 1..backup_count : disk'[j] = None <=> disk[j] = None,
           \A i \in 1..(backup_count + 1) :
              crashes + Carried(i) <= crashes' + Carried(i)',
           Lost' => Lost
    PROVE  HolesInv'
<1>1. backup_count \in Nat /\ crashes \in Nat
  BY Files, LogAssumption DEF TypeOK
<1>2. ASSUME NEW i \in 1..(backup_count + 1)
      PROVE  /\ Holes(i)' = Holes(i)
             /\ Cardinality(Holes(i)) \in Nat
             /\ Carried(i) \in Nat /\ Carried(i)' \in Nat
  <2>1. \A j \in 1..(i - 1) : j \in 1..backup_count
    BY <1>1
  <2>2. Holes(i)' = Holes(i)
    BY <2>1 DEF Holes
  <2> QED
    BY <1>1, <2>2, HolesType DEF Carried
<1>3. ASSUME NEW i \in 1..backup_count, disk'[i] # None
      PROVE  Cardinality(Holes(i)') <= crashes' + Carried(i)'
  <2>1. i \in 1..(backup_count + 1) /\ disk[i] # None
    BY <1>1, <1>3
  <2>2. Cardinality(Holes(i)) <= crashes + Carried(i)
    BY <1>3, <2>1 DEF HolesInv
  <2> QED
    BY <1>1, <1>2, <2>1, <2>2
<1>4. ASSUME Lost', NEW n, n = backup_count + 1
      PROVE  Cardinality(Holes(n)') <= crashes' + Carried(n)'
  <2>1. n \in 1..(backup_count + 1)
    BY <1>1, <1>4
  <2>2. Cardinality(Holes(n)) <= crashes + Carried(n)
    BY <1>4 DEF HolesInv
  <2> QED
    BY <1>1, <1>2, <2>1, <2>2
<1> QED
  BY <1>3, <1>4 DEF HolesInv, Holes, Carried

(* One element for another does not change the number of elements. *)
LEMMA Exchange == ASSUME NEW S, IsFiniteSet(S), NEW a \in S, NEW b, b \notin S
                  PROVE  Cardinality((S \ {a}) \union {b}) = Cardinality(S)
<1>1. IsFiniteSet(S \ {a}) /\ Cardinality(S \ {a}) = Cardinality(S) - 1
  BY FS_RemoveElement
<1>2. Cardinality((S \ {a}) \union {b}) = Cardinality(S \ {a}) + 1
  BY <1>1, FS_AddElement
<1>3. Cardinality(S) \in Nat
  BY FS_CardinalityType
<1> QED
  BY <1>1, <1>2, <1>3

(* The first move of a rotation removes the oldest backup: the hole it     *)
(* carries from there.                                                     *)
LEMMA OldestGone ==
    ASSUME TypeOK, EmitInv, HolesInv, faults = 0, Move, disk' = Moved,
           next = backup_count, disk[next] # None
    PROVE  HolesInv'
<1> USE DEF config
<1> DEFINE bc == backup_count
<1>1. /\ bc \in Nat /\ bc > 0 /\ crashes \in Nat
      /\ FileNumbers = 0..bc
      /\ disk \in [FileNumbers -> File \union {None}]
  BY Files, LogAssumption DEF TypeOK, EmitInv, Move
<1>2. /\ pc' = "move" /\ next' = bc - 1 /\ bc' = bc /\ crashes' = crashes
      /\ pc = "move" /\ next = bc
  BY <1>1 DEF Move, Then, bounds
<1>3. \A j \in FileNumbers : disk'[j] = IF j = bc THEN None ELSE disk[j]
  BY <1>1 DEF Moved
<1>4. ASSUME NEW i \in 1..bc
      PROVE  /\ Holes(i)' = Holes(i)
             /\ Cardinality(Holes(i)) \in Nat
             /\ Carried(i) = 0 /\ Carried(i)' \in {0, 1}
  <2>1. \A j \in 1..(i - 1) : j \in FileNumbers /\ j # bc
    BY <1>1
  <2>2. Holes(i)' = Holes(i)
    BY <1>3, <2>1 DEF Holes
  <2>3. Carried(i) = 0
    BY <1>1, <1>2 DEF Carried
  <2> QED
    BY <2>2, <2>3, HolesType DEF Carried
<1>5. ASSUME NEW i \in 1..bc, disk'[i] # None
      PROVE  Cardinality(Holes(i)') <= crashes' + Carried(i)'
  <2>1. disk[i] # None
    BY <1>1, <1>3, <1>5
  <2>2. Cardinality(Holes(i)) <= crashes + Carried(i)
    BY <1>5, <2>1 DEF HolesInv
  <2> QED
    BY <1>1, <1>2, <1>4, <2>2
<1>6. ASSUME NEW n, n = bc + 1
      PROVE  Cardinality(Holes(n)') <= crashes' + Carried(n)'
  <2>1. PICK b \in 1..bc : b = bc
    BY <1>1
  <2>2. Cardinality(Holes(b)) <= crashes
    BY <1>1, <1>2, <1>4, <2>1 DEF HolesInv
  <2>3. Holes(n)' = Holes(b) \union {b}
    <3>1. \A j \in 1..(n - 1) : disk'[j] = None <=> (j \in 1..(b - 1) /\ disk[j] = None) \/ j = b
      BY <1>1, <1>3, <1>6, <2>1
    <3>2. \A j \in 1..(b - 1) : j \in 1..(n - 1)
      BY <1>1, <1>6, <2>1
    <3>3. b \in 1..(n - 1)
      BY <1>1, <1>6, <2>1
    <3> QED
      BY <3>1, <3>2, <3>3 DEF Holes
  <2>4. b \notin Holes(b) /\ IsFiniteSet(Holes(b))
    <3>1. b \in Nat /\ b \notin 1..(b - 1)
      BY <2>1
    <3> QED
      BY <3>1, HolesType DEF Holes
  <2>5. Cardinality(Holes(n)') = Cardinality(Holes(b)) + 1
    BY <2>3, <2>4, FS_AddElement
  <2>6. Carried(n)' = 1
    BY <1>1, <1>2, <1>6 DEF Carried
  <2> QED
    BY <1>1, <1>2, <1>4, <2>2, <2>5, <2>6
<1> QED
  BY <1>2, <1>5, <1>6 DEF HolesInv, Holes, Carried

(* The moves of the other backups carry the hole one number down. *)
LEMMA HoleCarried ==
    ASSUME TypeOK, EmitInv, QuietInv, HolesInv, faults = 0, Move, disk' = Moved,
           next # backup_count, next > 0, disk[next] # None, Lost' => Lost
    PROVE  HolesInv'
<1> USE DEF config
<1> DEFINE bc == backup_count
<1>1. /\ bc \in Nat /\ bc > 0 /\ crashes \in Nat
      /\ FileNumbers = 0..bc
      /\ disk \in [FileNumbers -> File \union {None}]
      /\ next \in 1..(bc - 1)
  BY Files, LogAssumption DEF TypeOK, EmitInv, Move
<1>2. /\ pc' = "move" /\ next' = next - 1 /\ bc' = bc /\ crashes' = crashes
      /\ pc = "move"
  BY <1>1 DEF Move, Then, bounds
<1>3. PICK k \in 1..(bc - 1) : k = next
  BY <1>1
<1>4. disk[k] # None /\ disk[k + 1] = None
  BY <1>1, <1>2, <1>3 DEF QuietInv
<1>5. \A j \in FileNumbers :
         disk'[j] = IF j = k THEN None ELSE IF j = k + 1 THEN disk[k] ELSE disk[j]
  BY <1>1, <1>3, <1>4 DEF Moved
<1>6. ASSUME NEW i \in 1..(bc + 1)
      PROVE  /\ Cardinality(Holes(i)) \in Nat /\ IsFiniteSet(Holes(i))
             /\ Carried(i) = (IF k + 1 < i THEN 1 ELSE 0)
             /\ Carried(i)' = (IF k < i THEN 1 ELSE 0)
  <2>1. Carried(i) = (IF k + 1 < i THEN 1 ELSE 0)
    BY <1>2, <1>3 DEF Carried
  <2>2. next' + 1 = k
    BY <1>2, <1>3
  <2>3. Carried(i)' = (IF k < i THEN 1 ELSE 0)
    BY <1>2, <2>2 DEF Carried
  <2>4. i \in Nat
    BY <1>1
  <2> QED
    BY <2>1, <2>3, <2>4, HolesType
<1>7. ASSUME NEW i \in 1..(bc + 1), i > k + 1
      PROVE  Cardinality(Holes(i)') = Cardinality(Holes(i))
  <2>1. Holes(i)' = (Holes(i) \ {k + 1}) \union {k}
    <3>1. k \in 1..(i - 1) /\ k + 1 \in 1..(i - 1) /\ \A j \in 1..(i - 1) : j \in FileNumbers
      BY <1>1, <1>7
    <3>2. \A j \in 1..(i - 1) :
             disk'[j] = None <=> (disk[j] = None /\ j # k + 1) \/ j = k
      BY <1>4, <1>5, <3>1
    <3> QED
      BY <3>1, <3>2 DEF Holes
  <2>2. k + 1 \in Holes(i) /\ k \notin Holes(i)
    BY <1>1, <1>4, <1>7 DEF Holes
  <2> QED
    BY <1>6, <2>1, <2>2, Exchange
<1>8. ASSUME NEW i \in 1..bc, disk'[i] # None
      PROVE  Cardinality(Holes(i)') <= crashes' + Carried(i)'
  <2>0. i \in 1..(bc + 1)
    BY <1>1
  <2>1. CASE i > k + 1
    <3>1. disk[i] # None
      BY <1>1, <1>5, <1>8, <2>1
    <3>2. Cardinality(Holes(i)) <= crashes + Carried(i)
      BY <1>8, <3>1 DEF HolesInv
    <3> QED
      BY <1>1, <1>2, <1>6, <1>7, <2>0, <2>1, <3>2
  <2>2. CASE i = k + 1
    <3>1. Holes(i)' = Holes(k) \union {k}
      <4>1. \A j \in 1..(i - 1) : j \in FileNumbers /\ j # k + 1
        BY <1>1, <2>2
      <4>2. \A j \in 1..(i - 1) : disk'[j] = None <=> disk[j] = None \/ j = k
        BY <1>5, <4>1
      <4>3. 1..(i - 1) = 1..(k - 1) \union {k}
        BY <2>2
      <4> QED
        BY <1>4, <4>2, <4>3 DEF Holes
    <3>2. k \in 1..bc /\ k \in 1..(bc + 1)
      BY <1>1
    <3>3. Cardinality(Holes(k)) <= crashes
      BY <1>1, <1>4, <1>6, <3>2 DEF HolesInv
    <3>4. Cardinality(Holes(k) \union {k}) <= Cardinality(Holes(k)) + 1
      BY <1>6, <3>2, FS_AddElement
    <3>5. Carried(i)' = 1
      BY <1>6, <2>0, <2>2
    <3>6. Cardinality(Holes(k)) \in Nat
      BY <1>6, <3>2
    <3>7. Cardinality(Holes(k) \union {k}) <= crashes + 1
      <4>1. IsFiniteSet(Holes(k) \union {k})
        BY <1>6, <3>2, FS_AddElement
      <4>2. Cardinality(Holes(k) \union {k}) \in Nat
        BY <4>1, FS_CardinalityType
      <4> QED
        BY <1>1, <3>3, <3>4, <3>6, <4>2
    <3> QED
      BY <1>1, <1>2, <3>1, <3>5, <3>7
  <2>3. CASE i < k
    <3>1. disk[i] # None
      BY <1>1, <1>5, <1>8, <2>3
    <3>2. Holes(i)' = Holes(i)
      <4>1. \A j \in 1..(i - 1) : j \in FileNumbers /\ j # k /\ j # k + 1
        BY <1>1, <2>3
      <4> QED
        BY <1>5, <4>1 DEF Holes
    <3>3. Cardinality(Holes(i)) <= crashes + Carried(i)
      BY <1>8, <3>1 DEF HolesInv
    <3>4. Carried(i) = 0 /\ Carried(i)' = 0
      BY <1>6, <2>0, <2>3
    <3> QED
      BY <1>2, <3>2, <3>3, <3>4
  <2>4. i # k
    BY <1>1, <1>5, <1>8
  <2> QED
    BY <2>1, <2>2, <2>3, <2>4
<1>9. ASSUME Lost', NEW n, n = bc + 1
      PROVE  Cardinality(Holes(n)') <= crashes' + Carried(n)'
  <2>1. n \in 1..(bc + 1) /\ n > k + 1
    BY <1>1, <1>9
  <2>2. Cardinality(Holes(n)) <= crashes + Carried(n)
    BY <1>9 DEF HolesInv
  <2> QED
    BY <1>1, <1>2, <1>6, <1>7, <2>1, <2>2
<1> QED
  BY <1>2, <1>8, <1>9 DEF HolesInv, Holes, Carried
(* The last move fills the hole below all others with the log. *)
LEMMA LogMoved ==
    ASSUME TypeOK, EmitInv, QuietInv, HolesInv, faults = 0, Move, disk' = Moved,
           next = 0, Lost' => Lost
    PROVE  HolesInv'
<1> USE DEF config
<1> DEFINE bc == backup_count
<1>1. /\ bc \in Nat /\ bc > 0 /\ crashes \in Nat
      /\ FileNumbers = 0..bc
      /\ disk \in [FileNumbers -> File \union {None}]
  BY Files, LogAssumption DEF TypeOK, EmitInv, Move
<1>2. pc' = "open" /\ bc' = bc /\ crashes' = crashes /\ pc = "move"
  BY <1>1 DEF Move, bounds
<1>3. disk[0] # None /\ disk[1] = None
  BY <1>1, <1>2 DEF QuietInv, EmitInv
<1>4. \A j \in 1..bc : disk'[j] = IF j = 1 THEN disk[0] ELSE disk[j]
  BY <1>1, <1>3 DEF Moved
<1>5. ASSUME NEW i \in 1..(bc + 1)
      PROVE  /\ Cardinality(Holes(i)) \in Nat
             /\ Carried(i) = (IF 1 < i THEN 1 ELSE 0)
             /\ Carried(i)' = 0
             /\ Cardinality(Holes(i)') = Cardinality(Holes(i)) - Carried(i)
  <2>1. i \in Nat /\ \A j \in 1..(i - 1) : j \in 1..bc
    BY <1>1
  <2>2. IsFiniteSet(Holes(i)) /\ Cardinality(Holes(i)) \in Nat
    BY <2>1, HolesType
  <2>3. Carried(i) = (IF 1 < i THEN 1 ELSE 0) /\ Carried(i)' = 0
    BY <1>2 DEF Carried
  <2>4. Holes(i)' = Holes(i) \ {1}
    BY <1>3, <1>4, <2>1 DEF Holes
  <2>5. 1 \in Holes(i) <=> 1 < i
    BY <1>3, <2>1 DEF Holes
  <2> QED
    BY <2>2, <2>3, <2>4, <2>5, FS_RemoveElement
<1>6. ASSUME NEW i \in 1..bc, disk'[i] # None
      PROVE  Cardinality(Holes(i)') <= crashes' + Carried(i)'
  <2>1. i \in 1..(bc + 1)
    BY <1>1
  <2>2. CASE i = 1
    <3>1. Cardinality(Holes(i)) <= 0
      BY <2>2, HolesType
    <3> QED
      BY <1>1, <1>2, <1>5, <2>1, <2>2, <3>1
  <2>3. CASE i # 1
    <3>1. disk[i] # None
      BY <1>4, <1>6, <2>3
    <3>2. Cardinality(Holes(i)) <= crashes + Carried(i)
      BY <1>6, <3>1 DEF HolesInv
    <3> QED
      BY <1>1, <1>2, <1>5, <2>1, <2>3, <3>2
  <2> QED
    BY <2>2, <2>3
<1>7. ASSUME Lost', NEW n, n = bc + 1
      PROVE  Cardinality(Holes(n)') <= crashes' + Carried(n)'
  <2>1. n \in 1..(bc + 1)
    BY <1>1, <1>7
  <2>2. Cardinality(Holes(n)) <= crashes + Carried(n)
    BY <1>7 DEF HolesInv
  <2> QED
    BY <1>1, <1>2, <1>5, <2>1, <2>2
<1> QED
  BY <1>2, <1>6, <1>7 DEF HolesInv, Holes, Carried

(* A move that keeps the lines of the disk loses none. *)
LEMMA NothingLost ==
    ASSUME UNCHANGED last, OnDisk \subseteq OnDisk'
    PROVE  Lost' => Lost
  BY DEF Lost

(* Every move of a rotation keeps the holes few. *)
LEMMA MoveHoles ==
    ASSUME TypeOK, EmitInv, NumbersInv, QuietInv, HolesInv, faults = 0, ~Fault, Move
    PROVE  HolesInv'
<1> USE DEF config
<1>1. /\ disk' = Moved /\ UNCHANGED <<backup_count, crashes, last>>
      /\ pc = "move" /\ next' = next - 1
  BY DEF Move, bounds, Then
<1>2. /\ backup_count \in Nat /\ crashes \in Nat
      /\ next \in 0..backup_count
      /\ FileNumbers = 0..backup_count
      /\ disk \in [FileNumbers -> File \union {None}]
  BY <1>1, Files, LogAssumption DEF TypeOK
<1>3. CASE disk[next] = None
  <2>1. disk' = disk
    BY <1>1, <1>2, <1>3 DEF Moved
  <2>2. Lost' => Lost
    <3>1. \A i \in FileNumbers : Lines(i)' = Lines(i)
      BY <2>1 DEF Lines
    <3> QED
      BY <1>1, <3>1, SameLines, NothingLost
  <2>3. next # 0
    BY <1>1, <1>3 DEF QuietInv, EmitInv
  <2>4. pc' = "move"
    BY <1>1, <2>3 DEF Move
  <2>5. ASSUME NEW i \in 1..(backup_count + 1)
        PROVE  Carried(i) <= Carried(i)'
    BY <1>1, <1>2, <2>4 DEF Carried
  <2>6. \A i \in 1..(backup_count + 1) : Carried(i) \in Nat /\ Carried(i)' \in Nat
    BY DEF Carried
  <2>7. \A i \in 1..(backup_count + 1) : crashes + Carried(i) <= crashes' + Carried(i)'
    BY <1>1, <1>2, <2>5, <2>6
  <2> QED
    BY <1>1, <1>2, <2>1, <2>2, <2>7, SameHoles
<1>4. CASE disk[next] # None /\ next = backup_count
  BY <1>1, <1>4, OldestGone
<1>5. CASE disk[next] # None /\ next # backup_count
  <2>1. Lost' => Lost
    BY <1>1, <1>5, MovedKeeps, NothingLost
  <2> QED
    BY <1>1, <1>2, <1>5, <2>1, HoleCarried, LogMoved
<1> QED
  BY <1>3, <1>4, <1>5

(* Every step keeps the holes few. *)
LEMMA HolesStep ==
    ASSUME TypeOK, EmitInv, NumbersInv, InOrder, QuietInv, HolesInv, [Next]_vars
    PROVE  HolesInv'
<1> USE DEF config, bounds
<1>0. SUFFICES ASSUME faults' = 0 PROVE HolesInv'
  BY DEF HolesInv
<1>1. faults = 0 /\ ~Fault
  BY <1>0, NoFault
<1>2. UNCHANGED backup_count
  BY DEF Next, Emit, Move, Open, Write, Crash, Restart, vars
<1>3. /\ backup_count \in Nat /\ crashes \in Nat /\ last \in Nat
      /\ FileNumbers = 0..backup_count
      /\ disk \in [FileNumbers -> File \union {None}]
  BY Files, LogAssumption DEF TypeOK
<1>4. CASE Move
  BY <1>1, <1>4, MoveHoles
<1>5. CASE ~Move
  <2>1. crashes' \in Nat /\ crashes' >= crashes
    BY <1>3, <1>5 DEF Next, Emit, Decide, Open, Write, Crash, Restart, vars
  <2>2. \A j \in 1..backup_count : disk'[j] = disk[j]
    <3>1. \/ disk' = disk \/ disk' = Opened \/ disk' = Written
      BY <1>5 DEF Next, Emit, Decide, Open, Write, Crash, Restart, vars
    <3> QED
      BY <1>3, <3>1 DEF Opened, Written
  <2>3. ASSUME NEW i \in 1..(backup_count + 1)
        PROVE  crashes + Carried(i) <= crashes' + Carried(i)'
    <3>1. Carried(i) \in {0, 1} /\ Carried(i)' \in {0, 1}
      BY DEF Carried
    <3>2. CASE pc = "move"
      <4>1. crashes' = crashes + 1 \/ (crashes' = crashes /\ Carried(i)' = Carried(i))
        BY <1>5, <3>2 DEF Next, Emit, Decide, Open, Write, Crash, Restart, vars, Carried
      <4> QED
        BY <1>3, <3>1, <4>1
    <3>3. CASE pc # "move"
      <4>1. Carried(i) = 0
        BY <3>3 DEF Carried
      <4> QED
        BY <1>3, <2>1, <3>1, <4>1
    <3> QED
      BY <3>2, <3>3
  <2>4. Lost' => Lost
    <3>1. CASE Write
      <4>1. disk' = Written /\ handle = "log" /\ last' = last + 1 /\ pc = "write"
        BY <1>1, <3>1 DEF Write, EmitInv, QuietInv
      <4>2. OnDisk' = OnDisk \union {last + 1}
        BY <1>2, <4>1, WrittenOrder
      <4> QED
        BY <1>3, <4>1, <4>2 DEF Lost
    <3>2. CASE ~Write
      <4>1. last' = last /\ (disk' = disk \/ disk' = Opened)
        BY <1>5, <3>2 DEF Next, Emit, Open, Crash, Restart, vars
      <4>2. \A i \in FileNumbers : Lines(i)' = Lines(i)
        <5>1. CASE disk' = disk
          BY <5>1 DEF Lines
        <5> QED
          BY <4>1, <5>1, OpenedLines
      <4> QED
        BY <1>2, <4>1, <4>2, SameLines, NothingLost
    <3> QED
      BY <3>1, <3>2
  <2> QED
    BY <1>1, <1>2, <2>1, <2>2, <2>3, <2>4, SameHoles
<1> QED
  BY <1>4, <1>5
-----------------------------------------------------------------------------
(* The inductive invariant holds at the start. *)
LEMMA LogInvInit == Init => TypeOK /\ LogInv
<1> SUFFICES ASSUME Init PROVE TypeOK /\ LogInv
  OBVIOUS
<1>1. TypeOK /\ EmitInv /\ OnDisk = {} /\ NumbersInv /\ InOrder
  BY NoLines
<1>2. QuietInv /\ RoomInv
  BY DEF Init, QuietInv, RoomInv
<1>3. Bounded
  BY DEF Init, Bounded
<1>4. SuffixKept
  BY <1>1 DEF SuffixKept
<1>5. HolesInv
  BY DEF Init, HolesInv, FileNumbers, Lost
<1> QED
  BY <1>1, <1>2, <1>3, <1>4, <1>5 DEF LogInv, OrderInv, BoundInv

(* Where the handle and the gap of a rotation are at each step of emit, and   *)
(* what is on the disk then: the inductive invariant of the log               *)
(* (logger.rs:221-242).                                                       *)
THEOREM LogInvCorrect == Spec => [](TypeOK /\ LogInv)
<1>1. TypeOK /\ LogInv /\ [Next]_vars => (TypeOK /\ LogInv)'
  BY TypeStep, OrderStep, QuietStep, SuffixStep, BoundStep, HolesStep
  DEF LogInv, OrderInv, BoundInv
<1> QED
  BY <1>1, LogInvInit, PTL DEF Spec

(* While no system call fails, the lines lost are the oldest ones, wherever *)
(* the process ends (logger.rs:225-241).                                    *)
THEOREM SuffixKeptCorrect == Spec => []SuffixKept
<1>1. TypeOK /\ LogInv => SuffixKept
  BY DEF LogInv
<1> QED
  BY <1>1, LogInvCorrect, PTL

(* ... no file outgrows maxBytes, unless by a single line                   *)
(* (logger.rs:221-224).                                                     *)
THEOREM BoundedCorrect == Spec => []Bounded
<1>1. TypeOK /\ LogInv => Bounded
  BY DEF LogInv, BoundInv
<1> QED
  BY <1>1, LogInvCorrect, PTL

(* ... and lines are given up only for backupCount newer backups, but for   *)
(* one backup for each end of the process (logger.rs:226-229).              *)
THEOREM BackupsKeptCorrect == Spec => []BackupsKept
<1>1. TypeOK /\ LogInv => BackupsKept
  <2> SUFFICES ASSUME TypeOK, HolesInv, faults = 0, pc = "idle", Lost
               PROVE  Cardinality(Backups) >= backup_count - crashes
    BY DEF LogInv, BackupsKept
  <2> DEFINE n == backup_count + 1
  <2>1. backup_count \in Nat /\ crashes \in Nat /\ FileNumbers = 0..backup_count
    BY Files, LogAssumption DEF TypeOK
  <2>2. Cardinality(Holes(n)) <= crashes /\ Cardinality(Holes(n)) \in Nat
    <3>1. Carried(n) = 0
      BY DEF Carried
    <3>2. Cardinality(Holes(n)) \in Nat
      BY <2>1, HolesType
    <3> QED
      BY <2>1, <3>1, <3>2 DEF HolesInv
  <2>3. IsFiniteSet(1..backup_count) /\ Cardinality(1..backup_count) = backup_count
    BY <2>1, FS_Interval
  <2>4. Holes(n) \subseteq 1..backup_count
    BY <2>1 DEF Holes
  <2>5. Backups = 1..backup_count \ Holes(n)
    BY <2>1 DEF Backups, Holes
  <2>6. 1..backup_count \cap Holes(n) = Holes(n)
    BY <2>4
  <2> DEFINE all == 1..backup_count
             holes == Holes(n)
  <2> HIDE DEF n, all, holes
  <2>7. Cardinality(all \ holes) = Cardinality(all) - Cardinality(all \intersect holes)
    BY <2>3, FS_Difference DEF all
  <2>8. Cardinality(Backups) = backup_count - Cardinality(Holes(n))
    BY <2>3, <2>5, <2>6, <2>7 DEF all, holes
  <2> QED
    BY <2>1, <2>2, <2>8
<1> QED
  BY <1>1, LogInvCorrect, PTL
=============================================================================

----------------------------- MODULE SyncProofs -----------------------------
(***************************************************************************)
(* Theorems about the synchronisation, for every value of the constants.   *)
(***************************************************************************)
EXTENDS SyncInvariants, TLAPS

-----------------------------------------------------------------------------
(* The types of what the actions build *)

(* A folder computed from an annotation is one of the paths. *)
LEMMA DestinationType ==
    ASSUME NEW a \in Anns \union {None}
    PROVE  get_destination_folder(a) \in Paths
BY DEF Paths

(* A path, an object and a key name a slot of the volume. *)
LEMMA SlotType ==
    ASSUME NEW p \in Paths, NEW r \in Res, NEW k \in Keys
    PROVE  Slot(p, r, k) \in Slots
BY DEF Slots

(* The key of an object is one of the map keys. *)
LEMMA MapKeyType == \A r \in Res : MapKey(r) \in MapKeys
BY DEF MapKeys

(* The state of a task that has done nothing is one of the task states. *)
LEMMA FreshType == Fresh \in Task
BY DEF Fresh, Task

(* A task that rests, or is about to run a hook, holds nothing. *)
LEMMA RestingType ==
    ASSUME NEW t \in Tasks, NEW local \in Task
    PROVE  Resting(t, local) \in Task
BY FreshType DEF Resting, Task

(* A task that is about to run a hook, or has none to run. *)
LEMMA NotifyType ==
    ASSUME NEW t \in Tasks, NEW local \in Task
    PROVE  Notify(t, local) \in Task
<1>1. local.via \in {"list", "stale", "event"}
  BY DEF Task
<1>2. [Fresh EXCEPT !.pc = "script", !.via = local.via] \in Task
  BY <1>1, FreshType DEF Task
<1>3. [Fresh EXCEPT !.pc = "request", !.via = local.via] \in Task
  BY <1>1, FreshType DEF Task
<1> QED
  BY <1>2, <1>3, RestingType DEF Notify

(* What the cache keeps of an object. *)
LEMMA CachedType ==
    ASSUME NEW item \in Item
    PROVE  CachedItem(item) \in Cached
<1>1. item.res \in Res /\ item.data \in [Keys -> Entry \union {None}]
  BY DEF Item
<1>2. \A k \in Keys : item.data[k] # None => item.data[k].sec \in Sections
  BY <1>1 DEF Entry
<1>3. SectionsOf(item) \in [Keys -> Sections \union {None}]
  BY <1>2 DEF SectionsOf
<1> QED
  BY <1>1, <1>3 DEF CachedItem, Cached

(* The operations of process_resource are operations on known paths. *)
LEMMA WritesType ==
    ASSUME NEW item \in Item, NEW path \in Paths
    PROVE  Writes(item, path) \subseteq Op
<1>1. item.res \in Res /\ item.data \in [Keys -> Entry \union {None}]
  BY DEF Item
<1>2. \A k \in Keys : item.data[k] # None => item.data[k].val \in Vals
  BY <1>1 DEF Entry
<1> QED
  BY <1>1, <1>2 DEF Writes, Op

(* The same for the removal of what the old object had. *)
LEMMA LeftoversType ==
    ASSUME NEW old \in Cached, NEW new \in Cached, NEW from \in Paths, NEW to \in Paths
    PROVE  Leftovers(old, new, from, to) \subseteq Op
<1>1. old.res \in Res
  BY DEF Cached
<1>2. minus_common(old.sec, new.sec) \subseteq Keys
  BY DEF minus_common
<1> QED
  BY <1>1, <1>2 DEF Leftovers, Op

(* The same for the removal of everything an object had. *)
LEMMA RemovalsType ==
    ASSUME NEW old \in Cached, NEW path \in Paths
    PROVE  Removals(old, path) \subseteq Op
<1>1. old.res \in Res
  BY DEF Cached
<1> QED
  BY <1>1 DEF Removals, Op

(* An object that a task may see is an Item. *)
LEMMA SelectedType == TypeOK => \A t \in Tasks : Selected(t) \subseteq Item
BY DEF Selected, TypeOK

(* The same for an object read by name. *)
LEMMA NamedType == TypeOK => \A t \in Tasks : \A n : Named(t, n) \subseteq Item
BY DEF Named, TypeOK
-----------------------------------------------------------------------------
(* The parts of TypeOK the operators shared by several actions establish *)

(* The folder an object was last put in, or the one it is put in now. *)
LEMMA OldDestType ==
    ASSUME TypeOK, NEW m \in MapKeys, NEW to \in Paths
    PROVE  OldDest(m, to) \in Paths
BY DEF OldDest, TypeOK

(* process_resource of an object that is stored. *)
LEMMA StoreType ==
    ASSUME TypeOK, NEW t \in Tasks, NEW local \in Task, NEW item \in Item,
           NEW to \in Paths, Store(t, local, item, to)
    PROVE  /\ object' \in [MapKeys -> Cached \union {None}]
           /\ dest' \in [MapKeys -> Paths \union {None}]
           /\ taken' \in [Res -> -1..MaxRev]
           /\ task' \in [Tasks -> Task]
<1> DEFINE m == MapKey(item.res)
           new == CachedItem(item)
           old == IF object[m] # None THEN object[m] ELSE new
           ops == Writes(item, to) \union Leftovers(old, new, OldDest(m, to), to)
<1>1. m \in MapKeys
  BY MapKeyType DEF Item
<1>2. new \in Cached /\ old \in Cached
  BY <1>1, CachedType DEF TypeOK
<1>3. OldDest(m, to) \in Paths
  BY <1>1, OldDestType
<1>4. ops \subseteq Op
  <2> HIDE DEF m, new, old
  <2> QED BY <1>2, <1>3, WritesType, LeftoversType
<1>5. /\ object' = [object EXCEPT ![m] = new]
      /\ dest' = [dest EXCEPT ![m] = to]
      /\ taken' = [taken EXCEPT ![item.res] = item.rv]
      /\ task' = [task EXCEPT ![t] = [local EXCEPT !.pc = "file", !.ops = ops]]
  BY DEF Store
<1> HIDE DEF m, new, old, ops
<1>6. [local EXCEPT !.pc = "file", !.ops = ops] \in Task
  BY <1>4 DEF Task
<1>7. item.res \in Res /\ item.rv \in -1..MaxRev
  BY ApiAssumption DEF Item
<1>8. taken' \in [Res -> -1..MaxRev]
  BY <1>5, <1>7 DEF TypeOK
<1> QED
  BY <1>1, <1>2, <1>5, <1>6, <1>8 DEF TypeOK

(* process_resource of an object that is gone. *)
LEMMA ForgetType ==
    ASSUME TypeOK, NEW t \in Tasks, NEW local \in Task, NEW gone \in Cached,
           NEW to \in Paths, Forget(t, local, gone, to)
    PROVE  /\ object' \in [MapKeys -> Cached \union {None}]
           /\ dest' \in [MapKeys -> Paths \union {None}]
           /\ taken' \in [Res -> -1..MaxRev]
           /\ task' \in [Tasks -> Task]
<1> DEFINE m == MapKey(gone.res)
           ops == Removals(gone, OldDest(m, to))
<1>1. m \in MapKeys
  BY MapKeyType DEF Cached
<1>2. ops \subseteq Op
  <2> HIDE DEF m
  <2> QED BY <1>1, OldDestType, RemovalsType
<1>3. /\ object' = [object EXCEPT ![m] = None]
      /\ dest' = dest
      /\ taken' = taken
      /\ task' = [task EXCEPT ![t] = [local EXCEPT !.pc = "file", !.ops = ops]]
  BY DEF Forget
<1> HIDE DEF m, ops
<1>4. [local EXCEPT !.pc = "file", !.ops = ops] \in Task
  BY <1>2 DEF Task
<1> QED
  BY <1>1, <1>3, <1>4 DEF TypeOK

(* An outcome tells a content and whether the file changed. *)
LEMMA OutcomeType ==
    \A c \in Contents \union {None} :
        /\ F!Outcome(c, TRUE) \in [now : Contents \union {None}, changed : BOOLEAN]
        /\ F!Outcome(c, FALSE) \in [now : Contents \union {None}, changed : BOOLEAN]
BY DEF F!Outcome

(* One file operation, whatever its outcome. *)
LEMMA PerformType ==
    ASSUME TypeOK, NEW t \in Tasks, NEW op \in task[t].ops, NEW data,
           op.put # None => data \in Contents, NEW fails \in BOOLEAN,
           Perform(t, op, data, fails)
    PROVE  /\ files' \in [Slots -> Contents \union {None}]
           /\ inherited' \in SUBSET Slots
           /\ task' \in [Tasks -> Task]
<1> DEFINE slot == Slot(op.path, op.res, op.key)
<1>1. task[t] \in Task /\ op \in Op
  BY DEF TypeOK, Task
<1>2. slot \in Slots
  BY <1>1, SlotType DEF Op
<1> HIDE DEF slot
<1>3. PICK out \in IF op.put = None
                   THEN F!RemoveFile(files[slot], fails)
                   ELSE F!WriteDataToFile(files[slot], data, fails) :
          /\ files' = [files EXCEPT ![slot] = out.now]
          /\ inherited' = inherited \ {slot}
          /\ task' = [task EXCEPT ![t].pc = "file",
                                  ![t].ops = @ \ {op},
                                  ![t].changed = @ \/ out.changed]
  BY DEF Perform, slot
<1>4. files[slot] \in Contents \union {None} /\ Empty \in Contents
  BY <1>2 DEF TypeOK, Contents
<1>5. out \in [now : Contents \union {None}, changed : BOOLEAN]
  <2>1. CASE op.put = None
    <3>1. out \in F!RemoveFile(files[slot], fails)
      BY <1>3, <2>1
    <3>2. out \in {F!Outcome(files[slot], FALSE), F!Outcome(None, TRUE)}
      BY <3>1, Zenon DEF F!RemoveFile
    <3> QED
      BY <3>2, <1>4, OutcomeType, Zenon
  <2>2. CASE op.put # None
    <3>1. out \in F!WriteDataToFile(files[slot], data, fails)
      BY <1>3, <2>2
    <3>2. data \in Contents
      BY <2>2
    <3>3. \/ out \in {F!Outcome(files[slot], FALSE), F!Outcome(data, TRUE)}
          \/ out \in {F!Outcome(c, FALSE) : c \in {files[slot], Empty, data}}
      BY <3>1, Zenon DEF F!WriteDataToFile, F!FailedWrite
    <3> QED
      BY <3>2, <3>3, <1>4, OutcomeType, Zenon
  <2> QED
    BY <2>1, <2>2
<1>6. [task[t] EXCEPT !.pc = "file", !.ops = @ \ {op},
                      !.changed = @ \/ out.changed] \in Task
  BY <1>1, <1>5 DEF Task
<1>7. task' = [task EXCEPT ![t] = [task[t] EXCEPT !.pc = "file", !.ops = @ \ {op},
                                       !.changed = @ \/ out.changed]]
  BY <1>3 DEF TypeOK
<1> QED
  BY <1>2, <1>3, <1>5, <1>6, <1>7 DEF TypeOK

(* What is left of the process when it ends. *)
LEMMA ExitType ==
    ASSUME TypeOK, NEW status \in {"exit0", "exit1", "killed"}, Exit(status),
           faults' \in 0..MaxFaults
    PROVE  TypeOK'
<1>1. NoStream \in [live: BOOLEAN, backlog: SUBSET Item, queue: Seq(Event)]
  BY DEF NoStream
<1> QED
  BY <1>1, FreshType DEF Exit, TypeOK

(* An error of a pass. *)
LEMMA ThrowType ==
    ASSUME TypeOK, NEW t \in Tasks, NEW pc \in {"dead", "throttle"}, Throw(t, pc),
           faults' \in 0..MaxFaults
    PROVE  TypeOK'
<1>1. CASE proc = "boot"
  BY <1>1, ExitType DEF Throw
<1>2. CASE proc # "boot"
  <2>1. [Fresh EXCEPT !.pc = pc] \in Task
    BY FreshType DEF Task
  <2>2. NoStream \in [live: BOOLEAN, backlog: SUBSET Item, queue: Seq(Event)]
    BY DEF NoStream
  <2> QED
    BY <1>2, <2>1, <2>2 DEF Throw, TypeOK, maps, volume
<1> QED
  BY <1>1, <1>2

(* A failure stays within the bound. *)
LEMMA SpendType == \A kind : TypeOK /\ Spend(kind) => faults' \in 0..MaxFaults
BY ConfigAssumption DEF Spend, TypeOK

(* What a page or a read adds to a listing. *)
LEMMA GatheredType ==
    ASSUME NEW local \in Task, NEW got \in SUBSET Item
    PROVE  Gathered(local, got) \in Task
<1>1. {KeyOf[it.res] : it \in got} \subseteq {KeyOf[r] : r \in Res}
  BY DEF Item
<1> QED
  BY <1>1 DEF Gathered, Task

Stream == [live: BOOLEAN, backlog: SUBSET Item, queue: Seq(Event)]

(* The next event of a stream, and what remains of the stream. *)
LEMMA DeliveryType ==
    ASSUME TypeOK, NEW t \in Tasks, NEW d \in Delivery(t)
    PROVE  d[1] \in Event /\ d[2] \in Stream
<1>1. stream[t] \in Stream
  BY DEF TypeOK, Stream
<1>2. CASE \E it \in stream[t].backlog :
             d = <<[gone |-> FALSE, item |-> it], [stream[t] EXCEPT !.backlog = @ \ {it}]>>
  <2>1. PICK it \in stream[t].backlog :
             d = <<[gone |-> FALSE, item |-> it], [stream[t] EXCEPT !.backlog = @ \ {it}]>>
    BY <1>2
  <2> QED
    BY <1>1, <2>1 DEF Stream, Event
<1>3. CASE /\ stream[t].queue # <<>>
           /\ d = <<Head(stream[t].queue), [stream[t] EXCEPT !.queue = Tail(@)]>>
  <2>1. stream[t].queue \in Seq(Event)
    BY <1>1 DEF Stream
  <2>2. Head(stream[t].queue) \in Event /\ Tail(stream[t].queue) \in Seq(Event)
    BY <1>3, <2>1
  <2>3. [stream[t] EXCEPT !.queue = Tail(@)] \in Stream
    BY <1>1, <2>2 DEF Stream
  <2> QED
    BY <1>3, <2>2, <2>3
<1> QED
  BY <1>2, <1>3 DEF Delivery

(* An event for the watchers of an object. *)
LEMMA BroadcastType ==
    ASSUME TypeOK, NEW r \in Res, NEW ev \in Event, Broadcast(r, ev)
    PROVE  stream' \in [Tasks -> Stream]
<1>1. \A t \in Tasks : stream[t] \in Stream
  BY DEF TypeOK, Stream
<1>2. \A t \in Tasks : [stream[t] EXCEPT !.queue = Append(@, ev)] \in Stream
  <2> TAKE t \in Tasks
  <2>1. stream[t].queue \in Seq(Event)
    BY <1>1 DEF Stream
  <2>2. Append(stream[t].queue, ev) \in Seq(Event)
    BY <2>1
  <2> QED
    BY <1>1, <2>2 DEF Stream
<1> QED
  BY <1>1, <1>2 DEF Broadcast
-----------------------------------------------------------------------------
(* TypeOK, one action at a time *)

(* A change of an object by a user. *)
LEMMA TypeApply ==
    ASSUME TypeOK, NEW r \in Res, Apply(r),
           UNCHANGED <<volume, proc, ignore, task, maps, told, faults>>
    PROVE  TypeOK'
<1>1. PICK s \in Shapes[r] :
         LET old == cluster[r]
             new == MakeItem(r, rev + 1, s)
             was == old # None /\ old.lab
         IN  /\ cluster' = [cluster EXCEPT ![r] = new]
             /\ rev' = rev + 1
             /\ IF s.lab THEN Broadcast(r, [gone |-> FALSE, item |-> new])
                ELSE IF was
                THEN Broadcast(r, [gone |-> TRUE, item |-> [old EXCEPT !.rv = rev + 1]])
                ELSE UNCHANGED stream
  BY DEF Apply
<1>2. rev + 1 \in 0..MaxRev
  BY ApiAssumption DEF Apply, TypeOK
<1>3. s \in Shape
  BY ApiAssumption
<1>4. MakeItem(r, rev + 1, s) \in Item
  BY <1>2, <1>3 DEF MakeItem, Item, Shape
<1>5. stream' \in [Tasks -> Stream]
  <2>1. CASE s.lab
    <3>1. [gone |-> FALSE, item |-> MakeItem(r, rev + 1, s)] \in Event
      BY <1>4 DEF Event
    <3> QED
      BY <1>1, <2>1, <3>1, BroadcastType
  <2>2. CASE ~s.lab /\ cluster[r] # None /\ cluster[r].lab
    <3>1. cluster[r] \in Item
      BY <2>2 DEF TypeOK
    <3>2. [cluster[r] EXCEPT !.rv = rev + 1] \in Item
      BY <1>2, <3>1 DEF Item
    <3>3. [gone |-> TRUE, item |-> [cluster[r] EXCEPT !.rv = rev + 1]] \in Event
      BY <3>2 DEF Event
    <3> QED
      BY <1>1, <2>2, <3>3, BroadcastType
  <2>3. CASE ~s.lab /\ ~(cluster[r] # None /\ cluster[r].lab)
    BY <1>1, <2>3 DEF TypeOK, Stream
  <2> QED
    BY <2>1, <2>2, <2>3
<1> QED
  BY <1>1, <1>2, <1>4, <1>5 DEF TypeOK, Stream, maps, volume

(* The deletion of an object by a user. *)
LEMMA TypeDelete ==
    ASSUME TypeOK, NEW r \in Res, Delete(r),
           UNCHANGED <<volume, proc, ignore, task, maps, told, faults>>
    PROVE  TypeOK'
<1>1. rev + 1 \in 0..MaxRev
  BY ApiAssumption DEF Delete, TypeOK
<1>2. cluster[r] \in Item
  BY DEF Delete, TypeOK
<1>3. [cluster[r] EXCEPT !.rv = rev + 1] \in Item
  BY <1>1, <1>2 DEF Item
<1>4. [gone |-> TRUE, item |-> [cluster[r] EXCEPT !.rv = rev + 1]] \in Event
  BY <1>3 DEF Event
<1>5. stream' \in [Tasks -> Stream]
  BY <1>4, BroadcastType DEF Delete, TypeOK, Stream
<1> QED
  BY <1>1, <1>5 DEF Delete, TypeOK, Stream, maps, volume

(* The calls a listing makes, up to the last page. *)
LEMMA TypeList ==
    ASSUME TypeOK, NEW t \in Tasks,
           BeginList(t) \/ ReadNamed(t) \/ ListPage(t) \/ BeginStale(t) \/ EndList(t)
    PROVE  TypeOK'
<1>1. task[t] \in Task
  BY DEF TypeOK
<1>2. CASE BeginList(t)
  <2>1. Chosen(t) \subseteq ListedNames
    BY DEF Chosen, ListedNames
  <2>2. [Fresh EXCEPT !.pc = "names", !.names = Chosen(t)] \in Task
    BY <2>1, FreshType DEF Task
  <2>3. [Fresh EXCEPT !.pc = "page", !.pages = Selected(t)] \in Task
    BY SelectedType, FreshType DEF Task
  <2> QED
    BY <1>2, <2>2, <2>3 DEF BeginList, TypeOK, maps, volume
<1>3. CASE ReadNamed(t)
  <2>1. PICK n \in task[t].names :
          task' = [task EXCEPT ![t] = Gathered([task[t] EXCEPT !.names = @ \ {n}],
                                               task[t].items \union Named(t, n))]
    BY <1>3 DEF ReadNamed
  <2>2. [task[t] EXCEPT !.names = @ \ {n}] \in Task
    BY <1>1 DEF Task
  <2>3. task[t].items \union Named(t, n) \in SUBSET Item
    BY <1>1, NamedType DEF Task
  <2>4. Gathered([task[t] EXCEPT !.names = @ \ {n}], task[t].items \union Named(t, n)) \in Task
    BY <2>2, <2>3, GatheredType
  <2> QED
    BY <1>3, <2>1, <2>4 DEF ReadNamed, TypeOK, maps, volume
<1>4. CASE ListPage(t)
  <2>1. PICK page \in SUBSET task[t].pages :
          task' = [task EXCEPT ![t] = Gathered([task[t] EXCEPT !.pages = @ \ page],
                                               task[t].items \union page)]
    BY <1>4 DEF ListPage
  <2>2. [task[t] EXCEPT !.pages = @ \ page] \in Task
    BY <1>1 DEF Task
  <2>3. task[t].items \union page \in SUBSET Item
    BY <1>1 DEF Task
  <2>4. Gathered([task[t] EXCEPT !.pages = @ \ page], task[t].items \union page) \in Task
    BY <2>2, <2>3, GatheredType
  <2> QED
    BY <1>4, <2>1, <2>4 DEF ListPage, TypeOK, maps, volume
<1>5. CASE BeginStale(t)
  <2>1. Stale(t) \subseteq Cached
    BY DEF Stale, TypeOK
  <2>2. [task[t] EXCEPT !.pc = "stale", !.via = "stale", !.stale = Stale(t),
                        !.exist = {}] \in Task
    BY <1>1, <2>1 DEF Task
  <2>3. task' = [task EXCEPT ![t] = [task[t] EXCEPT !.pc = "stale", !.via = "stale",
                                            !.stale = Stale(t), !.exist = {}]]
    BY <1>5 DEF BeginStale, TypeOK
  <2> QED
    BY <1>5, <2>2, <2>3 DEF BeginStale, TypeOK, maps, volume
<1>6. CASE EndList(t)
  <2>1. Notify(t, task[t]) \in Task
    BY <1>1, NotifyType
  <2> QED
    BY <1>6, <2>1 DEF EndList, TypeOK, maps, volume
<1> QED
  BY <1>2, <1>3, <1>4, <1>5, <1>6

(* The processing of the listed objects and the stale sweep. *)
LEMMA TypeItem ==
    ASSUME TypeOK, NEW t \in Tasks, ListItem(t) \/ RemoveStale(t)
    PROVE  TypeOK'
<1>1. task[t] \in Task
  BY DEF TypeOK
<1>2. CASE ListItem(t)
  <2>1. PICK it \in task[t].items :
         LET m == MapKey(it.res)
             rest == [task[t] EXCEPT !.items = @ \ {it}, !.via = "list"]
         IN  IF Ignoring /\ version[m] = it.rv
             THEN task' = [task EXCEPT ![t] = rest] /\ UNCHANGED maps
             ELSE /\ version' = IF Ignoring THEN [version EXCEPT ![m] = it.rv] ELSE version
                  /\ Store(t, rest, it, get_destination_folder(it.ann))
    BY <1>2 DEF ListItem
  <2> DEFINE m == MapKey(it.res)
             rest == [task[t] EXCEPT !.items = @ \ {it}, !.via = "list"]
  <2>2. it \in Item /\ it.res \in Res /\ it.rv \in 0..MaxRev /\ it.ann \in Anns \union {None}
    BY <1>1 DEF Task, Item
  <2>3. rest \in Task
    BY <1>1 DEF Task
  <2>4. m \in MapKeys
    BY <2>2, MapKeyType
  <2>5. get_destination_folder(it.ann) \in Paths
    BY <2>2, DestinationType
  <2>6. /\ UNCHANGED <<cluster, rev, stream, files, inherited, proc, ignore, told, faults>>
        /\ \/ task' = [task EXCEPT ![t] = rest] /\ UNCHANGED <<version, object, dest, taken>>
           \/ /\ version' = [version EXCEPT ![m] = it.rv] \/ version' = version
              /\ Store(t, rest, it, get_destination_folder(it.ann))
    BY <1>2, <2>1 DEF ListItem, maps, volume
  <2> HIDE DEF m, rest
  <2>7. CASE task' = [task EXCEPT ![t] = rest] /\ UNCHANGED <<version, object, dest, taken>>
    BY <2>3, <2>6, <2>7 DEF TypeOK
  <2>8. CASE /\ version' = [version EXCEPT ![m] = it.rv] \/ version' = version
             /\ Store(t, rest, it, get_destination_folder(it.ann))
    <3>1. /\ object' \in [MapKeys -> Cached \union {None}]
          /\ dest' \in [MapKeys -> Paths \union {None}]
          /\ taken' \in [Res -> -1..MaxRev]
          /\ task' \in [Tasks -> Task]
      BY <2>2, <2>3, <2>5, <2>8, StoreType
    <3>2. version' \in [MapKeys -> 0..MaxRev \union {None}]
      BY <2>2, <2>4, <2>8 DEF TypeOK
    <3> QED
      BY <2>6, <3>1, <3>2 DEF TypeOK
  <2> QED
    BY <2>6, <2>7, <2>8
<1>3. CASE RemoveStale(t)
  <2>1. PICK c \in task[t].stale : Forget(t, [task[t] EXCEPT !.stale = @ \ {c}], c, NoPath)
    BY <1>3 DEF RemoveStale
  <2>2. c \in Cached /\ [task[t] EXCEPT !.stale = @ \ {c}] \in Task
    BY <1>1 DEF Task
  <2>3. NoPath \in Paths
    BY DEF Paths
  <2>4. /\ object' \in [MapKeys -> Cached \union {None}]
        /\ dest' \in [MapKeys -> Paths \union {None}]
        /\ taken' \in [Res -> -1..MaxRev]
        /\ task' \in [Tasks -> Task]
    BY <2>1, <2>2, <2>3, ForgetType
  <2> QED
    BY <1>3, <2>4 DEF RemoveStale, TypeOK, volume
<1> QED
  BY <1>2, <1>3

(* The calls of update_file of one process_resource. *)
LEMMA TypeFile ==
    ASSUME TypeOK, NEW t \in Tasks,
           UpdateFile(t) \/ FetchUrl(t) \/ UpdateFetched(t) \/ FinishItem(t)
    PROVE  TypeOK'
<1>1. task[t] \in Task /\ task[t].ops \subseteq Op
  BY DEF TypeOK, Task
<1>2. CASE UpdateFile(t)
  <2>1. PICK op \in task[t].ops :
         \/ Perform(t, op, op.put, FALSE) /\ UNCHANGED faults
         \/ Spend("fs") /\ Perform(t, op, op.put, TRUE)
    BY <1>2 DEF UpdateFile
  <2>2. op.put # None => op.put \in Contents
    BY <1>1 DEF Op, Contents
  <2>3. /\ files' \in [Slots -> Contents \union {None}]
        /\ inherited' \in SUBSET Slots
        /\ task' \in [Tasks -> Task]
    BY <2>1, <2>2, PerformType
  <2>4. faults' \in 0..MaxFaults
    BY <2>1, SpendType DEF TypeOK
  <2> QED
    BY <1>2, <2>3, <2>4 DEF UpdateFile, TypeOK, maps
<1>3. CASE FetchUrl(t)
  <2>1. [task[t] EXCEPT !.pc = "fetch"] \in Task
    BY <1>1 DEF Task
  <2>2. task' = [task EXCEPT ![t] = [task[t] EXCEPT !.pc = "fetch"]]
    BY <1>3 DEF FetchUrl, TypeOK
  <2> QED
    BY <1>3, <2>1, <2>2 DEF FetchUrl, TypeOK, maps, volume
<1>4. CASE UpdateFetched(t)
  <2>1. PICK op \in task[t].ops :
         \/ Perform(t, op, Body(op.put), FALSE) /\ UNCHANGED faults
         \/ Spend("fetch") /\ Perform(t, op, Empty, FALSE)
         \/ Spend("fs") /\ Perform(t, op, Body(op.put), TRUE)
    BY <1>4 DEF UpdateFetched
  <2>2. op.put # None => Body(op.put) \in Contents
    BY <1>1 DEF Op, Contents
  <2>3. Empty \in Contents
    BY DEF Contents
  <2>4. /\ files' \in [Slots -> Contents \union {None}]
        /\ inherited' \in SUBSET Slots
        /\ task' \in [Tasks -> Task]
    BY <2>1, <2>2, <2>3, PerformType
  <2>5. faults' \in 0..MaxFaults
    BY <2>1, SpendType DEF TypeOK
  <2> QED
    BY <1>4, <2>4, <2>5 DEF UpdateFetched, TypeOK, maps
<1>5. CASE FinishItem(t)
  <2>1. /\ [task[t] EXCEPT !.pc = "items"] \in Task
        /\ [task[t] EXCEPT !.pc = "stale"] \in Task
        /\ Notify(t, task[t]) \in Task
        /\ task[t].via \in {"list", "stale", "event"}
    BY <1>1, NotifyType DEF Task
  <2>2. \/ task' = [task EXCEPT ![t] = [task[t] EXCEPT !.pc = "items"]]
        \/ task' = [task EXCEPT ![t] = [task[t] EXCEPT !.pc = "stale"]]
        \/ task' = [task EXCEPT ![t] = Notify(t, task[t])]
    BY <1>5, <2>1 DEF FinishItem
  <2> QED
    BY <1>5, <2>1, <2>2 DEF FinishItem, TypeOK, maps, volume
<1> QED
  BY <1>2, <1>3, <1>4, <1>5

(* The hooks, and the failures of hooks and API calls. *)
LEMMA TypeHook ==
    ASSUME TypeOK, NEW t \in Tasks,
           RunScript(t) \/ SendRequest(t) \/ Wake(t) \/ ScriptFails(t) \/ ApiFails(t)
    PROVE  TypeOK'
<1>1. task[t] \in Task
  BY DEF TypeOK
<1>2. CASE RunScript(t)
  <2>1. [task[t] EXCEPT !.pc = "request"] \in Task /\ Resting(t, task[t]) \in Task
    BY <1>1, RestingType DEF Task
  <2> QED
    BY <1>2, <2>1 DEF RunScript, TypeOK, maps, volume
<1>3. CASE SendRequest(t)
  BY <1>1, <1>3, RestingType DEF SendRequest, TypeOK, maps, volume
<1>4. CASE Wake(t)
  <2>1. [task[t] EXCEPT !.pc = "loop"] \in Task
    BY <1>1 DEF Task
  <2>2. task' = [task EXCEPT ![t] = [task[t] EXCEPT !.pc = "loop"]]
    BY <1>4 DEF Wake, TypeOK
  <2> QED
    BY <1>4, <2>1, <2>2 DEF Wake, TypeOK, maps, volume
<1>5. CASE ScriptFails(t)
  BY <1>5, SpendType, ThrowType DEF ScriptFails
<1>6. CASE ApiFails(t)
  BY <1>6, SpendType, ThrowType DEF ApiFails
<1> QED
  BY <1>2, <1>3, <1>4, <1>5, <1>6

(* The watch loop: connection, events, end of the stream, and the server closing it. *)
LEMMA TypeWatch ==
    ASSUME TypeOK, NEW t \in Tasks,
           Connect(t) \/ HandleEvent(t) \/ StreamEnds(t) \/ Close(t)
    PROVE  TypeOK'
<1>1. task[t] \in Task
  BY DEF TypeOK
<1>2. CASE Connect(t)
  <2>1. [task[t] EXCEPT !.pc = "watch"] \in Task
    BY <1>1 DEF Task
  <2>2. task' = [task EXCEPT ![t] = [task[t] EXCEPT !.pc = "watch"]]
    BY <1>2 DEF Connect, TypeOK
  <2>3. OpenStream(t) \in Stream
    BY SelectedType DEF OpenStream, Stream
  <2> QED
    BY <1>2, <2>1, <2>2, <2>3 DEF Connect, TypeOK, Stream, maps, volume
<1>3. CASE StreamEnds(t)
  <2>1. [task[t] EXCEPT !.pc = "loop"] \in Task
    BY <1>1 DEF Task
  <2>2. task' = [task EXCEPT ![t] = [task[t] EXCEPT !.pc = "loop"]]
    BY <1>3 DEF StreamEnds, TypeOK
  <2> QED
    BY <1>3, <2>1, <2>2 DEF StreamEnds, TypeOK, maps, volume
<1>4. CASE Close(t)
  <2>1. [stream[t] EXCEPT !.live = FALSE] \in Stream
    BY DEF TypeOK, Stream
  <2>2. stream' = [stream EXCEPT ![t] = [stream[t] EXCEPT !.live = FALSE]]
    BY <1>4 DEF Close, ServerClose, TypeOK
  <2> QED
    BY <1>4, <2>1, <2>2 DEF Close, ServerClose, TypeOK, Stream, maps, volume
<1>5. CASE HandleEvent(t)
  <2>1. PICK d \in Delivery(t) :
         LET ev == d[1]
             local == [Fresh EXCEPT !.via = "event"]
             to == get_destination_folder(ev.item.ann)
         IN  /\ stream' = [stream EXCEPT ![t] = d[2]]
             /\ version' = Recorded(ev)
             /\ IF Skips(ev) THEN UNCHANGED <<task, object, dest, taken>>
                ELSE IF ev.gone THEN Forget(t, local, CachedItem(ev.item), to)
                ELSE Store(t, local, ev.item, to)
    BY <1>5 DEF HandleEvent
  <2> DEFINE ev == d[1]
             local == [Fresh EXCEPT !.via = "event"]
             to == get_destination_folder(ev.item.ann)
  <2>2. ev \in Event /\ d[2] \in Stream
    BY DeliveryType
  <2>3. /\ ev.item \in Item /\ ev.item.res \in Res /\ ev.item.rv \in 0..MaxRev
        /\ ev.item.ann \in Anns \union {None}
    BY <2>2 DEF Event, Item
  <2>4. local \in Task
    BY FreshType DEF Task
  <2>5. to \in Paths
    BY <2>3, DestinationType
  <2>6. CachedItem(ev.item) \in Cached
    BY <2>3, CachedType
  <2>7. MapKey(ev.item.res) \in MapKeys
    BY <2>3, MapKeyType
  <2>8. /\ stream' = [stream EXCEPT ![t] = d[2]]
        /\ version' = Recorded(ev)
        /\ \/ UNCHANGED <<task, object, dest, taken>>
           \/ Forget(t, local, CachedItem(ev.item), to)
           \/ Store(t, local, ev.item, to)
    BY <2>1
  <2> HIDE DEF ev, local, to
  <2>9. /\ object' \in [MapKeys -> Cached \union {None}]
        /\ dest' \in [MapKeys -> Paths \union {None}]
        /\ taken' \in [Res -> -1..MaxRev]
        /\ task' \in [Tasks -> Task]
    <3>1. CASE UNCHANGED <<task, object, dest, taken>>
      BY <3>1 DEF TypeOK
    <3>2. CASE Forget(t, local, CachedItem(ev.item), to)
      BY <2>4, <2>5, <2>6, <3>2, ForgetType
    <3>3. CASE Store(t, local, ev.item, to)
      BY <2>3, <2>4, <2>5, <3>3, StoreType
    <3> QED
      BY <2>8, <3>1, <3>2, <3>3
  <2>10. version' \in [MapKeys -> 0..MaxRev \union {None}]
    BY <2>3, <2>7, <2>8 DEF Recorded, TypeOK
  <2>11. stream' \in [Tasks -> Stream]
    BY <2>2, <2>8 DEF TypeOK, Stream
  <2> QED
    BY <1>5, <2>9, <2>10, <2>11 DEF HandleEvent, TypeOK, Stream, volume
<1> QED
  BY <1>2, <1>3, <1>4, <1>5

(* The steps of main, the end of the process and its restart. *)
LEMMA TypeMain ==
    ASSUME TypeOK, EndBoot \/ Monitor \/ Crash \/ Restart
    PROVE  TypeOK'
<1>1. CASE EndBoot
  <2>1. CASE Mode = "LIST"
    <3>1. faults' \in 0..MaxFaults
      BY <1>1 DEF EndBoot, TypeOK
    <3> QED
      BY <1>1, <2>1, <3>1, ExitType DEF EndBoot
  <2>2. CASE Mode # "LIST"
    <3>1. [Fresh EXCEPT !.pc = "loop"] \in Task
      BY FreshType DEF Task
    <3> QED
      BY <1>1, <2>2, <3>1 DEF EndBoot, TypeOK, maps, volume
  <2> QED
    BY <2>1, <2>2
<1>2. CASE Monitor
  <2>1. faults' \in 0..MaxFaults
    BY <1>2 DEF Monitor, TypeOK
  <2> QED
    BY <1>2, <2>1, ExitType DEF Monitor
<1>3. CASE Crash
  BY <1>3, SpendType, ExitType DEF Crash
<1>4. CASE Restart
  BY <1>4, ConfigAssumption DEF Restart, TypeOK, maps, volume
<1> QED
  BY <1>1, <1>2, <1>3, <1>4

(* The initial states are well typed. *)
LEMMA TypeInit == Init => TypeOK
<1> SUFFICES ASSUME Init PROVE TypeOK
  OBVIOUS
<1>1. \A r \in Res : Initial(r) \subseteq Item \union {None}
  BY ApiAssumption DEF Initial, MakeItem, Item, Shape
<1>2. cluster \in [Res -> Item \union {None}]
  BY <1>1 DEF Init, ApiInit
<1>3. stream \in [Tasks -> [live: BOOLEAN, backlog: SUBSET Item, queue: Seq(Event)]]
  BY DEF Init, ApiInit, NoStream
<1> QED
  BY <1>2, <1>3, FreshType, ApiAssumption, ConfigAssumption DEF Init, ApiInit, TypeOK

(* Every step keeps the variables well typed. *)
LEMMA TypeNext == TypeOK /\ [Next]_vars => TypeOK'
<1> SUFFICES ASSUME TypeOK, [Next]_vars PROVE TypeOK'
  OBVIOUS
<1>1. CASE UNCHANGED vars
  BY <1>1 DEF vars, maps, volume, TypeOK
<1>2. ASSUME NEW t \in Tasks, Step(t) PROVE TypeOK'
  BY <1>2, TypeList, TypeItem, TypeFile, TypeHook, TypeWatch DEF Step
<1>3. ASSUME NEW t \in Tasks, Fails(t) \/ Close(t) PROVE TypeOK'
  BY <1>3, TypeHook, TypeWatch DEF Fails
<1>4. CASE User
  BY <1>4, TypeApply, TypeDelete DEF User
<1>5. CASE EndBoot \/ Monitor \/ Crash \/ Restart
  BY <1>5, TypeMain
<1> QED
  BY <1>1, <1>2, <1>3, <1>4, <1>5 DEF Next

(* Every variable always has its type, whatever the API delivers and whatever *)
(* fails.                                                                      *)
THEOREM TypeCorrect == Spec => []TypeOK
BY TypeInit, TypeNext, PTL DEF Spec
=============================================================================

----------------------------- MODULE DiskProofs -----------------------------
(***************************************************************************)
(* What the maps say is what is on the volume: no file is lost track of,   *)
(* no file that is remembered is missing, the files of an object whose     *)
(* version was stored are right, and so the sidecar implements Mirror.     *)
(* Every step is of one of five kinds for the volume and the maps; each    *)
(* invariant, and the refinement, is proved kind by kind.                  *)
(***************************************************************************)
EXTENDS CacheProofs

(* What the tasks are about to do changes for one of them only. *)
OpsChange(t, ops) == \A u \in Tasks : task'[u].ops = IF u = t THEN ops ELSE task[u].ops

(* A step that leaves the volume and what is remembered and to be done alone.  *)
Passive == /\ UNCHANGED <<volume, object, dest, taken>>
           /\ \A t \in Tasks : task'[t].ops = task[t].ops

(* process_resource takes up an object a task was told of. *)
Takes(t, it) ==
    LET m == MapKey(it.res)
        to == get_destination_folder(it.ann)
        new == CachedItem(it)
        old == IF object[m] # None THEN object[m] ELSE new
    IN  /\ task[t].ops = {} /\ it \in Announced(t) /\ Serves(t, it.res)
        /\ object' = [object EXCEPT ![m] = new]
        /\ dest' = [dest EXCEPT ![m] = to]
        /\ taken' = [taken EXCEPT ![it.res] = it.rv]
        /\ OpsChange(t, Writes(it, to) \union Leftovers(old, new, OldDest(m, to), to))
        /\ UNCHANGED <<volume, cluster>>

(* process_resource removes an object that is remembered. *)
Drops(t, c) ==
    /\ task[t].ops = {} /\ Serves(t, c.res) /\ object[MapKey(c.res)] = c
    /\ cluster[c.res] # None /\ WantedBy(t, cluster[c.res]) => taken[c.res] < cluster[c.res].rv
    /\ object' = [object EXCEPT ![MapKey(c.res)] = None]
    /\ OpsChange(t, Removals(c, dest[MapKey(c.res)]))
    /\ UNCHANGED <<volume, dest, taken, cluster>>

(* update_file writes or removes one file. *)
Touches(t, op) ==
    /\ \E data, fails :
         /\ Perform(t, op, data, fails)
         /\ fails = FALSE \/ "fs" \in FaultKinds
         /\ data = Expected(op.key, op.put) \/ (data = Empty /\ "fetch" \in FaultKinds)
    /\ UNCHANGED <<object, dest, taken, cluster>>

(* The process ends. *)
Ends == \E status : Exit(status)

-----------------------------------------------------------------------------
(* The kinds of the steps *)

(* A task that is not at its files has nothing to do to them. *)
LEMMA NoOps ==
    ASSUME LocalInv, NEW t \in Tasks, task[t].pc \notin {"file", "fetch"}
    PROVE  task[t].ops = {}
BY DEF LocalInv, Settled

(* A step of one task that has nothing to do, before and after. *)
LEMMA PassiveStep ==
    ASSUME TypeOK, NEW t \in Tasks, NEW local, task' = [task EXCEPT ![t] = local],
           local.ops = task[t].ops, UNCHANGED <<volume, object, dest, taken>>
    PROVE  Passive
<1>1. \A u \in Tasks : task'[u] = IF u = t THEN local ELSE task[u]
  BY DEF TypeOK
<1> QED
  BY <1>1 DEF Passive

(* A task at rest. *)
LEMMA RestingOps ==
    ASSUME NEW t \in Tasks, NEW local
    PROVE  Fresh.ops = {} /\ Resting(t, local).ops = {} /\ Notify(t, local).ops = {}
BY DEF Fresh, Resting, Notify

(* The calls a listing makes, and the choice of what is stale. *)
LEMMA ListKind ==
    ASSUME TypeOK, LocalInv, NEW t \in Tasks,
           BeginList(t) \/ ReadNamed(t) \/ ListPage(t) \/ BeginStale(t) \/ EndList(t)
    PROVE  Passive
<1>1. task[t] \in Task /\ UNCHANGED <<volume, object, dest, taken>>
  BY DEF TypeOK, BeginList, ReadNamed, ListPage, BeginStale, EndList, maps
<1>2. task[t].ops = {}
  <2>1. task[t].pc \notin {"file", "fetch"}
    BY DEF BeginList, MainsTurn, ReadNamed, ListPage, BeginStale, EndList
  <2> QED
    BY <2>1, NoOps
<1>3. CASE BeginList(t)
  <2>1. PICK local \in {[Fresh EXCEPT !.pc = "names", !.names = Chosen(t)],
                        [Fresh EXCEPT !.pc = "page", !.pages = Selected(t)]} :
          task' = [task EXCEPT ![t] = local]
    BY <1>3 DEF BeginList
  <2>2. local.ops = {}
    BY <2>1 DEF Fresh
  <2> QED
    BY <1>1, <1>2, <2>1, <2>2, PassiveStep
<1>4. CASE ReadNamed(t)
  <2>1. PICK n \in task[t].names :
          task' = [task EXCEPT ![t] = Gathered([task[t] EXCEPT !.names = @ \ {n}],
                                               task[t].items \union Named(t, n))]
    BY <1>4 DEF ReadNamed
  <2>2. Gathered([task[t] EXCEPT !.names = @ \ {n}], task[t].items \union Named(t, n)).ops
          = task[t].ops
    BY <1>1 DEF Gathered, Task
  <2> QED
    BY <1>1, <2>1, <2>2, PassiveStep
<1>5. CASE ListPage(t)
  <2>1. PICK page \in SUBSET task[t].pages :
          task' = [task EXCEPT ![t] = Gathered([task[t] EXCEPT !.pages = @ \ page],
                                               task[t].items \union page)]
    BY <1>5 DEF ListPage
  <2>2. Gathered([task[t] EXCEPT !.pages = @ \ page], task[t].items \union page).ops = task[t].ops
    BY <1>1 DEF Gathered, Task
  <2> QED
    BY <1>1, <2>1, <2>2, PassiveStep
<1>6. CASE BeginStale(t)
  <2> DEFINE next == [task[t] EXCEPT !.pc = "stale", !.via = "stale", !.stale = Stale(t), !.exist = {}]
  <2>1. task' = [task EXCEPT ![t] = next]
    BY <1>6 DEF BeginStale, TypeOK
  <2>2. next.ops = task[t].ops
    BY <1>1 DEF Task
  <2> HIDE DEF next
  <2> QED
    BY <1>1, <2>1, <2>2, PassiveStep
<1>7. CASE EndList(t)
  BY <1>1, <1>2, <1>7, RestingOps, PassiveStep DEF EndList
<1> QED
  BY <1>3, <1>4, <1>5, <1>6, <1>7

(* The hooks, the failures and the watch loop but for its events. *)
LEMMA HookKind ==
    ASSUME TypeOK, LocalInv, NEW t \in Tasks,
           \/ RunScript(t) \/ SendRequest(t) \/ Wake(t) \/ ScriptFails(t) \/ ApiFails(t)
           \/ Connect(t) \/ StreamEnds(t) \/ Close(t)
    PROVE  Passive \/ Ends
<1>1. task[t] \in Task
  BY DEF TypeOK
<1>2. CASE RunScript(t) \/ SendRequest(t)
  <2>1. \/ task' = [task EXCEPT ![t] = [task[t] EXCEPT !.pc = "request"]]
        \/ task' = [task EXCEPT ![t] = Resting(t, task[t])]
    BY <1>2 DEF RunScript, SendRequest
  <2>2. UNCHANGED <<volume, object, dest, taken>> /\ task[t].pc \in {"script", "request"}
    BY <1>2 DEF RunScript, SendRequest, maps
  <2>3. task[t].ops = {} /\ [task[t] EXCEPT !.pc = "request"].ops = task[t].ops
    BY <1>1, <2>2, NoOps DEF Task
  <2> QED
    BY <2>1, <2>2, <2>3, RestingOps, PassiveStep
<1>3. CASE Wake(t) \/ Connect(t) \/ StreamEnds(t)
  <2>1. PICK pc : task' = [task EXCEPT ![t] = [task[t] EXCEPT !.pc = pc]]
    BY <1>3 DEF Wake, Connect, StreamEnds, TypeOK
  <2>2. UNCHANGED <<volume, object, dest, taken>>
    BY <1>3 DEF Wake, Connect, StreamEnds, maps
  <2>3. [task[t] EXCEPT !.pc = pc].ops = task[t].ops
    BY <1>1 DEF Task
  <2> QED
    BY <2>1, <2>2, <2>3, PassiveStep
<1>4. CASE Close(t)
  BY <1>4 DEF Close, Passive, maps
<1>5. CASE ScriptFails(t) \/ ApiFails(t)
  <2>1. PICK pc : Throw(t, pc)
    BY <1>5 DEF ScriptFails, ApiFails
  <2>2. task[t].ops = {}
    BY <1>5, NoOps DEF ScriptFails, ApiFails
  <2>3. CASE proc = "boot"
    BY <2>1, <2>3 DEF Throw, Ends
  <2>4. CASE proc # "boot"
    <3>1. task' = [task EXCEPT ![t] = [Fresh EXCEPT !.pc = pc]] /\ UNCHANGED <<volume, maps>>
      BY <2>1, <2>4 DEF Throw
    <3>2. [Fresh EXCEPT !.pc = pc].ops = {}
      BY DEF Fresh
    <3>3. UNCHANGED <<volume, object, dest, taken>>
      BY <3>1 DEF maps
    <3> QED
      BY <2>2, <3>1, <3>2, <3>3, PassiveStep
  <2> QED
    BY <2>3, <2>4
<1> QED
  BY <1>2, <1>3, <1>4, <1>5


(* process_resource of one object, as it is told. *)
LEMMA StoreKind ==
    ASSUME TypeOK, NEW t \in Tasks, NEW local \in Task, NEW it, it \in Announced(t),
           Serves(t, it.res), task[t].ops = {},
           Store(t, local, it, get_destination_folder(it.ann)), UNCHANGED <<volume, cluster>>
    PROVE  Takes(t, it)
<1> DEFINE m == MapKey(it.res)
           to == get_destination_folder(it.ann)
           new == CachedItem(it)
           old == IF object[m] # None THEN object[m] ELSE new
           ops == Writes(it, to) \union Leftovers(old, new, OldDest(m, to), to)
           next == [local EXCEPT !.pc = "file", !.ops = ops]
<1>1. /\ object' = [object EXCEPT ![m] = new] /\ dest' = [dest EXCEPT ![m] = to]
      /\ taken' = [taken EXCEPT ![it.res] = it.rv] /\ task' = [task EXCEPT ![t] = next]
  BY DEF Store
<1>2. next.ops = ops
  BY DEF Task
<1> HIDE DEF next
<1>3. OpsChange(t, ops)
  BY <1>1, <1>2 DEF OpsChange, TypeOK
<1> QED
  BY <1>1, <1>3 DEF Takes

(* The objects of a listing. *)
LEMMA ItemKind ==
    ASSUME TypeOK, ScopeInv, LocalInv, NEW t \in Tasks, ListItem(t)
    PROVE  Passive \/ \E it \in Item : Takes(t, it)
<1>1. task[t] \in Task /\ task[t].pc = "items" /\ task[t].ops = {}
  BY NoOps DEF TypeOK, ListItem
<1>2. PICK it \in task[t].items :
        LET m == MapKey(it.res)
            rest == [task[t] EXCEPT !.items = @ \ {it}, !.via = "list"]
        IN  IF Ignoring /\ version[m] = it.rv
            THEN task' = [task EXCEPT ![t] = rest] /\ UNCHANGED maps
            ELSE /\ version' = IF Ignoring THEN [version EXCEPT ![m] = it.rv] ELSE version
                 /\ Store(t, rest, it, get_destination_folder(it.ann))
  BY DEF ListItem
<1> DEFINE rest == [task[t] EXCEPT !.items = @ \ {it}, !.via = "list"]
<1>3. rest \in Task /\ rest.ops = task[t].ops
  BY <1>1 DEF Task
<1>4. it \in Item /\ it \in Announced(t) /\ Serves(t, it.res) /\ UNCHANGED <<volume, cluster>>
  BY <1>1 DEF Task, Announced, Listed, ScopeInv, InScope, ListItem
<1>5. \/ task' = [task EXCEPT ![t] = rest] /\ UNCHANGED maps
      \/ Store(t, rest, it, get_destination_folder(it.ann))
  BY <1>2
<1> HIDE DEF rest
<1>6. CASE task' = [task EXCEPT ![t] = rest] /\ UNCHANGED maps
  BY <1>3, <1>4, <1>6, PassiveStep DEF maps
<1>7. CASE Store(t, rest, it, get_destination_folder(it.ann))
  BY <1>1, <1>3, <1>4, <1>7, StoreKind
<1> QED
  BY <1>5, <1>6, <1>7

(* process_resource of one object that is gone. *)
LEMMA ForgetKind ==
    ASSUME TypeOK, FolderInv, NEW t \in Tasks, NEW local \in Task, NEW c \in Cached, NEW to,
           Serves(t, c.res), object[MapKey(c.res)] = c, task[t].ops = {}, cluster[c.res] # None
           /\ WantedBy(t, cluster[c.res]) => taken[c.res] < cluster[c.res].rv,
           Forget(t, local, c, to), UNCHANGED <<volume, cluster>>
    PROVE  Drops(t, c)
<1> DEFINE m == MapKey(c.res)
           ops == Removals(c, OldDest(m, to))
           next == [local EXCEPT !.pc = "file", !.ops = ops]
<1>1. /\ object' = [object EXCEPT ![m] = None] /\ task' = [task EXCEPT ![t] = next]
      /\ UNCHANGED <<dest, taken>>
  BY DEF Forget
<1>2. next.ops = ops
  BY DEF Task
<1>3. m \in MapKeys /\ c # None
  BY MapKeyType, NoneAssumption DEF Cached
<1>4. OldDest(m, to) = dest[m]
  BY <1>3 DEF FolderInv, HomeKnown, OldDest
<1> HIDE DEF next
<1>5. OpsChange(t, Removals(c, dest[m]))
  BY <1>1, <1>2, <1>4 DEF OpsChange, TypeOK
<1> QED
  BY <1>1, <1>5 DEF Drops

(* The sweep of what is stale. *)
LEMMA StaleKind ==
    ASSUME TypeOK, ScopeInv, FolderInv, LocalInv, CacheInv, NEW t \in Tasks, RemoveStale(t)
    PROVE  \E c \in Cached : Drops(t, c)
<1>1. task[t] \in Task /\ task[t].pc = "stale" /\ task[t].ops = {}
  BY NoOps DEF TypeOK, RemoveStale
<1>2. PICK c \in task[t].stale : Forget(t, [task[t] EXCEPT !.stale = @ \ {c}], c, NoPath)
  BY DEF RemoveStale
<1>3. [task[t] EXCEPT !.stale = @ \ {c}] \in Task /\ c \in Cached /\ c.res \in Res
  BY <1>1 DEF Task, Cached
<1>4. Unlisted(task[t], c.res)
  BY DEF Unlisted
<1>5. Serves(t, c.res) /\ object[MapKey(c.res)] = c /\ UNCHANGED <<volume, cluster>>
  BY DEF ScopeInv, InScope, CacheInv, SweepInv, RemoveStale
<1>6. cluster[c.res] # None /\ WantedBy(t, cluster[c.res]) => taken[c.res] < cluster[c.res].rv
  BY <1>3, <1>4, <1>5 DEF CacheInv, SweepInv
<1> QED
  BY <1>1, <1>2, <1>3, <1>5, <1>6, ForgetKind


(* A DELETED event tells the contents that are remembered, and is a later      *)
(* version than what was stored.                                               *)
LEMMA GoneKnown ==
    ASSUME TypeOK, OrderInv, CacheInv, NEW t \in Tasks, NEW d \in Delivery(t), d[1].gone
    PROVE  /\ object[MapKey(d[1].item.res)] = CachedItem(d[1].item)
           /\ taken[d[1].item.res] < d[1].item.rv
<1> DEFINE s == stream[t]
           item == d[1].item
<1>1. s.queue # <<>> /\ s.backlog = {} /\ d[1] = s.queue[1]
  BY DeliveryCases
<1>2. s.queue \in Seq(Event) /\ item \in Item
  BY DeliveryType DEF TypeOK, Event
<1>3. 1 \in DOMAIN s.queue
  BY <1>1, <1>2
<1>4. 1 - 1 = 0 /\ 1..0 = {}
  OBVIOUS
<1>5. PICK v \in 0..MaxRev : Known(s, object, taken, 0, [item EXCEPT !.rv = v])
  BY <1>1, <1>3, <1>4 DEF CacheInv, ChainInv
<1> DEFINE it == [item EXCEPT !.rv = v]
<1>6. it.res = item.res /\ CachedItem(it) = CachedItem(item)
  BY <1>2, ItemVersion
<1> HIDE DEF it
<1>7. Known(s, object, taken, 0, it)
  BY <1>5 DEF it
<1>8. object[MapKey(it.res)] = CachedItem(it)
  BY <1>1, <1>4, <1>7 DEF Known
<1>9. taken[item.res] < item.rv
  BY <1>1, <1>3 DEF OrderInv, QueueInv
<1> QED
  BY <1>6, <1>8, <1>9

(* The processing of an event. *)
LEMMA EventKind ==
    ASSUME TypeOK, ScopeInv, FolderInv, LocalInv, OrderInv, CacheInv,
           NEW t \in Tasks, HandleEvent(t)
    PROVE  Passive \/ (\E it \in Item : Takes(t, it)) \/ \E c \in Cached : Drops(t, c)
<1>1. task[t].ops = {} /\ UNCHANGED <<volume, cluster>>
  BY NoOps DEF HandleEvent
<1>2. PICK d \in Delivery(t) :
         LET ev == d[1]
             local == [Fresh EXCEPT !.via = "event"]
             to == get_destination_folder(ev.item.ann)
         IN  /\ stream' = [stream EXCEPT ![t] = d[2]]
             /\ version' = Recorded(ev)
             /\ IF Skips(ev) THEN UNCHANGED <<task, object, dest, taken>>
                ELSE IF ev.gone THEN Forget(t, local, CachedItem(ev.item), to)
                ELSE Store(t, local, ev.item, to)
  BY DEF HandleEvent
<1> DEFINE ev == d[1]
           item == ev.item
           local == [Fresh EXCEPT !.via = "event"]
           to == get_destination_folder(item.ann)
<1>3. ev \in Event /\ item \in Item /\ item.res \in Res /\ Serves(t, item.res)
      /\ InOrder(item, taken, cluster, rev)
  BY DeliveryType, DeliveryScope, DeliveryOrdered DEF Event, Item, ScopeInv
<1>4. local \in Task
  BY FreshType DEF Task
<1>5. \/ UNCHANGED <<task, object, dest, taken>>
      \/ ev.gone /\ Forget(t, local, CachedItem(item), to)
      \/ ~ev.gone /\ Store(t, local, item, to)
  BY <1>2
<1>6. CASE UNCHANGED <<task, object, dest, taken>>
  BY <1>1, <1>6 DEF Passive
<1>7. CASE ev.gone /\ Forget(t, local, CachedItem(item), to)
  <2>1. CachedItem(item) \in Cached /\ CachedItem(item).res = item.res
    BY <1>3, CachedType DEF CachedItem
  <2>2. object[MapKey(item.res)] = CachedItem(item) /\ taken[item.res] < item.rv
    BY <1>7, GoneKnown
  <2>3. cluster[item.res] # None /\ WantedBy(t, cluster[item.res])
          => taken[item.res] < cluster[item.res].rv
    <3>1. taken[item.res] \in Int /\ item.rv \in Int
      BY <1>3, ApiAssumption DEF TypeOK, Item
    <3>2. cluster[item.res] # None => cluster[item.res].rv \in Int /\ item.rv <= cluster[item.res].rv
      BY <1>3, ApiAssumption DEF TypeOK, Item, InOrder
    <3> QED
      BY <2>2, <3>1, <3>2
  <2> HIDE DEF ev, item, local, to
  <2>4. Drops(t, CachedItem(item))
    BY <1>1, <1>3, <1>4, <1>7, <2>1, <2>2, <2>3, ForgetKind
  <2> QED
    BY <2>1, <2>4
<1>8. CASE ~ev.gone /\ Store(t, local, item, to)
  <2>1. item \in Announced(t)
    <3>1. \/ item \in stream[t].backlog
          \/ stream[t].queue # <<>> /\ ev = stream[t].queue[1]
      BY DeliveryCases
    <3>2. stream[t].queue \in Seq(Event)
      BY DEF TypeOK
    <3> QED
      BY <1>8, <3>1, <3>2 DEF Announced
  <2> HIDE DEF ev, item, local
  <2>2. Takes(t, item)
    BY <1>1, <1>3, <1>4, <1>8, <2>1, StoreKind DEF to
  <2> QED
    BY <1>3, <2>2
<1> QED
  BY <1>5, <1>6, <1>7, <1>8

(* The file operations. *)
LEMMA FileKind ==
    ASSUME TypeOK, NEW t \in Tasks,
           UpdateFile(t) \/ FetchUrl(t) \/ UpdateFetched(t) \/ FinishItem(t)
    PROVE  Passive \/ \E op \in task[t].ops : Touches(t, op)
<1>1. task[t] \in Task
  BY DEF TypeOK
<1>2. CASE UpdateFile(t)
  <2>1. PICK op \in task[t].ops :
          /\ op.key \notin UrlKeys
          /\ \/ Perform(t, op, op.put, FALSE)
             \/ "fs" \in FaultKinds /\ Perform(t, op, op.put, TRUE)
    BY <1>2 DEF UpdateFile, Spend
  <2>2. Expected(op.key, op.put) = op.put /\ UNCHANGED <<object, dest, taken, cluster>>
    BY <1>2, <2>1 DEF Expected, UpdateFile, maps
  <2>3. Touches(t, op)
    BY <2>1, <2>2 DEF Touches
  <2> QED
    BY <2>3
<1>3. CASE UpdateFetched(t)
  <2>1. PICK op \in task[t].ops :
          /\ op.key \in UrlKeys
          /\ \/ Perform(t, op, Body(op.put), FALSE)
             \/ "fetch" \in FaultKinds /\ Perform(t, op, Empty, FALSE)
             \/ "fs" \in FaultKinds /\ Perform(t, op, Body(op.put), TRUE)
    BY <1>3 DEF UpdateFetched, Spend
  <2>2. UNCHANGED <<object, dest, taken, cluster>>
    BY <1>3 DEF UpdateFetched, maps
  <2>3. Expected(op.key, op.put) = Body(op.put)
    BY <2>1 DEF Expected
  <2> QED
    BY <2>1, <2>2, <2>3 DEF Touches
<1>4. CASE FetchUrl(t)
  <2>1. task' = [task EXCEPT ![t] = [task[t] EXCEPT !.pc = "fetch"]]
        /\ UNCHANGED <<volume, object, dest, taken>>
    BY <1>4 DEF FetchUrl, TypeOK, maps
  <2>2. [task[t] EXCEPT !.pc = "fetch"].ops = task[t].ops
    BY <1>1 DEF Task
  <2> QED
    BY <2>1, <2>2, PassiveStep
<1>5. CASE FinishItem(t)
  <2>1. task[t].via \in {"list", "stale", "event"} /\ task[t].ops = {}
        /\ UNCHANGED <<volume, object, dest, taken>>
    BY <1>1, <1>5 DEF Task, FinishItem, maps
  <2>2. \/ \E pc \in {"items", "stale"} : task' = [task EXCEPT ![t] = [task[t] EXCEPT !.pc = pc]]
        \/ task' = [task EXCEPT ![t] = Notify(t, task[t])]
    BY <1>5, <2>1 DEF FinishItem
  <2>3. \A pc \in {"items", "stale"} : [task[t] EXCEPT !.pc = pc].ops = task[t].ops
    BY <1>1 DEF Task
  <2> QED
    BY <2>1, <2>2, <2>3, RestingOps, PassiveStep
<1> QED
  BY <1>2, <1>3, <1>4, <1>5


(* The steps of main. *)
LEMMA MainKind ==
    ASSUME TypeOK, LocalInv, EndBoot \/ Monitor \/ Crash \/ Restart
    PROVE  Passive \/ Ends
<1>1. CASE EndBoot /\ Mode # "LIST"
  <2>1. /\ \A t \in Tasks : task[t].pc = "ready"
        /\ task' = [t \in Tasks |-> [Fresh EXCEPT !.pc = "loop"]]
        /\ UNCHANGED <<volume, object, dest, taken>>
    BY <1>1 DEF EndBoot, maps
  <2>2. [Fresh EXCEPT !.pc = "loop"].ops = {} /\ \A t \in Tasks : task[t].ops = {}
    BY <2>1, NoOps DEF Fresh
  <2> QED
    BY <2>1, <2>2 DEF Passive
<1>2. CASE Restart
  BY <1>2 DEF Restart, Passive, maps
<1>3. CASE (EndBoot /\ Mode = "LIST") \/ Monitor \/ Crash
  BY <1>3 DEF EndBoot, Monitor, Crash, Ends
<1> QED
  BY <1>1, <1>2, <1>3

(* Only users change the cluster. *)
LEMMA ClusterKept == [Next]_vars /\ ~User => UNCHANGED cluster
<1> SUFFICES ASSUME [Next]_vars, ~User PROVE UNCHANGED cluster
  OBVIOUS
<1>1. CASE UNCHANGED vars
  BY <1>1 DEF vars
<1>2. ASSUME NEW t \in Tasks, Step(t) PROVE UNCHANGED cluster
  BY <1>2 DEF Step, BeginList, ReadNamed, ListPage, ListItem, BeginStale, RemoveStale, EndList,
              UpdateFile, FetchUrl, UpdateFetched, FinishItem, RunScript, SendRequest, Wake,
              Connect, HandleEvent, StreamEnds
<1>3. ASSUME NEW t \in Tasks, Fails(t) \/ Close(t) PROVE UNCHANGED cluster
  BY <1>3 DEF Fails, ScriptFails, ApiFails, Throw, Exit, Close, ServerClose
<1>4. CASE EndBoot \/ Monitor \/ Crash \/ Restart
  BY <1>4 DEF EndBoot, Monitor, Crash, Restart, Exit
<1> QED
  BY <1>1, <1>2, <1>3, <1>4 DEF Next

(* Every step is of one of the five kinds. *)
LEMMA StepKinds ==
    ASSUME TypeOK, ScopeInv, FolderInv, LocalInv, OrderInv, CacheInv, [Next]_vars
    PROVE  \/ Passive \/ Ends
           \/ \E t \in Tasks : \/ \E it \in Item : Takes(t, it)
                               \/ \E c \in Cached : Drops(t, c)
                               \/ \E op \in task[t].ops : Touches(t, op)
<1>1. CASE UNCHANGED vars
  BY <1>1 DEF vars, Passive, maps
<1>2. ASSUME NEW t \in Tasks, Step(t)
      PROVE  \/ Passive \/ Ends
             \/ \E it \in Item : Takes(t, it)
             \/ \E c \in Cached : Drops(t, c)
             \/ \E op \in task[t].ops : Touches(t, op)
  BY <1>2, ListKind, ItemKind, StaleKind, FileKind, HookKind, EventKind DEF Step
<1>3. ASSUME NEW t \in Tasks, Fails(t) \/ Close(t) PROVE Passive \/ Ends
  BY <1>3, HookKind DEF Fails
<1>4. CASE User
  BY <1>4 DEF User, Passive, maps
<1>5. CASE EndBoot \/ Monitor \/ Crash \/ Restart
  BY <1>5, MainKind
<1> QED
  BY <1>1, <1>2, <1>3, <1>4, <1>5 DEF Next
-----------------------------------------------------------------------------
(* NoOrphans, kind by kind *)

(* A file that is remembered, or about to be dealt with. *)
Claimed(s, ob, de) == \E m \in MapKeys : /\ ob[m] # None
                                         /\ \E k \in Keys : /\ ob[m].sec[k] # None
                                                            /\ Slot(de[m], ob[m].res, k) = s
Awaited(s, ops) == \E op \in ops : Slot(op.path, op.res, op.key) = s

(* NoOrphans, in these words. *)
LEMMA OrphanParts ==
    NoOrphans <=> \A s \in Slots : files[s] # None =>
      \/ Claimed(s, object, dest) \/ (\E t \in Tasks : Awaited(s, task[t].ops)) \/ s \in inherited
BY DEF NoOrphans, Claimed, Awaited

(* NoOrphans of the next state. *)
LEMMA OrphanNext ==
    ASSUME \A s \in Slots : files'[s] # None =>
             \/ Claimed(s, object', dest') \/ (\E t \in Tasks : Awaited(s, task'[t].ops))
             \/ s \in inherited'
    PROVE  NoOrphans'
BY DEF NoOrphans, Claimed, Awaited, Slot, FileName


(* The entry of an object is that object's. *)
LEMMA EntryOwner ==
    ASSUME TypeOK, ScopeInv, NEW r \in Res, object[MapKey(r)] # None
    PROVE  object[MapKey(r)] \in Cached /\ object[MapKey(r)].res = r
<1>1. MapKey(r) \in MapKeys
  BY MapKeyType
<1>2. object[MapKey(r)] \in Cached /\ MapKey(object[MapKey(r)].res) = MapKey(r)
  BY <1>1 DEF TypeOK, ScopeInv, ObjectKeyed
<1> QED
  BY <1>2, WellFormedAssumption DEF Cached

(* What update_file leaves behind, if the volume does not fail. *)
LEMMA TouchEffect ==
    ASSUME TypeOK, NEW t \in Tasks, NEW op \in task[t].ops, Touches(t, op), "fs" \notin FaultKinds
    PROVE  LET slot == Slot(op.path, op.res, op.key)
           IN  /\ slot \in Slots /\ op \in Op
               /\ \A s \in Slots : s # slot => files'[s] = files[s]
               /\ op.put = None => files'[slot] = None
               /\ op.put # None => \/ files'[slot] = Expected(op.key, op.put)
                                   \/ files'[slot] = Empty /\ "fetch" \in FaultKinds
               /\ inherited' = inherited \ {slot}
               /\ OpsChange(t, task[t].ops \ {op})
               /\ UNCHANGED <<object, dest, taken, cluster>>
<1> DEFINE slot == Slot(op.path, op.res, op.key)
<1>1. task[t] \in Task /\ op \in Op
  BY DEF TypeOK, Task
<1>2. slot \in Slots
  BY <1>1 DEF Op, Slots
<1>3. PICK data, fails : /\ Perform(t, op, data, fails) /\ fails = FALSE
                         /\ data = Expected(op.key, op.put) \/ (data = Empty /\ "fetch" \in FaultKinds)
  BY DEF Touches
<1>4. PICK out \in IF op.put = None THEN F!RemoveFile(files[slot], fails)
                   ELSE F!WriteDataToFile(files[slot], data, fails) :
         /\ files' = [files EXCEPT ![slot] = out.now]
         /\ inherited' = inherited \ {slot}
         /\ task' = [task EXCEPT ![t].pc = "file",
                                 ![t].ops = @ \ {op},
                                 ![t].changed = @ \/ out.changed]
  BY <1>3 DEF Perform
<1>5. files'[slot] = out.now /\ \A s \in Slots : s # slot => files'[s] = files[s]
  BY <1>2, <1>4 DEF TypeOK
<1>6. op.put = None => out.now = None
  BY <1>3, <1>4 DEF F!RemoveFile, F!Outcome
<1>7. op.put # None => out.now = data
  BY <1>3, <1>4 DEF F!WriteDataToFile, F!Outcome
<1>8. \A u \in Tasks : task'[u].ops = IF u = t THEN task[t].ops \ {op} ELSE task[u].ops
  BY <1>1, <1>4 DEF TypeOK, Task
<1> QED
  BY <1>1, <1>2, <1>3, <1>4, <1>5, <1>6, <1>7, <1>8 DEF OpsChange, Touches

(* The leftovers of the old contents. *)
LEMMA LeftoverOf ==
    ASSUME NEW old, NEW new, NEW from, NEW to, NEW k \in Keys, old.sec[k] # None,
           from # to \/ new.sec[k] # old.sec[k]
    PROVE  \E op \in Leftovers(old, new, from, to) :
             op.path = from /\ op.res = old.res /\ op.key = k
<1> DEFINE op == [phase |-> IF old.sec[k] = "text" THEN 2 ELSE 4,
                  res |-> old.res, key |-> k, path |-> from, put |-> None]
<1>1. op.path = from /\ op.res = old.res /\ op.key = k
  OBVIOUS
<1>2. k \in IF from = to THEN minus_common(old.sec, new.sec) ELSE {j \in Keys : old.sec[j] # None}
  BY DEF minus_common
<1>3. op \in Leftovers(old, new, from, to)
  BY <1>2 DEF Leftovers
<1> QED
  BY <1>1, <1>3

(* An object that is taken up: what was remembered of it is still, or is due.  *)
LEMMA OrphanTakes ==
    ASSUME TypeOK, ScopeInv, FolderInv, NoOrphans, NEW t \in Tasks, NEW it \in Item, Takes(t, it)
    PROVE  NoOrphans'
<1> DEFINE m == MapKey(it.res)
           to == get_destination_folder(it.ann)
           new == CachedItem(it)
           old == IF object[m] # None THEN object[m] ELSE new
           from == OldDest(m, to)
           ops == Writes(it, to) \union Leftovers(old, new, from, to)
<1>1. /\ task[t].ops = {}
      /\ object' = [object EXCEPT ![m] = new] /\ dest' = [dest EXCEPT ![m] = to]
      /\ OpsChange(t, ops) /\ UNCHANGED volume
  BY DEF Takes
<1>2. m \in MapKeys /\ it.res \in Res /\ new # None /\ new.res = it.res /\ new.sec = SectionsOf(it)
  BY MapKeyType, CachedType, NoneAssumption DEF Item, CachedItem
<1>3. object[m] # None => old = object[m] /\ old.res = it.res /\ from = dest[m]
  BY <1>2, EntryOwner DEF FolderInv, HomeKnown, OldDest
<1>4. /\ object'[m] = new /\ dest'[m] = to
      /\ \A n \in MapKeys : n # m => object'[n] = object[n] /\ dest'[n] = dest[n]
  BY <1>1, <1>2 DEF TypeOK
<1> HIDE DEF m, to, new, old, from
<1>5. task'[t].ops = ops /\ \A u \in Tasks : u # t => task'[u].ops = task[u].ops
  BY <1>1 DEF OpsChange
<1>6. ASSUME NEW s \in Slots, Claimed(s, object, dest)
      PROVE  Claimed(s, object', dest') \/ Awaited(s, ops)
  <2>1. PICK n \in MapKeys, k \in Keys : /\ object[n] # None /\ object[n].sec[k] # None
                                         /\ Slot(dest[n], object[n].res, k) = s
    BY <1>6 DEF Claimed
  <2>2. CASE n # m
    BY <1>4, <2>1, <2>2 DEF Claimed
  <2>3. CASE n = m
    <3>1. /\ object[m] # None /\ old.sec[k] # None /\ Slot(from, old.res, k) = s
          /\ old.res = it.res
      BY <1>3, <2>1, <2>3
    <3>2. CASE from = to /\ new.sec[k] = old.sec[k]
      <4>1. Slot(dest'[m], object'[m].res, k) = s /\ object'[m] # None /\ object'[m].sec[k] # None
        BY <1>2, <1>4, <3>1, <3>2
      <4> QED
        BY <1>2, <4>1 DEF Claimed
    <3>3. CASE from # to \/ new.sec[k] # old.sec[k]
      <4>1. PICK op \in Leftovers(old, new, from, to) :
              op.path = from /\ op.res = old.res /\ op.key = k
        BY <3>1, <3>3, LeftoverOf
      <4>2. op \in ops /\ Slot(op.path, op.res, op.key) = s
        BY <3>1, <4>1
      <4> QED
        BY <4>2 DEF Awaited
    <3> QED
      BY <3>2, <3>3
  <2> QED
    BY <2>2, <2>3
<1> HIDE DEF ops
<1>7. \A s \in Slots : files'[s] # None =>
         \/ Claimed(s, object', dest') \/ (\E u \in Tasks : Awaited(s, task'[u].ops)) \/ s \in inherited'
  <2> SUFFICES ASSUME NEW s \in Slots, files'[s] # None, s \notin inherited'
               PROVE  Claimed(s, object', dest') \/ \E u \in Tasks : Awaited(s, task'[u].ops)
    OBVIOUS
  <2>1. Claimed(s, object, dest) \/ \E u \in Tasks : Awaited(s, task[u].ops)
    BY <1>1, OrphanParts DEF volume
  <2>2. ~Awaited(s, task[t].ops)
    BY <1>1 DEF Awaited
  <2> QED
    BY <1>5, <1>6, <2>1, <2>2
<1> QED
  BY <1>7, OrphanNext

(* An object that is dropped: its files are due. *)
LEMMA OrphanDrops ==
    ASSUME TypeOK, NoOrphans, NEW t \in Tasks, NEW c \in Cached, Drops(t, c)
    PROVE  NoOrphans'
<1> DEFINE m == MapKey(c.res)
           ops == Removals(c, dest[m])
<1>1. /\ task[t].ops = {} /\ object[m] = c
      /\ object' = [object EXCEPT ![m] = None]
      /\ OpsChange(t, ops) /\ UNCHANGED <<volume, dest>>
  BY DEF Drops
<1>2. m \in MapKeys
  BY MapKeyType DEF Cached
<1>3. \A n \in MapKeys : n # m => object'[n] = object[n]
  BY <1>1, <1>2 DEF TypeOK
<1> HIDE DEF m
<1>4. task'[t].ops = ops /\ \A u \in Tasks : u # t => task'[u].ops = task[u].ops
  BY <1>1 DEF OpsChange
<1>5. ASSUME NEW s \in Slots, Claimed(s, object, dest)
      PROVE  Claimed(s, object', dest') \/ Awaited(s, ops)
  <2>1. PICK n \in MapKeys, k \in Keys : /\ object[n] # None /\ object[n].sec[k] # None
                                         /\ Slot(dest[n], object[n].res, k) = s
    BY <1>5 DEF Claimed
  <2>2. CASE n # m
    BY <1>1, <1>3, <2>1, <2>2 DEF Claimed
  <2>3. CASE n = m
    <3> DEFINE op == [phase |-> IF c.sec[k] = "text" THEN 1 ELSE 3,
                      res |-> c.res, key |-> k, path |-> dest[m], put |-> None]
    <3>1. op \in ops
      BY <1>1, <2>1, <2>3 DEF Removals
    <3>2. Slot(op.path, op.res, op.key) = s
      BY <1>1, <2>1, <2>3
    <3> QED
      BY <3>1, <3>2 DEF Awaited
  <2> QED
    BY <2>2, <2>3
<1> HIDE DEF ops
<1>6. \A s \in Slots : files'[s] # None =>
         \/ Claimed(s, object', dest') \/ (\E u \in Tasks : Awaited(s, task'[u].ops)) \/ s \in inherited'
  <2> SUFFICES ASSUME NEW s \in Slots, files'[s] # None, s \notin inherited'
               PROVE  Claimed(s, object', dest') \/ \E u \in Tasks : Awaited(s, task'[u].ops)
    OBVIOUS
  <2>1. Claimed(s, object, dest) \/ \E u \in Tasks : Awaited(s, task[u].ops)
    BY <1>1, OrphanParts DEF volume
  <2>2. ~Awaited(s, task[t].ops)
    BY <1>1 DEF Awaited
  <2> QED
    BY <1>4, <1>5, <2>1, <2>2
<1> QED
  BY <1>6, OrphanNext

(* A file that is written is one of a remembered object. *)
LEMMA OrphanTouches ==
    ASSUME TypeOK, ScopeInv, PendingInv, NoOrphans, "fs" \notin FaultKinds,
           NEW t \in Tasks, NEW op \in task[t].ops, Touches(t, op)
    PROVE  NoOrphans'
<1> DEFINE slot == Slot(op.path, op.res, op.key)
<1>1. /\ slot \in Slots /\ op \in Op
      /\ \A s \in Slots : s # slot => files'[s] = files[s]
      /\ op.put = None => files'[slot] = None
      /\ inherited' = inherited \ {slot}
      /\ OpsChange(t, task[t].ops \ {op})
      /\ UNCHANGED <<object, dest>>
  BY TouchEffect
<1>2. op.put # None => Claimed(slot, object, dest)
  <2> SUFFICES ASSUME op.put # None PROVE Claimed(slot, object, dest)
    OBVIOUS
  <2>1. op.res \in Res /\ op.key \in Keys /\ MapKey(op.res) \in MapKeys
    BY <1>1, MapKeyType DEF Op
  <2>2. /\ object[MapKey(op.res)] # None /\ object[MapKey(op.res)].sec[op.key] # None
        /\ dest[MapKey(op.res)] = op.path
    BY DEF PendingInv
  <2>3. object[MapKey(op.res)].res = op.res
    BY <2>1, <2>2, EntryOwner
  <2> QED
    BY <2>1, <2>2, <2>3 DEF Claimed
<1>3. \A u \in Tasks : task'[u].ops = IF u = t THEN task[t].ops \ {op} ELSE task[u].ops
  BY <1>1 DEF OpsChange
<1>4. \A s \in Slots : files'[s] # None =>
         \/ Claimed(s, object', dest') \/ (\E u \in Tasks : Awaited(s, task'[u].ops)) \/ s \in inherited'
  <2> SUFFICES ASSUME NEW s \in Slots, files'[s] # None, s \notin inherited'
               PROVE  Claimed(s, object', dest') \/ \E u \in Tasks : Awaited(s, task'[u].ops)
    OBVIOUS
  <2>1. CASE s = slot
    BY <1>1, <1>2, <2>1
  <2>2. CASE s # slot
    <3>1. Claimed(s, object, dest) \/ \E u \in Tasks : Awaited(s, task[u].ops)
      BY <1>1, <2>2, OrphanParts
    <3>2. \A u \in Tasks : Awaited(s, task[u].ops) => Awaited(s, task'[u].ops)
      BY <1>3, <2>2 DEF Awaited
    <3> QED
      BY <1>1, <3>1, <3>2
  <2> QED
    BY <2>1, <2>2
<1> QED
  BY <1>4, OrphanNext

(* No step loses track of a file. *)
LEMMA OrphanStep ==
    ASSUME TypeOK, ScopeInv, FolderInv, LocalInv, OrderInv, CacheInv, NoOrphans, [Next]_vars,
           "fs" \notin FaultKinds
    PROVE  NoOrphans'
<1>1. CASE Passive
  <2>1. \A s \in Slots : files'[s] # None =>
           \/ Claimed(s, object', dest') \/ (\E t \in Tasks : Awaited(s, task'[t].ops)) \/ s \in inherited'
    BY <1>1, OrphanParts DEF Passive, volume
  <2> QED
    BY <2>1, OrphanNext
<1>2. CASE Ends
  <2>1. \A s \in Slots : files'[s] # None => s \in inherited'
    BY <1>2 DEF Ends, Exit
  <2> QED
    BY <2>1, OrphanNext
<1>3. PendingInv
  BY DEF CacheInv
<1> QED
  BY <1>1, <1>2, <1>3, StepKinds, OrphanTakes, OrphanDrops, OrphanTouches

(* Every file on the volume is accounted for, unless the file operations       *)
(* themselves fail: it is remembered, or about to be dealt with, or left by an *)
(* earlier process (resources.rs:267-410).                                     *)
THEOREM NoOrphansCorrect == ASSUME "fs" \notin FaultKinds PROVE Spec => []NoOrphans
<1>1. Init => NoOrphans
  BY DEF Init, NoOrphans
<1>2. TypeOK /\ ScopeInv /\ FolderInv /\ LocalInv /\ OrderInv /\ CacheInv /\ NoOrphans /\ [Next]_vars
        => NoOrphans'
  BY OrphanStep
<1> QED
  BY <1>1, <1>2, TypeCorrect, ScopeCorrect, FolderCorrect, LocalCorrect, OrderCorrect, CacheCorrect,
     PTL DEF Spec

-----------------------------------------------------------------------------
(* What is announced is what was announced before or is there now *)

InHand(local) == local.pages \union local.items
InStore(s) == s.backlog \union {s.queue[i].item : i \in {j \in DOMAIN s.queue : ~s.queue[j].gone}}
Present(cl) == {cl[r] : r \in {q \in Res : cl[q] # None}}
NothingOld == \A u \in Tasks : \A it : it \in Announced(u)' => it \in Announced(u) \union Present(cluster')

(* What is announced to a task is in its hands or in its stream.               *)
LEMMA AnnouncedParts ==
    /\ \A u \in Tasks : \A it : it \in Announced(u) <=> it \in InHand(task[u]) \union InStore(stream[u])
    /\ \A u \in Tasks : \A it : it \in Announced(u)' <=> it \in InHand(task'[u]) \union InStore(stream'[u])
BY DEF Announced, Listed, InHand, InStore

(* A step of one task and its stream. *)
LEMMA StepTold ==
    ASSUME TypeOK, NEW t \in Tasks, NEW local, NEW s,
           task' = [task EXCEPT ![t] = local], stream' = [stream EXCEPT ![t] = s],
           InHand(local) \subseteq InHand(task[t]) \union Present(cluster'),
           InStore(s) \subseteq InStore(stream[t]) \union Present(cluster')
    PROVE  NothingOld
<1>1. \A u \in Tasks : /\ task'[u] = IF u = t THEN local ELSE task[u]
                       /\ stream'[u] = IF u = t THEN s ELSE stream[u]
  BY DEF TypeOK
<1> QED
  BY <1>1, AnnouncedParts DEF NothingOld

(* A step of one task that leaves its stream alone. *)
LEMMA LocalTold ==
    ASSUME TypeOK, NEW t \in Tasks, NEW local, task' = [task EXCEPT ![t] = local], UNCHANGED stream,
           InHand(local) \subseteq InHand(task[t]) \union Present(cluster')
    PROVE  NothingOld
<1>1. stream' = [stream EXCEPT ![t] = stream[t]]
  BY DEF TypeOK
<1> QED
  BY <1>1, StepTold

(* A step that leaves tasks and streams alone. *)
LEMMA StillTold == UNCHANGED <<task, stream>> => NothingOld
BY AnnouncedParts DEF NothingOld

(* A task at rest. *)
LEMMA RestingTold ==
    ASSUME NEW t \in Tasks, NEW local
    PROVE  InHand(Fresh) = {} /\ InHand(Resting(t, local)) = {} /\ InHand(Notify(t, local)) = {}
<1>1. Fresh.pages = {} /\ Fresh.items = {}
  BY DEF Fresh
<1>2. Resting(t, local).pages = {} /\ Resting(t, local).items = {}
  BY DEF Fresh, Resting
<1>3. Notify(t, local).pages = {} /\ Notify(t, local).items = {}
  BY <1>2 DEF Fresh, Notify
<1> QED
  BY <1>1, <1>2, <1>3 DEF InHand

(* The process ends. *)
LEMMA ExitTold == Ends => NothingOld
<1> SUFFICES ASSUME Ends PROVE NothingOld
  OBVIOUS
<1>1. \A u \in Tasks : task'[u] = Fresh /\ stream'[u] = NoStream
  BY DEF Ends, Exit
<1>2. InHand(Fresh) = {} /\ InStore(NoStream) = {}
  BY DEF Fresh, NoStream, InHand, InStore
<1> QED
  BY <1>1, <1>2, AnnouncedParts DEF NothingOld

(* The calls a listing makes, and the choice of what is stale. *)
LEMMA ListTold ==
    ASSUME TypeOK, NEW t \in Tasks,
           BeginList(t) \/ ReadNamed(t) \/ ListPage(t) \/ BeginStale(t) \/ EndList(t)
    PROVE  NothingOld
<1>1. task[t] \in Task /\ UNCHANGED <<stream, cluster>>
  BY DEF TypeOK, BeginList, ReadNamed, ListPage, BeginStale, EndList
<1>2. Selected(t) \subseteq Present(cluster') /\ \A n : Named(t, n) \subseteq Present(cluster')
  BY <1>1 DEF Selected, Named, Present
<1>3. CASE BeginList(t)
  <2>1. PICK local \in {[Fresh EXCEPT !.pc = "names", !.names = Chosen(t)],
                        [Fresh EXCEPT !.pc = "page", !.pages = Selected(t)]} :
          task' = [task EXCEPT ![t] = local]
    BY <1>3 DEF BeginList
  <2>2. local.pages \subseteq Selected(t) /\ local.items = {}
    BY <2>1 DEF Fresh
  <2>3. InHand(local) \subseteq InHand(task[t]) \union Present(cluster')
    BY <1>2, <2>2 DEF InHand
  <2> QED
    BY <1>1, <2>1, <2>3, LocalTold
<1>4. CASE ReadNamed(t)
  <2>1. PICK n \in task[t].names :
          task' = [task EXCEPT ![t] = Gathered([task[t] EXCEPT !.names = @ \ {n}],
                                               task[t].items \union Named(t, n))]
    BY <1>4 DEF ReadNamed
  <2> DEFINE next == Gathered([task[t] EXCEPT !.names = @ \ {n}], task[t].items \union Named(t, n))
  <2>2. next.pages = task[t].pages /\ next.items = task[t].items \union Named(t, n)
    BY <1>1 DEF Gathered, Task
  <2>3. task' = [task EXCEPT ![t] = next]
    BY <2>1
  <2> HIDE DEF next
  <2>4. InHand(next) \subseteq InHand(task[t]) \union Present(cluster')
    BY <1>2, <2>2 DEF InHand
  <2> QED
    BY <1>1, <2>3, <2>4, LocalTold
<1>5. CASE ListPage(t)
  <2>1. PICK page \in SUBSET task[t].pages :
          task' = [task EXCEPT ![t] = Gathered([task[t] EXCEPT !.pages = @ \ page],
                                               task[t].items \union page)]
    BY <1>5 DEF ListPage
  <2> DEFINE next == Gathered([task[t] EXCEPT !.pages = @ \ page], task[t].items \union page)
  <2>2. next.pages = task[t].pages \ page /\ next.items = task[t].items \union page
    BY <1>1 DEF Gathered, Task
  <2>3. task' = [task EXCEPT ![t] = next]
    BY <2>1
  <2> HIDE DEF next
  <2>4. InHand(next) \subseteq InHand(task[t]) \union Present(cluster')
    BY <2>1, <2>2 DEF InHand
  <2> QED
    BY <1>1, <2>3, <2>4, LocalTold
<1>6. CASE BeginStale(t)
  <2> DEFINE next == [task[t] EXCEPT !.pc = "stale", !.via = "stale", !.stale = Stale(t), !.exist = {}]
  <2>1. task' = [task EXCEPT ![t] = next]
    BY <1>6 DEF BeginStale, TypeOK
  <2>2. next.pages = task[t].pages /\ next.items = task[t].items
    BY <1>1 DEF Task
  <2> HIDE DEF next
  <2> QED
    BY <1>1, <2>1, <2>2, LocalTold DEF InHand
<1>7. CASE EndList(t)
  BY <1>1, <1>7, RestingTold, LocalTold DEF EndList
<1> QED
  BY <1>3, <1>4, <1>5, <1>6, <1>7

(* process_resource has nothing new at hand. *)
LEMMA ProcessTold ==
    ASSUME TypeOK, NEW t \in Tasks, NEW local \in Task, NEW item, NEW to, NEW s,
           Store(t, local, item, to) \/ Forget(t, local, item, to),
           InHand(local) \subseteq InHand(task[t]) \union Present(cluster'),
           stream' = [stream EXCEPT ![t] = s],
           InStore(s) \subseteq InStore(stream[t]) \union Present(cluster')
    PROVE  NothingOld
<1>1. PICK ops : task' = [task EXCEPT ![t] = [local EXCEPT !.pc = "file", !.ops = ops]]
  BY DEF Store, Forget
<1> DEFINE next == [local EXCEPT !.pc = "file", !.ops = ops]
<1>2. next.pages = local.pages /\ next.items = local.items
  BY DEF Task
<1>3. task' = [task EXCEPT ![t] = next]
  BY <1>1
<1> HIDE DEF next
<1>4. InHand(next) = InHand(local)
  BY <1>2 DEF InHand
<1> QED
  BY <1>3, <1>4, StepTold

(* The objects of a listing and of its sweep. *)
LEMMA ItemTold ==
    ASSUME TypeOK, NEW t \in Tasks, ListItem(t) \/ RemoveStale(t)
    PROVE  NothingOld
<1>1. task[t] \in Task /\ stream' = [stream EXCEPT ![t] = stream[t]] /\ UNCHANGED stream
  BY DEF TypeOK, ListItem, RemoveStale
<1>2. CASE ListItem(t)
  <2>1. PICK it \in task[t].items :
          LET rest == [task[t] EXCEPT !.items = @ \ {it}, !.via = "list"]
          IN  \/ task' = [task EXCEPT ![t] = rest]
              \/ Store(t, rest, it, get_destination_folder(it.ann))
    BY <1>2 DEF ListItem
  <2> DEFINE rest == [task[t] EXCEPT !.items = @ \ {it}, !.via = "list"]
  <2>2. rest \in Task /\ rest.pages = task[t].pages /\ rest.items = task[t].items \ {it}
    BY <1>1 DEF Task
  <2>3. \/ task' = [task EXCEPT ![t] = rest]
        \/ Store(t, rest, it, get_destination_folder(it.ann))
    BY <2>1
  <2> HIDE DEF rest
  <2>4. InHand(rest) \subseteq InHand(task[t]) \union Present(cluster')
    BY <2>2 DEF InHand
  <2> QED
    BY <1>1, <2>2, <2>3, <2>4, LocalTold, ProcessTold
<1>3. CASE RemoveStale(t)
  <2>1. PICK c \in task[t].stale : Forget(t, [task[t] EXCEPT !.stale = @ \ {c}], c, NoPath)
    BY <1>3 DEF RemoveStale
  <2> DEFINE rest == [task[t] EXCEPT !.stale = @ \ {c}]
  <2>2. rest \in Task /\ rest.pages = task[t].pages /\ rest.items = task[t].items
    BY <1>1 DEF Task
  <2>3. Forget(t, rest, c, NoPath)
    BY <2>1
  <2> HIDE DEF rest
  <2>4. InHand(rest) \subseteq InHand(task[t]) \union Present(cluster')
    BY <2>2 DEF InHand
  <2> QED
    BY <1>1, <2>2, <2>3, <2>4, ProcessTold
<1> QED
  BY <1>2, <1>3

(* The file operations. *)
LEMMA FileTold ==
    ASSUME TypeOK, NEW t \in Tasks,
           UpdateFile(t) \/ FetchUrl(t) \/ UpdateFetched(t) \/ FinishItem(t)
    PROVE  NothingOld
<1>1. task[t] \in Task /\ UNCHANGED stream
  BY DEF TypeOK, UpdateFile, FetchUrl, UpdateFetched, FinishItem
<1>2. CASE UpdateFile(t) \/ UpdateFetched(t)
  <2>1. PICK op, changed :
          task' = [task EXCEPT ![t].pc = "file", ![t].ops = @ \ {op}, ![t].changed = changed]
    BY <1>2 DEF UpdateFile, UpdateFetched, Perform
  <2> DEFINE next == [task[t] EXCEPT !.pc = "file", !.ops = @ \ {op}, !.changed = changed]
  <2>2. task' = [task EXCEPT ![t] = next]
    BY <2>1 DEF TypeOK
  <2>3. next.pages = task[t].pages /\ next.items = task[t].items
    BY <1>1 DEF Task
  <2> HIDE DEF next
  <2> QED
    BY <1>1, <2>2, <2>3, LocalTold DEF InHand
<1>3. CASE FetchUrl(t)
  <2> DEFINE next == [task[t] EXCEPT !.pc = "fetch"]
  <2>1. task' = [task EXCEPT ![t] = next] /\ next.pages = task[t].pages /\ next.items = task[t].items
    BY <1>1, <1>3 DEF FetchUrl, TypeOK, Task
  <2> HIDE DEF next
  <2> QED
    BY <1>1, <2>1, LocalTold DEF InHand
<1>4. CASE FinishItem(t)
  <2>1. task[t].via \in {"list", "stale", "event"}
    BY <1>1 DEF Task
  <2>2. \/ \E pc \in {"items", "stale"} : task' = [task EXCEPT ![t] = [task[t] EXCEPT !.pc = pc]]
        \/ task' = [task EXCEPT ![t] = Notify(t, task[t])]
    BY <1>4, <2>1 DEF FinishItem
  <2>3. \A pc \in {"items", "stale"} : InHand([task[t] EXCEPT !.pc = pc]) = InHand(task[t])
    BY <1>1 DEF Task, InHand
  <2> QED
    BY <1>1, <2>2, <2>3, RestingTold, LocalTold
<1> QED
  BY <1>2, <1>3, <1>4


(* The hooks, the failures and the watch loop but for its events. *)
LEMMA HookTold ==
    ASSUME TypeOK, NEW t \in Tasks,
           \/ RunScript(t) \/ SendRequest(t) \/ Wake(t) \/ ScriptFails(t) \/ ApiFails(t)
           \/ Connect(t) \/ StreamEnds(t) \/ Close(t)
    PROVE  NothingOld
<1>1. task[t] \in Task /\ stream[t] \in Stream
  BY DEF TypeOK, Stream
<1>2. \A pc : InHand([task[t] EXCEPT !.pc = pc]) = InHand(task[t])
             /\ InHand([Fresh EXCEPT !.pc = pc]) = {}
  BY <1>1 DEF Task, Fresh, InHand
<1>3. CASE RunScript(t) \/ SendRequest(t)
  <2>1. /\ UNCHANGED stream
        /\ \/ task' = [task EXCEPT ![t] = [task[t] EXCEPT !.pc = "request"]]
           \/ task' = [task EXCEPT ![t] = Resting(t, task[t])]
    BY <1>3 DEF RunScript, SendRequest
  <2> QED
    BY <1>2, <2>1, RestingTold, LocalTold
<1>4. CASE Wake(t) \/ StreamEnds(t)
  <2>1. UNCHANGED stream /\ \E pc : task' = [task EXCEPT ![t] = [task[t] EXCEPT !.pc = pc]]
    BY <1>4 DEF Wake, StreamEnds, TypeOK
  <2> QED
    BY <1>2, <2>1, LocalTold
<1>5. CASE Connect(t)
  <2>1. /\ task' = [task EXCEPT ![t] = [task[t] EXCEPT !.pc = "watch"]]
        /\ stream' = [stream EXCEPT ![t] = OpenStream(t)] /\ UNCHANGED cluster
    BY <1>5 DEF Connect, TypeOK
  <2>2. InStore(OpenStream(t)) \subseteq Present(cluster')
    BY <2>1 DEF OpenStream, InStore, Selected, Present
  <2> QED
    BY <1>2, <2>1, <2>2, StepTold
<1>6. CASE Close(t)
  <2> DEFINE s == [stream[t] EXCEPT !.live = FALSE]
  <2>1. stream' = [stream EXCEPT ![t] = s] /\ task' = [task EXCEPT ![t] = task[t]]
    BY <1>6 DEF Close, ServerClose, TypeOK
  <2>2. s.backlog = stream[t].backlog /\ s.queue = stream[t].queue
    BY <1>1 DEF Stream
  <2>3. InStore(s) = InStore(stream[t])
    BY <2>2 DEF InStore
  <2> HIDE DEF s
  <2> QED
    BY <2>1, <2>3, StepTold
<1>7. CASE ScriptFails(t) \/ ApiFails(t)
  <2>1. PICK pc : Throw(t, pc)
    BY <1>7 DEF ScriptFails, ApiFails
  <2>2. CASE proc = "boot"
    BY <2>1, <2>2, ExitTold DEF Throw, Ends
  <2>3. CASE proc # "boot"
    <3>1. /\ task' = [task EXCEPT ![t] = [Fresh EXCEPT !.pc = pc]]
          /\ stream' = [stream EXCEPT ![t] = NoStream]
      BY <2>1, <2>3 DEF Throw
    <3>2. InStore(NoStream) = {}
      BY DEF NoStream, InStore
    <3> QED
      BY <1>2, <3>1, <3>2, StepTold
  <2> QED
    BY <2>2, <2>3
<1> QED
  BY <1>3, <1>4, <1>5, <1>6, <1>7

(* The processing of an event. *)
LEMMA EventTold ==
    ASSUME TypeOK, NEW t \in Tasks, HandleEvent(t)
    PROVE  NothingOld
<1>1. PICK d \in Delivery(t) :
         LET local == [Fresh EXCEPT !.via = "event"]
             to == get_destination_folder(d[1].item.ann)
         IN  /\ stream' = [stream EXCEPT ![t] = d[2]]
             /\ \/ UNCHANGED task
                \/ Forget(t, local, CachedItem(d[1].item), to)
                \/ Store(t, local, d[1].item, to)
  BY DEF HandleEvent
<1> DEFINE local == [Fresh EXCEPT !.via = "event"]
           to == get_destination_folder(d[1].item.ann)
           s == stream[t]
<1>2. local \in Task /\ InHand(local) = {}
  BY FreshType DEF Task, Fresh, InHand
<1>3. InStore(d[2]) \subseteq InStore(s)
  <2>1. s \in Stream /\ d[2] \in Stream
    BY DeliveryType DEF TypeOK, Stream
  <2>2. CASE /\ d[2].backlog = s.backlog \ {d[1].item} /\ d[2].queue = s.queue
    BY <2>2 DEF InStore
  <2>3. CASE /\ s.queue # <<>> /\ d[2].backlog = {} /\ d[2].queue = Tail(s.queue)
    <3>1. /\ s.queue \in Seq(Event) /\ DOMAIN s.queue = 1..Len(s.queue)
          /\ DOMAIN d[2].queue = 1..Len(d[2].queue)
      BY <2>1, StreamItems
    <3>2. \A i \in DOMAIN d[2].queue : i + 1 \in DOMAIN s.queue /\ d[2].queue[i] = s.queue[i + 1]
      BY <2>3, <3>1
    <3> QED
      BY <2>3, <3>2 DEF InStore
  <2> QED
    BY <2>2, <2>3, DeliveryCases
<1>4. \/ UNCHANGED task
      \/ Forget(t, local, CachedItem(d[1].item), to)
      \/ Store(t, local, d[1].item, to)
  BY <1>1
<1>5. CASE UNCHANGED task
  <2>1. task' = [task EXCEPT ![t] = task[t]]
    BY <1>5 DEF TypeOK
  <2> QED
    BY <1>1, <1>3, <2>1, StepTold
<1> HIDE DEF local, to
<1>6. CASE Forget(t, local, CachedItem(d[1].item), to) \/ Store(t, local, d[1].item, to)
  BY <1>1, <1>2, <1>3, <1>6, ProcessTold
<1> QED
  BY <1>4, <1>5, <1>6

(* What a user's step adds to the streams is the object as it now is. *)
LEMMA UserAdds ==
    ASSUME TypeOK, ScopeInv, User
    PROVE  NothingOld
<1>1. PICK r \in Res, new \in Item \union {None} :
         /\ cluster' = [cluster EXCEPT ![r] = new] /\ rev + 1 \in 0..MaxRev
         /\ new # None => new.res = r /\ new.rv = rev + 1
         /\ \/ UNCHANGED stream /\ ~(new # None /\ new.lab)
            \/ /\ new # None /\ new.lab
               /\ Broadcast(r, [gone |-> FALSE, item |-> new])
            \/ /\ ~(new # None /\ new.lab) /\ cluster[r] # None /\ cluster[r].lab
               /\ Broadcast(r, [gone |-> TRUE, item |-> [cluster[r] EXCEPT !.rv = rev + 1]])
  BY UserTold DEF ScopeInv
<1>2. new # None => new \in Present(cluster')
  <2>1. cluster'[r] = new
    BY <1>1 DEF TypeOK
  <2> QED
    BY <2>1 DEF Present
<1>3. ASSUME NEW t \in Tasks, NEW ev, ev.gone \/ ev.item \in Present(cluster'),
             stream'[t] = [stream[t] EXCEPT !.queue = Append(@, ev)]
      PROVE  InStore(stream'[t]) \subseteq InStore(stream[t]) \union Present(cluster')
  <2> DEFINE q == stream[t].queue
             s == stream'[t]
  <2>1. stream[t] \in Stream
    BY DEF TypeOK, Stream
  <2>2. s.backlog = stream[t].backlog /\ s.queue = Append(q, ev) /\ q \in Seq(Event)
    BY <1>3, <2>1, StreamItems DEF Stream
  <2>3. \A i \in DOMAIN s.queue : \/ i \in DOMAIN q /\ s.queue[i] = q[i]
                                  \/ s.queue[i] = ev
    BY <2>2
  <2> HIDE DEF s
  <2>4. InStore(s) \subseteq InStore(stream[t]) \union Present(cluster')
    BY <1>3, <2>2, <2>3 DEF InStore
  <2> QED
    BY <2>4 DEF s
<1>4. ASSUME NEW ev, ev.gone \/ ev.item \in Present(cluster'), Broadcast(r, ev), NEW t \in Tasks
      PROVE  InStore(stream'[t]) \subseteq InStore(stream[t]) \union Present(cluster')
  <2>1. stream'[t] = IF stream[t].live /\ Serves(t, r)
                     THEN [stream[t] EXCEPT !.queue = Append(@, ev)] ELSE stream[t]
    BY <1>4 DEF Broadcast
  <2> QED
    BY <1>3, <1>4, <2>1
<1>5. ASSUME NEW t \in Tasks
      PROVE  InStore(stream'[t]) \subseteq InStore(stream[t]) \union Present(cluster')
  <2>1. CASE UNCHANGED stream
    BY <2>1
  <2>2. CASE new # None /\ Broadcast(r, [gone |-> FALSE, item |-> new])
    BY <1>2, <1>4, <2>2
  <2>3. CASE Broadcast(r, [gone |-> TRUE, item |-> [cluster[r] EXCEPT !.rv = rev + 1]])
    BY <1>4, <2>3
  <2> QED
    BY <1>1, <2>1, <2>2, <2>3
<1>6. UNCHANGED task
  BY DEF User
<1> QED
  BY <1>5, <1>6, AnnouncedParts DEF NothingOld

(* The steps of main. *)
LEMMA MainTold ==
    ASSUME EndBoot \/ Monitor \/ Crash \/ Restart
    PROVE  NothingOld
<1>1. CASE EndBoot /\ Mode # "LIST"
  <2>1. \A t \in Tasks : task'[t] = [Fresh EXCEPT !.pc = "loop"] /\ stream'[t] = stream[t]
    BY <1>1 DEF EndBoot
  <2>2. InHand([Fresh EXCEPT !.pc = "loop"]) = {}
    BY DEF Fresh, InHand
  <2> QED
    BY <2>1, <2>2, AnnouncedParts DEF NothingOld
<1>2. CASE Restart
  BY <1>2, StillTold DEF Restart
<1>3. CASE (EndBoot /\ Mode = "LIST") \/ Monitor \/ Crash
  BY <1>3, ExitTold DEF EndBoot, Monitor, Crash, Ends
<1> QED
  BY <1>1, <1>2, <1>3

(* A step announces no version but the current ones and those announced before. *)
LEMMA NothingOldNext == TypeOK /\ ScopeInv /\ [Next]_vars => NothingOld
<1> SUFFICES ASSUME TypeOK, ScopeInv, [Next]_vars PROVE NothingOld
  OBVIOUS
<1>1. CASE UNCHANGED vars
  BY <1>1, StillTold DEF vars
<1>2. ASSUME NEW t \in Tasks, Step(t) PROVE NothingOld
  BY <1>2, ListTold, ItemTold, FileTold, HookTold, EventTold DEF Step
<1>3. ASSUME NEW t \in Tasks, Fails(t) \/ Close(t) PROVE NothingOld
  BY <1>3, HookTold DEF Fails
<1>4. CASE User
  BY <1>4, UserAdds
<1>5. CASE EndBoot \/ Monitor \/ Crash \/ Restart
  BY <1>5, MainTold
<1> QED
  BY <1>1, <1>2, <1>3, <1>4, <1>5 DEF Next

-----------------------------------------------------------------------------
(* The sections of what is announced and remembered *)

(* The cluster holds shapes of its objects. *)
LEMMA ClusterShaped ==
    ASSUME TypeOK, ShapeInv, [Next]_vars
    PROVE  \A r \in Res : cluster'[r] # None => Shaped(r, SectionsOf(cluster'[r]))
<1>1. CASE UNCHANGED cluster
  BY <1>1 DEF ShapeInv
<1>2. CASE User
  <2>1. PICK r \in Res : Apply(r) \/ Delete(r)
    BY <1>2 DEF User
  <2>2. CASE Apply(r)
    <3>1. PICK s \in Shapes[r] : cluster' = [cluster EXCEPT ![r] = MakeItem(r, rev + 1, s)]
      BY <2>2 DEF Apply
    <3>2. SectionsOf(MakeItem(r, rev + 1, s))
            = [k \in Keys |-> IF s.data[k] = None THEN None ELSE s.data[k].sec]
      BY DEF MakeItem, SectionsOf
    <3>3. Shaped(r, SectionsOf(MakeItem(r, rev + 1, s)))
      BY <3>2 DEF Shaped
    <3>4. \A q \in Res : cluster'[q] = IF q = r THEN MakeItem(r, rev + 1, s) ELSE cluster[q]
      BY <3>1 DEF TypeOK
    <3> QED
      BY <3>3, <3>4 DEF ShapeInv
  <2>3. CASE Delete(r)
    <3>1. \A q \in Res : cluster'[q] = IF q = r THEN None ELSE cluster[q]
      BY <2>3 DEF Delete, TypeOK
    <3> QED
      BY <3>1 DEF ShapeInv
  <2> QED
    BY <2>1, <2>2, <2>3
<1> QED
  BY <1>1, <1>2, ClusterKept

(* What is remembered has the sections of something announced. *)
LEMMA ObjectShaped ==
    ASSUME TypeOK, ScopeInv, FolderInv, LocalInv, OrderInv, CacheInv, ShapeInv, [Next]_vars
    PROVE  \A m \in MapKeys : object'[m] # None => Shaped(object'[m].res, object'[m].sec)
<1>1. CASE Passive
  BY <1>1 DEF Passive, ShapeInv
<1>2. CASE Ends
  BY <1>2 DEF Ends, Exit
<1>3. ASSUME NEW t \in Tasks, NEW it \in Item, Takes(t, it)
      PROVE  \A m \in MapKeys : object'[m] # None => Shaped(object'[m].res, object'[m].sec)
  <2>1. /\ object' = [object EXCEPT ![MapKey(it.res)] = CachedItem(it)]
        /\ Shaped(it.res, SectionsOf(it))
    BY <1>3 DEF Takes, ShapeInv
  <2>2. \A m \in MapKeys : object'[m] \in {object[m], CachedItem(it)}
    BY <2>1 DEF TypeOK
  <2>3. CachedItem(it).res = it.res /\ CachedItem(it).sec = SectionsOf(it)
    BY DEF CachedItem
  <2> QED
    BY <2>1, <2>2, <2>3 DEF ShapeInv
<1>4. ASSUME NEW t \in Tasks, NEW c \in Cached, Drops(t, c)
      PROVE  \A m \in MapKeys : object'[m] # None => Shaped(object'[m].res, object'[m].sec)
  <2>1. \A m \in MapKeys : object'[m] \in {object[m], None}
    BY <1>4 DEF Drops, TypeOK
  <2> QED
    BY <2>1 DEF ShapeInv
<1>5. ASSUME NEW t \in Tasks, NEW op \in task[t].ops, Touches(t, op)
      PROVE  \A m \in MapKeys : object'[m] # None => Shaped(object'[m].res, object'[m].sec)
  BY <1>5 DEF Touches, ShapeInv
<1> QED
  BY <1>1, <1>2, <1>3, <1>4, <1>5, StepKinds

(* A key an object has is one it may have. *)
LEMMA ShapedHas ==
    ASSUME NEW r \in Res, NEW sec, Shaped(r, sec), NEW k \in Keys, sec[k] # None
    PROVE  Has(r, k)
<1>1. PICK s \in Shapes[r] : sec = [j \in Keys |-> IF s.data[j] = None THEN None ELSE s.data[j].sec]
  BY DEF Shaped
<1>2. s.data[k] # None
  BY <1>1
<1> QED
  BY <1>2 DEF Has

(* What is to be done is about keys of what is announced or remembered. *)
LEMMA OpsShaped ==
    ASSUME TypeOK, ScopeInv, FolderInv, LocalInv, OrderInv, CacheInv, ShapeInv, [Next]_vars
    PROVE  \A t \in Tasks : \A op \in task'[t].ops : Has(op.res, op.key)
<1>1. CASE Passive
  BY <1>1 DEF Passive, ShapeInv
<1>2. CASE Ends
  BY <1>2 DEF Ends, Exit, Fresh
<1>3. ASSUME NEW t \in Tasks, NEW it \in Item, Takes(t, it)
      PROVE  \A u \in Tasks : \A op \in task'[u].ops : Has(op.res, op.key)
  <2> DEFINE r == it.res
             m == MapKey(r)
             to == get_destination_folder(it.ann)
             new == CachedItem(it)
             old == IF object[m] # None THEN object[m] ELSE new
             from == OldDest(m, to)
  <2>1. /\ it \in Announced(t)
        /\ OpsChange(t, Writes(it, to) \union Leftovers(old, new, from, to))
    BY <1>3 DEF Takes
  <2>2. r \in Res /\ m \in MapKeys /\ new.res = r /\ new.sec = SectionsOf(it)
    BY MapKeyType DEF Item, CachedItem
  <2>3. Shaped(r, SectionsOf(it))
    BY <2>1 DEF ShapeInv
  <2>4. old.res = r /\ Shaped(r, old.sec)
    BY <2>2, <2>3, EntryOwner DEF ShapeInv
  <2> HIDE DEF to, new, old, from
  <2>5. ASSUME NEW op \in Writes(it, to) PROVE Has(op.res, op.key)
    <3>1. PICK k \in Keys : it.data[k] # None /\ op.res = r /\ op.key = k
      BY <2>5 DEF Writes
    <3>2. SectionsOf(it)[k] # None
      BY <3>1, NoneAssumption DEF SectionsOf, Item, Entry
    <3> QED
      BY <2>2, <2>3, <3>1, <3>2, ShapedHas
  <2>6. ASSUME NEW op \in Leftovers(old, new, from, to) PROVE Has(op.res, op.key)
    <3>1. PICK k \in Keys : old.sec[k] # None /\ op.res = old.res /\ op.key = k
      BY <2>6 DEF Leftovers, minus_common
    <3> QED
      BY <2>2, <2>4, <3>1, ShapedHas
  <2> QED
    BY <2>1, <2>5, <2>6 DEF OpsChange, ShapeInv
<1>4. ASSUME NEW t \in Tasks, NEW c \in Cached, Drops(t, c)
      PROVE  \A u \in Tasks : \A op \in task'[u].ops : Has(op.res, op.key)
  <2>1. OpsChange(t, Removals(c, dest[MapKey(c.res)])) /\ object[MapKey(c.res)] = c
    BY <1>4 DEF Drops
  <2>2. c.res \in Res /\ MapKey(c.res) \in MapKeys /\ c # None
    BY MapKeyType, NoneAssumption DEF Cached
  <2>3. Shaped(c.res, c.sec)
    BY <2>1, <2>2 DEF ShapeInv
  <2>4. ASSUME NEW op \in Removals(c, dest[MapKey(c.res)]) PROVE Has(op.res, op.key)
    <3>1. PICK k \in Keys : c.sec[k] # None /\ op.res = c.res /\ op.key = k
      BY <2>4 DEF Removals
    <3> QED
      BY <2>2, <2>3, <3>1, ShapedHas
  <2> QED
    BY <2>1, <2>4 DEF OpsChange, ShapeInv
<1>5. ASSUME NEW t \in Tasks, NEW op \in task[t].ops, Touches(t, op)
      PROVE  \A u \in Tasks : \A o \in task'[u].ops : Has(o.res, o.key)
  <2>1. \E data, fails : Perform(t, op, data, fails)
    BY <1>5 DEF Touches
  <2>2. \A u \in Tasks : task'[u].ops \subseteq task[u].ops
    <3>1. PICK changed :
            task' = [task EXCEPT ![t].pc = "file", ![t].ops = @ \ {op}, ![t].changed = changed]
      BY <2>1 DEF Perform
    <3> QED
      BY <3>1 DEF TypeOK, Task
  <2> QED
    BY <2>2 DEF ShapeInv
<1> QED
  BY <1>1, <1>2, <1>3, <1>4, <1>5, StepKinds

(* ShapeInv is inductive. *)
LEMMA ShapeNext ==
    TypeOK /\ ScopeInv /\ ScopeInv' /\ FolderInv /\ LocalInv /\ OrderInv /\ CacheInv /\ ShapeInv
      /\ [Next]_vars => ShapeInv'
<1> SUFFICES ASSUME TypeOK, ScopeInv, ScopeInv', FolderInv, LocalInv, OrderInv, CacheInv, ShapeInv,
                    [Next]_vars
             PROVE  ShapeInv'
  OBVIOUS
<1>1. \A r \in Res : cluster'[r] # None => Shaped(r, SectionsOf(cluster'[r]))
  BY ClusterShaped
<1>2. \A m \in MapKeys : object'[m] # None => Shaped(object'[m].res, object'[m].sec)
  BY ObjectShaped
<1>3. \A r \in Res : cluster'[r] # None => cluster'[r].res = r
  BY DEF ScopeInv, ClusterNamed
<1>4. ASSUME NEW t \in Tasks, NEW it, it \in Announced(t)'
      PROVE  Shaped(it.res, SectionsOf(it))
  <2>1. it \in Announced(t) \/ it \in Present(cluster')
    BY <1>4, NothingOldNext DEF NothingOld
  <2>2. CASE it \in Announced(t)
    BY <2>2 DEF ShapeInv
  <2>3. CASE it \in Present(cluster')
    BY <1>1, <1>3, <2>3 DEF Present
  <2> QED
    BY <2>1, <2>2, <2>3
<1>5. \A t \in Tasks : \A op \in task'[t].ops : Has(op.res, op.key)
  BY OpsShaped
<1> QED
  BY <1>1, <1>2, <1>4, <1>5 DEF ShapeInv, Shaped, SectionsOf, MapKeys, Has

(* The objects a cluster starts with have their shapes, and nothing is known.  *)
LEMMA ShapeInit == Init => ShapeInv
<1> SUFFICES ASSUME Init PROVE ShapeInv
  OBVIOUS
<1>1. ASSUME NEW r \in Res, cluster[r] # None PROVE Shaped(r, SectionsOf(cluster[r]))
  <2>1. PICK s \in Shapes[r] : cluster[r] = MakeItem(r, 0, s)
    BY <1>1 DEF Init, ApiInit, Initial
  <2> QED
    BY <2>1 DEF Shaped, SectionsOf, MakeItem
<1>2. ASSUME NEW t \in Tasks PROVE Announced(t) = {}
  <2>1. task[t] = Fresh /\ stream[t] = NoStream
    BY DEF Init, ApiInit
  <2> QED
    BY <2>1 DEF Announced, Listed, Fresh, NoStream
<1>3. (\A m \in MapKeys : object[m] = None) /\ \A t \in Tasks : task[t].ops = {}
  BY DEF Init, Fresh
<1> QED
  BY <1>1, <1>2, <1>3 DEF ShapeInv

(* The sections of all that is announced and remembered are those of a shape   *)
(* of its object.                                                              *)
LEMMA ShapesKept == Spec => []ShapeInv
<1>1. TypeOK /\ ScopeInv /\ ScopeInv' /\ FolderInv /\ LocalInv /\ OrderInv /\ CacheInv /\ ShapeInv
        /\ [Next]_vars => ShapeInv'
  BY ShapeNext
<1> QED
  BY <1>1, ShapeInit, TypeCorrect, ScopeCorrect, FolderCorrect, LocalCorrect, OrderCorrect,
     CacheCorrect, PTL DEF Spec

(* No key of an object moves from one section to the other. *)
LEMMA SameSection ==
    ASSUME SectionsKept, NEW r \in Res, NEW a, NEW b, Shaped(r, a), Shaped(r, b),
           NEW k \in Keys, a[k] # None, b[k] # None
    PROVE  a[k] = b[k]
<1>1. PICK x \in Shapes[r] : a = [j \in Keys |-> IF x.data[j] = None THEN None ELSE x.data[j].sec]
  BY DEF Shaped
<1>2. PICK y \in Shapes[r] : b = [j \in Keys |-> IF y.data[j] = None THEN None ELSE y.data[j].sec]
  BY DEF Shaped
<1>3. x.data[k] # None /\ y.data[k] # None /\ a[k] = x.data[k].sec /\ b[k] = y.data[k].sec
  BY <1>1, <1>2
<1> QED
  BY <1>3 DEF SectionsKept

-----------------------------------------------------------------------------
(* CacheOnDisk, kind by kind *)

(* What is to be done is of the right type, in the scope of its task, and in a *)
(* known folder; two tasks have nothing to do for one object.                  *)
LEMMA OpOwners ==
    ASSUME TypeOK, ScopeInv, FolderInv
    PROVE  /\ \A t \in Tasks : \A op \in task[t].ops :
                /\ op \in Op /\ op.res \in Res /\ op.key \in Keys /\ op.path \in Paths \ {NoPath}
                /\ Serves(t, op.res) /\ MapKey(op.res) \in MapKeys
                /\ op.put # None => op.put \in Vals /\ Expected(op.key, op.put) \in Contents
           /\ \A t \in Tasks : \A u \in Tasks : \A op \in task[u].ops :
                u # t => ~Serves(t, op.res)
<1>1. \A t \in Tasks : task[t].ops \subseteq Op
  BY DEF TypeOK, Task
<1>2. \A op \in Op : /\ op.res \in Res /\ op.key \in Keys /\ op.path \in Paths
                     /\ MapKey(op.res) \in MapKeys
                     /\ op.put # None => op.put \in Vals
  BY MapKeyType DEF Op
<1>3. \A t \in Tasks : \A op \in task[t].ops : Serves(t, op.res) /\ op.path # NoPath
  BY DEF ScopeInv, InScope, FolderInv, FolderKnown
<1>4. \A k \in Keys : \A v \in Vals : Expected(k, v) \in Contents
  BY DEF Expected, Contents
<1>5. \A t \in Tasks : \A u \in Tasks : \A op \in task[u].ops : u # t => ~Serves(t, op.res)
  BY <1>1, <1>2, <1>3, OneWatcherAssumption
<1> QED
  BY <1>1, <1>2, <1>3, <1>4, <1>5

(* DiskInv of the next state. *)
LEMMA DiskNext ==
    ASSUME \A m \in MapKeys : object'[m] # None => \A k \in Keys : object'[m].sec[k] # None =>
             \/ files'[Slot(dest'[m], object'[m].res, k)] # None
             \/ \E t \in Tasks : \E op \in task'[t].ops :
                  op.put # None /\ op.res = object'[m].res /\ op.key = k,
           \A t \in Tasks : \A op \in task'[t].ops : op.put = None =>
             (object'[MapKey(op.res)] # None /\ object'[MapKey(op.res)].sec[op.key] # None
                => dest'[MapKey(op.res)] # op.path)
    PROVE  DiskInv'
BY DEF DiskInv, PendingWrite, MapKey, MapKeys, Slot, FileName

(* The writes of an object cover its keys. *)
LEMMA WriteOf ==
    ASSUME NEW it \in Item, NEW to, NEW k \in Keys, CachedItem(it).sec[k] # None
    PROVE  \E op \in Writes(it, to) :
             op.put = it.data[k].val /\ op.put # None /\ op.res = it.res /\ op.key = k /\ op.path = to
<1> DEFINE op == [phase |-> IF it.data[k].sec = "text" THEN 1 ELSE 3,
                  res |-> it.res, key |-> k, path |-> to, put |-> it.data[k].val]
<1>1. it.data[k] # None
  BY DEF CachedItem, SectionsOf
<1>2. it.data[k].val \in Vals
  BY <1>1 DEF Item, Entry
<1>3. it.data[k].val # None
  BY <1>2, NoneAssumption DEF Contents
<1>4. op \in Writes(it, to)
  BY <1>1 DEF Writes
<1>5. op.put = it.data[k].val /\ op.res = it.res /\ op.key = k /\ op.path = to
  OBVIOUS
<1> QED
  BY <1>3, <1>4, <1>5

(* What is removed of an object that is taken up, it has no longer there. *)
LEMMA LeftoverGone ==
    ASSUME TypeOK, ScopeInv, ShapeInv, SectionsKept, NEW t \in Tasks, NEW it \in Item,
           it \in Announced(t), NEW old, old = CachedItem(it) \/ old = object[MapKey(it.res)],
           old # None, NEW from, NEW to,
           NEW op \in Writes(it, to) \union Leftovers(old, CachedItem(it), from, to),
           op.put = None
    PROVE  /\ op.res = it.res
           /\ CachedItem(it).sec[op.key] # None => to # op.path
<1> DEFINE r == it.res
           new == CachedItem(it)
<1>1. r \in Res /\ new \in Cached /\ new.res = r /\ new.sec = SectionsOf(it)
  BY CachedType DEF Item, CachedItem
<1>2. Shaped(r, new.sec)
  BY <1>1 DEF ShapeInv
<1>3. old.res = r /\ Shaped(r, old.sec)
  <2>1. CASE old = object[MapKey(r)]
    <3>1. old.res = r /\ MapKey(r) \in MapKeys
      BY <1>1, <2>1, EntryOwner, MapKeyType
    <3> QED
      BY <2>1, <3>1 DEF ShapeInv
  <2> QED
    BY <1>1, <1>2, <2>1
<1>4. \A k \in Keys : it.data[k] # None => it.data[k].val # None
  BY NoneAssumption DEF Item, Entry, Contents
<1>5. op \notin Writes(it, to)
  BY <1>4 DEF Writes
<1>6. op \in Leftovers(old, new, from, to)
  BY <1>5
<1>7. PICK k \in Keys : /\ op.res = old.res /\ op.key = k /\ op.path = from
                        /\ old.sec[k] # None
                        /\ from = to => new.sec[k] # old.sec[k]
  BY <1>6 DEF Leftovers, minus_common
<1>8. new.sec[k] # None => from # to
  BY <1>1, <1>2, <1>3, <1>7, SameSection
<1> QED
  BY <1>3, <1>7, <1>8

(* An object that is taken up: its files are about to be written. *)
LEMMA DiskTakes ==
    ASSUME TypeOK, ScopeInv, FolderInv, ShapeInv, DiskInv, SectionsKept,
           NEW t \in Tasks, NEW it \in Item, Takes(t, it)
    PROVE  DiskInv'
<1> DEFINE r == it.res
           m == MapKey(r)
           to == get_destination_folder(it.ann)
           new == CachedItem(it)
           old == IF object[m] # None THEN object[m] ELSE new
           from == OldDest(m, to)
           ops == Writes(it, to) \union Leftovers(old, new, from, to)
<1>1. /\ task[t].ops = {} /\ it \in Announced(t) /\ Serves(t, r)
      /\ object' = [object EXCEPT ![m] = new] /\ dest' = [dest EXCEPT ![m] = to]
      /\ OpsChange(t, ops) /\ UNCHANGED files
  BY DEF Takes, volume
<1>2. m \in MapKeys /\ r \in Res /\ new # None /\ new.res = r
  BY MapKeyType, CachedType, NoneAssumption DEF Item, CachedItem
<1>3. /\ object'[m] = new /\ dest'[m] = to
      /\ \A n \in MapKeys : n # m => object'[n] = object[n] /\ dest'[n] = dest[n]
  BY <1>1, <1>2 DEF TypeOK
<1>4. (old = new \/ old = object[m]) /\ old # None
  BY <1>2
<1> HIDE DEF to, new, old, from
<1>5. task'[t].ops = ops /\ \A u \in Tasks : u # t => task'[u].ops = task[u].ops
  BY <1>1 DEF OpsChange
<1>6. ASSUME NEW n \in MapKeys, object'[n] # None, NEW k \in Keys, object'[n].sec[k] # None
      PROVE  \/ files'[Slot(dest'[n], object'[n].res, k)] # None
             \/ \E u \in Tasks : \E op \in task'[u].ops :
                  op.put # None /\ op.res = object'[n].res /\ op.key = k
  <2>1. CASE n = m
    <3>1. \E op \in Writes(it, to) : op.put # None /\ op.res = r /\ op.key = k
      BY <1>3, <1>6, <2>1, WriteOf DEF new
    <3> QED
      BY <1>2, <1>3, <1>5, <2>1, <3>1
  <2>2. CASE n # m
    <3>1. files[Slot(dest[n], object[n].res, k)] # None \/ PendingWrite(object[n].res, k)
      BY <1>3, <1>6, <2>2 DEF DiskInv
    <3>2. \A u \in Tasks : task[u].ops # {} => task'[u].ops = task[u].ops
      BY <1>1, <1>5
    <3> QED
      BY <1>1, <1>3, <2>2, <3>1, <3>2 DEF PendingWrite
  <2> QED
    BY <2>1, <2>2
<1>7. ASSUME NEW u \in Tasks, NEW op \in task'[u].ops, op.put = None,
             object'[MapKey(op.res)] # None, object'[MapKey(op.res)].sec[op.key] # None
      PROVE  dest'[MapKey(op.res)] # op.path
  <2>1. CASE u = t
    <3>1. op \in ops
      BY <1>5, <2>1
    <3>2. op.res = r /\ (new.sec[op.key] # None => to # op.path)
      BY <1>1, <1>4, <1>7, <3>1, LeftoverGone DEF new
    <3> QED
      BY <1>3, <1>7, <3>2
  <2>2. CASE u # t
    <3>1. op \in task[u].ops
      BY <1>5, <2>2
    <3>2. op.res \in Res /\ MapKey(op.res) \in MapKeys /\ op.res # r
      BY <1>1, <2>2, <3>1, OpOwners
    <3>3. MapKey(op.res) # m
      BY <1>2, <3>2, WellFormedAssumption
    <3> QED
      BY <1>3, <1>7, <3>1, <3>2, <3>3 DEF DiskInv
  <2> QED
    BY <2>1, <2>2
<1> QED
  BY <1>6, <1>7, DiskNext

(* An object that is dropped. *)
LEMMA DiskDrops ==
    ASSUME TypeOK, ScopeInv, FolderInv, DiskInv, NEW t \in Tasks, NEW c \in Cached, Drops(t, c)
    PROVE  DiskInv'
<1> DEFINE m == MapKey(c.res)
           ops == Removals(c, dest[m])
<1>1. /\ task[t].ops = {} /\ Serves(t, c.res) /\ object[m] = c
      /\ object' = [object EXCEPT ![m] = None]
      /\ OpsChange(t, ops) /\ UNCHANGED <<files, dest>>
  BY DEF Drops, volume
<1>2. m \in MapKeys /\ c.res \in Res
  BY MapKeyType DEF Cached
<1>3. object'[m] = None /\ \A n \in MapKeys : n # m => object'[n] = object[n]
  BY <1>1, <1>2 DEF TypeOK
<1>4. \A op \in ops : op.res = c.res
  BY DEF Removals
<1> HIDE DEF ops
<1>5. task'[t].ops = ops /\ \A u \in Tasks : u # t => task'[u].ops = task[u].ops
  BY <1>1 DEF OpsChange
<1>6. ASSUME NEW n \in MapKeys, object'[n] # None, NEW k \in Keys, object'[n].sec[k] # None
      PROVE  \/ files'[Slot(dest'[n], object'[n].res, k)] # None
             \/ \E u \in Tasks : \E op \in task'[u].ops :
                  op.put # None /\ op.res = object'[n].res /\ op.key = k
  <2>1. object'[n] = object[n]
    BY <1>3, <1>6
  <2>2. files[Slot(dest[n], object[n].res, k)] # None \/ PendingWrite(object[n].res, k)
    BY <1>6, <2>1 DEF DiskInv
  <2>3. \A u \in Tasks : task[u].ops # {} => task'[u].ops = task[u].ops
    BY <1>1, <1>5
  <2> QED
    BY <1>1, <2>1, <2>2, <2>3 DEF PendingWrite
<1>7. ASSUME NEW u \in Tasks, NEW op \in task'[u].ops, op.put = None,
             object'[MapKey(op.res)] # None, object'[MapKey(op.res)].sec[op.key] # None
      PROVE  dest'[MapKey(op.res)] # op.path
  <2>1. CASE u = t
    BY <1>3, <1>4, <1>5, <1>7, <2>1
  <2>2. CASE u # t
    <3>1. op \in task[u].ops
      BY <1>5, <2>2
    <3>2. MapKey(op.res) \in MapKeys
      BY <3>1, OpOwners
    <3>3. object'[MapKey(op.res)] = object[MapKey(op.res)]
      BY <1>3, <1>7, <3>2
    <3> QED
      BY <1>1, <1>7, <3>1, <3>3 DEF DiskInv
  <2> QED
    BY <2>1, <2>2
<1> QED
  BY <1>6, <1>7, DiskNext

(* The files of a remembered object are removed by nobody. *)
LEMMA DiskTouches ==
    ASSUME TypeOK, ScopeInv, FolderInv, PendingInv, ShapeInv, DiskInv, SlotsApart,
           "fs" \notin FaultKinds,
           NEW t \in Tasks, NEW op \in task[t].ops, Touches(t, op)
    PROVE  DiskInv'
<1> DEFINE slot == Slot(op.path, op.res, op.key)
<1>1. /\ op \in Op /\ op.res \in Res /\ op.key \in Keys /\ op.path \in Paths \ {NoPath}
      /\ MapKey(op.res) \in MapKeys
      /\ op.put # None => Expected(op.key, op.put) \in Contents
      /\ Has(op.res, op.key)
  BY OpOwners DEF ShapeInv
<1>2. /\ slot \in Slots
      /\ \A s \in Slots : s # slot => files'[s] = files[s]
      /\ op.put # None => files'[slot] \in {Expected(op.key, op.put), Empty}
      /\ OpsChange(t, task[t].ops \ {op})
      /\ UNCHANGED <<object, dest>>
  BY TouchEffect
<1>3. op.put # None => files'[slot] # None
  BY <1>1, <1>2, NoneAssumption DEF Contents
<1>4. \A u \in Tasks : task'[u].ops = IF u = t THEN task[t].ops \ {op} ELSE task[u].ops
  BY <1>2 DEF OpsChange
<1>5. ASSUME NEW n \in MapKeys, object[n] # None, NEW k \in Keys, object[n].sec[k] # None
      PROVE  \/ files'[Slot(dest[n], object[n].res, k)] # None
             \/ \E u \in Tasks : \E o \in task'[u].ops :
                  o.put # None /\ o.res = object[n].res /\ o.key = k
  <2>1. object[n] \in Cached /\ object[n].res \in Res /\ MapKey(object[n].res) = n
    BY <1>5 DEF TypeOK, Cached, ScopeInv, ObjectKeyed
  <2>2. dest[n] \in Paths \ {NoPath}
    BY <1>5 DEF TypeOK, FolderInv, HomeKnown
  <2> DEFINE s == Slot(dest[n], object[n].res, k)
  <2>3. s \in Slots
    BY <2>1, <2>2 DEF Slots
  <2>4. CASE PendingWrite(object[n].res, k)
    <3>1. PICK u \in Tasks : \E o \in task[u].ops :
             o.put # None /\ o.res = object[n].res /\ o.key = k
      BY <2>4 DEF PendingWrite
    <3>2. PICK o \in task[u].ops : o.put # None /\ o.res = object[n].res /\ o.key = k
      BY <3>1
    <3>3. CASE u = t /\ o = op
      <4>1. dest[n] = op.path
        BY <2>1, <3>2, <3>3 DEF PendingInv
      <4>2. s = slot
        BY <3>2, <3>3, <4>1
      <4> QED
        BY <1>3, <3>2, <3>3, <4>2
    <3>4. CASE ~(u = t /\ o = op)
      BY <1>4, <3>2, <3>4
    <3> QED
      BY <3>3, <3>4
  <2>5. CASE files[s] # None
    <3>1. CASE s # slot
      BY <1>2, <2>3, <2>5, <3>1
    <3>2. CASE s = slot
      <4>1. Has(object[n].res, k)
        BY <1>5, <2>1, ShapedHas DEF ShapeInv
      <4>2. dest[n] = op.path /\ object[n].res = op.res /\ k = op.key
        BY <1>1, <2>1, <2>2, <3>2, <4>1 DEF SlotsApart
      <4>3. op.put # None
        BY <1>5, <2>1, <4>2 DEF DiskInv
      <4> QED
        BY <1>3, <3>2, <4>3
    <3> QED
      BY <3>1, <3>2
  <2> QED
    BY <1>5, <2>4, <2>5 DEF DiskInv
<1>6. ASSUME NEW u \in Tasks, NEW o \in task'[u].ops, o.put = None,
             object[MapKey(o.res)] # None, object[MapKey(o.res)].sec[o.key] # None
      PROVE  dest[MapKey(o.res)] # o.path
  <2>1. o \in task[u].ops
    BY <1>4
  <2> QED
    BY <1>6, <2>1 DEF DiskInv
<1>7. /\ \A m \in MapKeys : object'[m] # None => \A k \in Keys : object'[m].sec[k] # None =>
           \/ files'[Slot(dest'[m], object'[m].res, k)] # None
           \/ \E u \in Tasks : \E o \in task'[u].ops :
                o.put # None /\ o.res = object'[m].res /\ o.key = k
      /\ \A u \in Tasks : \A o \in task'[u].ops : o.put = None =>
           (object'[MapKey(o.res)] # None /\ object'[MapKey(o.res)].sec[o.key] # None
              => dest'[MapKey(o.res)] # o.path)
  BY <1>2, <1>5, <1>6
<1> QED
  BY <1>7, DiskNext

(* DiskInv is inductive. *)
LEMMA DiskStep ==
    ASSUME TypeOK, ScopeInv, FolderInv, LocalInv, OrderInv, CacheInv, ShapeInv, DiskInv,
           [Next]_vars, Tame, "fs" \notin FaultKinds
    PROVE  DiskInv'
<1>1. SlotsApart /\ SectionsKept /\ PendingInv
  BY DEF Tame, CacheInv
<1>2. CASE Passive
  <2>1. /\ \A m \in MapKeys : object'[m] # None => \A k \in Keys : object'[m].sec[k] # None =>
             \/ files'[Slot(dest'[m], object'[m].res, k)] # None
             \/ \E t \in Tasks : \E op \in task'[t].ops :
                  op.put # None /\ op.res = object'[m].res /\ op.key = k
        /\ \A t \in Tasks : \A op \in task'[t].ops : op.put = None =>
             (object'[MapKey(op.res)] # None /\ object'[MapKey(op.res)].sec[op.key] # None
                => dest'[MapKey(op.res)] # op.path)
    BY <1>2 DEF Passive, volume, DiskInv, PendingWrite
  <2> QED
    BY <2>1, DiskNext
<1>3. CASE Ends
  <2>1. (\A m \in MapKeys : object'[m] = None) /\ \A t \in Tasks : task'[t].ops = {}
    BY <1>3 DEF Ends, Exit, Fresh
  <2> QED
    BY <2>1, DiskNext
<1> QED
  BY <1>1, <1>2, <1>3, StepKinds, DiskTakes, DiskDrops, DiskTouches

(* In a tame deployment, and unless the file operations themselves fail, the   *)
(* cache does not claim files that are not there (resources.rs:303-408).       *)
THEOREM CacheOnDiskCorrect ==
    ASSUME Tame, "fs" \notin FaultKinds PROVE Spec => []CacheOnDisk
<1>1. Init => DiskInv
  BY DEF Init, DiskInv, Fresh
<1>2. TypeOK /\ ScopeInv /\ FolderInv /\ LocalInv /\ OrderInv /\ CacheInv /\ ShapeInv /\ DiskInv
        /\ [Next]_vars => DiskInv'
  BY DiskStep
<1>3. DiskInv => CacheOnDisk
  BY DEF DiskInv, CacheOnDisk, InFlight, PendingWrite
<1> QED
  BY <1>1, <1>2, <1>3, ShapesKept, TypeCorrect, ScopeCorrect, FolderCorrect, LocalCorrect,
     OrderCorrect, CacheCorrect, PTL DEF Spec

-----------------------------------------------------------------------------
(* The files of a stored version, kind by kind *)

(* A deployment in which neither the file operations nor the fetches fail.     *)
FilesKept == FaultKinds \subseteq {"api", "crash", "script"}

(* ShownInv of one object and of one operation (todo: all operations there are *)
(* to do).                                                                     *)
Right(r, ob, de, tk, cl, fs, todo) ==
    ob[MapKey(r)] # None /\ cl[r] # None /\ tk[r] = cl[r].rv =>
      /\ ob[MapKey(r)] = CachedItem(cl[r])
      /\ de[MapKey(r)] = get_destination_folder(cl[r].ann)
      /\ \A k \in Keys : cl[r].data[k] # None =>
           \/ fs[Slot(de[MapKey(r)], r, k)] = Expected(k, cl[r].data[k].val)
           \/ \E op \in todo : op.put # None /\ op.res = r /\ op.key = k
OpRight(t, op, ob, tk, cl) ==
    cl[op.res] # None /\ tk[op.res] = cl[op.res].rv =>
      /\ ob[MapKey(op.res)] # None /\ op.put # None =>
           cl[op.res].data[op.key] # None /\ op.put = cl[op.res].data[op.key].val
      /\ WantedBy(t, cl[op.res]) => ob[MapKey(op.res)] # None

(* ShownInv, object by object and operation by operation, over named state.    *)
LEMMA ShownParts ==
    ShownInv <=>
      /\ \A r \in Res : Right(r, object, dest, taken, cluster, files, UNION {task[t].ops : t \in Tasks})
      /\ \A t \in Tasks : \A op \in task[t].ops : OpRight(t, op, object, taken, cluster)
<1>1. \A r \in Res : \A k \in Keys : PendingWrite(r, k) <=>
         \E op \in UNION {task[t].ops : t \in Tasks} : op.put # None /\ op.res = r /\ op.key = k
  BY DEF PendingWrite
<1> QED
  BY <1>1 DEF ShownInv, Right, OpRight, Stored

(* The same of the next state.                                                 *)
LEMMA ShownNext ==
    ASSUME \A r \in Res : Right(r, object', dest', taken', cluster', files',
                                UNION {task'[t].ops : t \in Tasks}),
           \A t \in Tasks : \A op \in task'[t].ops : OpRight(t, op, object', taken', cluster')
    PROVE  ShownInv'
<1>1. \A r \in Res : \A k \in Keys : PendingWrite(r, k)' <=>
         \E op \in UNION {task'[t].ops : t \in Tasks} : op.put # None /\ op.res = r /\ op.key = k
  BY DEF PendingWrite
<1> QED
  BY <1>1 DEF ShownInv, Right, OpRight, Stored, MapKey, Slot, FileName, CachedItem, SectionsOf,
              Expected, WantedBy, ByName, Chosen

(* A step that concerns one object, of one task, and no file. *)
LEMMA ShownStep ==
    ASSUME TypeOK, ScopeInv, FolderInv, ShownInv, NEW t \in Tasks, NEW r \in Res, Serves(t, r),
           task[t].ops = {}, NEW ops, OpsChange(t, ops), UNCHANGED <<files, cluster>>,
           \A q \in Res : q # r => /\ object'[MapKey(q)] = object[MapKey(q)]
                                   /\ dest'[MapKey(q)] = dest[MapKey(q)] /\ taken'[q] = taken[q],
           Right(r, object', dest', taken', cluster, files, ops),
           \A op \in ops : OpRight(t, op, object', taken', cluster)
    PROVE  ShownInv'
<1> DEFINE todo == UNION {task[u].ops : u \in Tasks}
           next == UNION {task'[u].ops : u \in Tasks}
<1>1. task'[t].ops = ops /\ \A u \in Tasks : u # t => task'[u].ops = task[u].ops
  BY DEF OpsChange
<1>2. ops \subseteq next /\ todo \subseteq next
  BY <1>1
<1> HIDE DEF todo, next
<1>3. ASSUME NEW q \in Res PROVE Right(q, object', dest', taken', cluster', files', next)
  <2>1. CASE q = r
    BY <1>2, <2>1 DEF Right
  <2>2. CASE q # r
    <3>1. Right(q, object, dest, taken, cluster, files, todo)
      BY ShownParts DEF todo
    <3> QED
      BY <1>2, <2>2, <3>1 DEF Right
  <2> QED
    BY <2>1, <2>2
<1>4. ASSUME NEW u \in Tasks, NEW op \in task'[u].ops
      PROVE  OpRight(u, op, object', taken', cluster')
  <2>1. CASE u = t
    BY <1>1, <2>1
  <2>2. CASE u # t
    <3>1. op \in task[u].ops
      BY <1>1, <2>2
    <3>2. op.res \in Res /\ op.res # r
      BY <2>2, <3>1, OpOwners
    <3>3. OpRight(u, op, object, taken, cluster)
      BY <3>1, ShownParts
    <3> QED
      BY <3>2, <3>3 DEF OpRight
  <2> QED
    BY <2>1, <2>2
<1> QED
  BY <1>3, <1>4, ShownNext DEF next

(* An object that is taken up: its files are about to be made right. *)
LEMMA ShownTakes ==
    ASSUME TypeOK, ScopeInv, FolderInv, ContentInv, ShownInv,
           NEW t \in Tasks, NEW it \in Item, Takes(t, it)
    PROVE  ShownInv'
<1> DEFINE r == it.res
           m == MapKey(r)
           to == get_destination_folder(it.ann)
           new == CachedItem(it)
           old == IF object[m] # None THEN object[m] ELSE new
           from == OldDest(m, to)
           ops == Writes(it, to) \union Leftovers(old, new, from, to)
<1>1. /\ task[t].ops = {} /\ it \in Announced(t) /\ Serves(t, r)
      /\ object' = [object EXCEPT ![m] = new] /\ dest' = [dest EXCEPT ![m] = to]
      /\ taken' = [taken EXCEPT ![r] = it.rv]
      /\ OpsChange(t, ops) /\ UNCHANGED <<files, cluster>>
  BY DEF Takes, volume
<1>2. m \in MapKeys /\ r \in Res /\ new # None /\ new.res = r
  BY MapKeyType, CachedType, NoneAssumption DEF Item, CachedItem
<1>3. object'[m] = new /\ dest'[m] = to /\ taken'[r] = it.rv
  BY <1>1, <1>2 DEF TypeOK
<1>4. ASSUME NEW q \in Res, q # r
      PROVE  /\ object'[MapKey(q)] = object[MapKey(q)]
             /\ dest'[MapKey(q)] = dest[MapKey(q)] /\ taken'[q] = taken[q]
  <2>1. MapKey(q) # m /\ MapKey(q) \in MapKeys
    BY <1>2, <1>4, MapKeyType, WellFormedAssumption
  <2> QED
    BY <1>1, <1>4, <2>1 DEF TypeOK
<1>5. old.res = r
  BY <1>2, EntryOwner
<1>6. cluster[r] # None /\ it.rv = cluster[r].rv => it = cluster[r]
  BY <1>1 DEF ContentInv
<1> HIDE DEF to, new, old, from
<1>7. Right(r, object', dest', taken', cluster, files, ops)
  <2> SUFFICES ASSUME cluster[r] # None, taken'[r] = cluster[r].rv
               PROVE  /\ object'[m] = CachedItem(cluster[r])
                      /\ dest'[m] = get_destination_folder(cluster[r].ann)
                      /\ \A k \in Keys : cluster[r].data[k] # None =>
                           \E op \in ops : op.put # None /\ op.res = r /\ op.key = k
    BY DEF Right
  <2>1. it = cluster[r]
    BY <1>3, <1>6
  <2>2. ASSUME NEW k \in Keys, it.data[k] # None
        PROVE  \E op \in ops : op.put # None /\ op.res = r /\ op.key = k
    <3>1. CachedItem(it).sec[k] # None
      BY <2>2, NoneAssumption DEF CachedItem, SectionsOf, Item, Entry
    <3>2. \E op \in Writes(it, to) : op.put # None /\ op.res = r /\ op.key = k
      BY <3>1, WriteOf
    <3> QED
      BY <3>2
  <2> QED
    BY <1>3, <2>1, <2>2 DEF new, to
<1>8. ASSUME NEW op \in ops PROVE OpRight(t, op, object', taken', cluster)
  <2>1. CASE op \in Writes(it, to)
    <3>1. PICK k \in Keys : /\ it.data[k] # None
                            /\ op.res = r /\ op.key = k /\ op.put = it.data[k].val
      BY <2>1 DEF Writes
    <3> QED
      BY <1>2, <1>3, <1>6, <3>1 DEF OpRight
  <2>2. CASE op \in Leftovers(old, new, from, to)
    <3>1. op.res = old.res /\ op.put = None
      BY <2>2 DEF Leftovers
    <3> QED
      BY <1>2, <1>3, <1>5, <3>1 DEF OpRight
  <2> QED
    BY <2>1, <2>2
<1> HIDE DEF ops
<1> QED
  BY <1>1, <1>2, <1>4, <1>7, <1>8, ShownStep

(* An object that is dropped is not there, or in a later version. *)
LEMMA ShownDrops ==
    ASSUME TypeOK, ScopeInv, FolderInv, ShownInv, NEW t \in Tasks, NEW c \in Cached, Drops(t, c)
    PROVE  ShownInv'
<1> DEFINE r == c.res
           m == MapKey(r)
           ops == Removals(c, dest[m])
<1>1. /\ task[t].ops = {} /\ Serves(t, r)
      /\ cluster[r] # None /\ WantedBy(t, cluster[r]) => taken[r] < cluster[r].rv
      /\ object' = [object EXCEPT ![m] = None]
      /\ OpsChange(t, ops) /\ UNCHANGED <<files, cluster, dest, taken>>
  BY DEF Drops, volume
<1>2. m \in MapKeys /\ r \in Res
  BY MapKeyType DEF Cached
<1>3. object'[m] = None
  BY <1>1, <1>2 DEF TypeOK
<1>4. ASSUME NEW q \in Res, q # r
      PROVE  /\ object'[MapKey(q)] = object[MapKey(q)]
             /\ dest'[MapKey(q)] = dest[MapKey(q)] /\ taken'[q] = taken[q]
  <2>1. MapKey(q) # m /\ MapKey(q) \in MapKeys
    BY <1>2, <1>4, MapKeyType, WellFormedAssumption
  <2> QED
    BY <1>1, <2>1 DEF TypeOK
<1>5. Right(r, object', dest', taken', cluster, files, ops)
  BY <1>3 DEF Right
<1>6. \A op \in ops : OpRight(t, op, object', taken', cluster)
  <2> SUFFICES ASSUME NEW op \in ops PROVE OpRight(t, op, object', taken', cluster)
    OBVIOUS
  <2>1. op.res = r /\ op.put = None
    BY DEF Removals
  <2>2. cluster[r] # None => taken[r] \in Int /\ cluster[r].rv \in Int
    BY <1>2, ApiAssumption DEF TypeOK, Item
  <2> QED
    BY <1>1, <1>3, <2>1, <2>2 DEF OpRight
<1> HIDE DEF ops
<1> QED
  BY <1>1, <1>2, <1>4, <1>5, <1>6, ShownStep

(* A file of a stored version is changed to what it should be. *)
LEMMA ShownTouches ==
    ASSUME TypeOK, ScopeInv, FolderInv, PendingInv, ShapeInv, DiskInv, ShownInv, SlotsApart,
           FilesKept,
           NEW t \in Tasks, NEW op \in task[t].ops, Touches(t, op)
    PROVE  ShownInv'
<1> DEFINE slot == Slot(op.path, op.res, op.key)
           todo == UNION {task[u].ops : u \in Tasks}
           next == UNION {task'[u].ops : u \in Tasks}
<1>1. /\ op \in Op /\ op.res \in Res /\ op.key \in Keys /\ op.path \in Paths \ {NoPath}
      /\ Has(op.res, op.key)
  BY OpOwners DEF ShapeInv
<1>2. /\ slot \in Slots
      /\ \A s \in Slots : s # slot => files'[s] = files[s]
      /\ op.put # None => files'[slot] = Expected(op.key, op.put)
      /\ OpsChange(t, task[t].ops \ {op})
      /\ UNCHANGED <<object, dest, taken, cluster>>
  BY TouchEffect DEF FilesKept
<1>3. \A u \in Tasks : task'[u].ops = IF u = t THEN task[t].ops \ {op} ELSE task[u].ops
  BY <1>2 DEF OpsChange
<1>4. \A o \in todo : o = op \/ o \in next
  BY <1>3
<1>5. OpRight(t, op, object, taken, cluster)
  BY ShownParts
<1> HIDE DEF todo, next
<1>6. ASSUME NEW r \in Res PROVE Right(r, object, dest, taken, cluster, files', next)
  <2> SUFFICES ASSUME object[MapKey(r)] # None, cluster[r] # None, taken[r] = cluster[r].rv
               PROVE  /\ object[MapKey(r)] = CachedItem(cluster[r])
                      /\ dest[MapKey(r)] = get_destination_folder(cluster[r].ann)
                      /\ \A k \in Keys : cluster[r].data[k] # None =>
                           \/ files'[Slot(dest[MapKey(r)], r, k)] = Expected(k, cluster[r].data[k].val)
                           \/ \E o \in next : o.put # None /\ o.res = r /\ o.key = k
    BY DEF Right
  <2>1. /\ object[MapKey(r)] = CachedItem(cluster[r])
        /\ dest[MapKey(r)] = get_destination_folder(cluster[r].ann)
        /\ \A k \in Keys : cluster[r].data[k] # None =>
             \/ files[Slot(dest[MapKey(r)], r, k)] = Expected(k, cluster[r].data[k].val)
             \/ \E o \in todo : o.put # None /\ o.res = r /\ o.key = k
    BY ShownParts DEF Right, todo
  <2>2. dest[MapKey(r)] \in Paths \ {NoPath} /\ MapKey(r) \in MapKeys
    BY MapKeyType DEF TypeOK, FolderInv, HomeKnown
  <2>3. ASSUME NEW k \in Keys, cluster[r].data[k] # None
        PROVE  \/ files'[Slot(dest[MapKey(r)], r, k)] = Expected(k, cluster[r].data[k].val)
               \/ \E o \in next : o.put # None /\ o.res = r /\ o.key = k
    <3> DEFINE s == Slot(dest[MapKey(r)], r, k)
    <3>1. s \in Slots
      BY <2>2 DEF Slots
    <3>2. CASE op.put # None /\ op.res = r /\ op.key = k
      <4>1. dest[MapKey(r)] = op.path
        BY <3>2 DEF PendingInv
      <4>2. op.put = cluster[r].data[k].val
        BY <1>5, <3>2 DEF OpRight
      <4> QED
        BY <1>2, <3>2, <4>1, <4>2
    <3>3. CASE ~(op.put # None /\ op.res = r /\ op.key = k)
                 /\ \E o \in todo : o.put # None /\ o.res = r /\ o.key = k
      BY <1>4, <3>3
    <3>4. CASE ~(op.put # None /\ op.res = r /\ op.key = k)
                 /\ files[s] = Expected(k, cluster[r].data[k].val)
      <4>1. s # slot
        <5> SUFFICES ASSUME s = slot PROVE FALSE
          OBVIOUS
        <5>1. CachedItem(cluster[r]).sec[k] # None
          <6>1. cluster[r].data[k] \in Entry
            BY <2>3 DEF TypeOK, Item
          <6> QED
            BY <2>3, <6>1, NoneAssumption DEF CachedItem, SectionsOf, Entry
        <5>2. Has(r, k)
          BY <5>1, ShapedHas DEF ShapeInv, CachedItem
        <5>3. dest[MapKey(r)] = op.path /\ r = op.res /\ k = op.key
          BY <1>1, <2>2, <5>2 DEF SlotsApart
        <5>4. op.put = None
          BY <3>4, <5>3
        <5> QED
          BY <2>1, <5>1, <5>3, <5>4 DEF DiskInv
      <4> QED
        BY <1>2, <3>1, <3>4, <4>1
    <3> QED
      BY <2>1, <2>3, <3>2, <3>3, <3>4
  <2> QED
    BY <2>1, <2>3
<1>7. \A u \in Tasks : \A o \in task'[u].ops : OpRight(u, o, object, taken, cluster)
  BY <1>3, ShownParts
<1>8. /\ \A r \in Res : Right(r, object', dest', taken', cluster', files', next)
      /\ \A u \in Tasks : \A o \in task'[u].ops : OpRight(u, o, object', taken', cluster')
  BY <1>2, <1>6, <1>7
<1> QED
  BY <1>8, ShownNext DEF next

(* A user's step makes a stored version an old one. *)
LEMMA ShownUser ==
    ASSUME TypeOK, ScopeInv, OrderInv, ShownInv, User
    PROVE  ShownInv'
<1>1. PICK r \in Res, new \in Item \union {None} :
         /\ cluster' = [cluster EXCEPT ![r] = new] /\ rev + 1 \in 0..MaxRev
         /\ new # None => new.res = r /\ new.rv = rev + 1
  BY UserTold DEF ScopeInv
<1>2. \A q \in Res : cluster'[q] = IF q = r THEN new ELSE cluster[q]
  BY <1>1 DEF TypeOK
<1>3. UNCHANGED <<task, object, dest, taken, files>>
  BY DEF User, maps, volume
<1>4. cluster'[r] # None => taken[r] # cluster'[r].rv
  <2>1. taken[r] \in Int /\ rev \in Int /\ taken[r] <= rev
    BY ApiAssumption DEF TypeOK, OrderInv, TakenInv
  <2> QED
    BY <1>1, <1>2, <2>1
<1> DEFINE todo == UNION {task[u].ops : u \in Tasks}
<1>5. ASSUME NEW q \in Res PROVE Right(q, object, dest, taken, cluster', files, todo)
  <2>1. Right(q, object, dest, taken, cluster, files, todo)
    BY ShownParts
  <2> HIDE DEF todo
  <2> QED
    BY <1>2, <1>4, <2>1 DEF Right
<1>6. ASSUME NEW u \in Tasks, NEW op \in task[u].ops PROVE OpRight(u, op, object, taken, cluster')
  <2>1. OpRight(u, op, object, taken, cluster)
    BY ShownParts
  <2>2. op.res \in Res
    BY DEF TypeOK, Task, Op
  <2> QED
    BY <1>2, <1>4, <2>1, <2>2 DEF OpRight
<1>7. /\ \A q \in Res : Right(q, object', dest', taken', cluster', files', UNION {task'[u].ops : u \in Tasks})
      /\ \A u \in Tasks : \A op \in task'[u].ops : OpRight(u, op, object', taken', cluster')
  BY <1>3, <1>5, <1>6
<1> QED
  BY <1>7, ShownNext

(* ShownInv is inductive. *)
LEMMA ShownKept ==
    ASSUME TypeOK, ScopeInv, FolderInv, LocalInv, OrderInv, CacheInv, ShapeInv, DiskInv, ShownInv,
           [Next]_vars, SlotsApart, FilesKept
    PROVE  ShownInv'
<1>1. PendingInv /\ ContentInv
  BY DEF CacheInv
<1>2. CASE User
  BY <1>2, ShownUser
<1>3. CASE Passive /\ ~User
  <2>1. /\ UNCHANGED <<files, object, dest, taken, cluster>>
        /\ \A t \in Tasks : task'[t].ops = task[t].ops
    BY <1>3, ClusterKept DEF Passive, volume
  <2>2. UNION {task'[t].ops : t \in Tasks} = UNION {task[t].ops : t \in Tasks}
    BY <2>1
  <2>3. /\ \A r \in Res : Right(r, object', dest', taken', cluster', files',
                                UNION {task'[t].ops : t \in Tasks})
        /\ \A t \in Tasks : \A op \in task'[t].ops : OpRight(t, op, object', taken', cluster')
    BY <2>1, <2>2, ShownParts
  <2> QED
    BY <2>3, ShownNext
<1>4. CASE Ends
  <2>1. (\A r \in Res : object'[MapKey(r)] = None) /\ \A t \in Tasks : task'[t].ops = {}
    BY <1>4, MapKeyType DEF Ends, Exit, Fresh
  <2>2. /\ \A r \in Res : Right(r, object', dest', taken', cluster', files',
                                UNION {task'[t].ops : t \in Tasks})
        /\ \A t \in Tasks : \A op \in task'[t].ops : OpRight(t, op, object', taken', cluster')
    BY <2>1 DEF Right
  <2> QED
    BY <2>2, ShownNext
<1> QED
  BY <1>1, <1>2, <1>3, <1>4, StepKinds, ShownTakes, ShownDrops, ShownTouches

(* In a tame deployment, and unless files or fetches fail, what is known of an *)
(* object, what is on the volume, and what is to be done bring the files in    *)
(* line with the last stored version (resources.rs:267-410).                   *)
THEOREM FilesCorrect == ASSUME Tame, FilesKept PROVE Spec => []FilesInv
<1>1. Init => DiskInv
  BY DEF Init, DiskInv, Fresh
<1>2. Init => ShownInv
  BY DEF Init, ShownInv, Stored, Fresh, MapKeys
<1>3. TypeOK /\ ScopeInv /\ FolderInv /\ LocalInv /\ OrderInv /\ CacheInv /\ ShapeInv /\ DiskInv
        /\ [Next]_vars => DiskInv'
  BY DiskStep DEF FilesKept
<1>4. TypeOK /\ ScopeInv /\ FolderInv /\ LocalInv /\ OrderInv /\ CacheInv /\ ShapeInv /\ DiskInv
        /\ ShownInv /\ [Next]_vars => ShownInv'
  BY ShownKept DEF Tame
<1> QED
  BY <1>1, <1>2, <1>3, <1>4, ShapesKept, TypeCorrect, ScopeCorrect, FolderCorrect, LocalCorrect,
     OrderCorrect, CacheCorrect, PTL DEF Spec, FilesInv

(* A stored version that nobody works on is shown. *)
LEMMA StoredShown ==
    ASSUME ShownInv, NEW r \in Res, Stored(r), ~InFlight(r)
    PROVE  Shown(r)
BY DEF ShownInv, Shown, InFlight, PendingWrite

(* In a tame deployment, and unless files or fetches fail, what a recorded     *)
(* version lets a pass or a watcher skip is on the volume (resources.rs:       *)
(* 479-499, 599-626).                                                          *)
THEOREM SkipIsSafeCorrect == ASSUME Tame, FilesKept PROVE Spec => []SkipIsSafe
<1>1. TypeOK /\ OrderInv /\ FilesInv => SkipIsSafe
  <2> SUFFICES ASSUME TypeOK, OrderInv, CacheInv, ShownInv, NEW r \in Res, UpToDateVersion(r),
                      ~InFlight(r)
               PROVE  Shown(r)
    BY DEF SkipIsSafe, FilesInv
  <2>1. cluster[r] # None /\ version[MapKey(r)] = cluster[r].rv /\ cluster[r] \in Item
    BY DEF UpToDateVersion, TypeOK
  <2>2. cluster[r].rv \in 0..MaxRev /\ cluster[r].rv # None /\ taken[r] \in Int
    BY <2>1, NoneAssumption, ApiAssumption DEF Item, TypeOK
  <2>3. cluster[r].rv <= taken[r] /\ taken[r] <= cluster[r].rv
    BY <2>1, <2>2 DEF CacheInv, VersionInv, OrderInv, TakenInv
  <2>4. taken[r] = cluster[r].rv
    BY <2>2, <2>3, ApiAssumption
  <2>5. object[MapKey(r)] = CachedItem(cluster[r]) /\ CachedItem(cluster[r]) # None
    BY <2>1, CachedType, NoneAssumption DEF CacheInv, VersionInv
  <2> QED
    BY <2>1, <2>4, <2>5, StoredShown DEF Stored
<1> QED
  BY <1>1, FilesCorrect, TypeCorrect, OrderCorrect, PTL

(* In a tame deployment, and unless files or fetches fail, a watcher that has  *)
(* read everything its open stream delivered shows every live object of its    *)
(* scope with its current contents (resources.rs:556-656).                     *)
THEOREM CaughtUpCorrect == ASSUME Tame, FilesKept PROVE Spec => []CaughtUp
<1>1. TypeOK /\ ScopeInv /\ FolderInv /\ LocalInv /\ FilesInv => CaughtUp
  <2> SUFFICES ASSUME TypeOK, ScopeInv, FolderInv, LocalInv, CacheInv, ShownInv, NEW t \in Tasks,
                      UpToDate(t), NEW r \in Res, Serves(t, r), Live(r)
               PROVE  Shown(r)
    BY DEF CaughtUp, FilesInv
  <2>1. /\ task[t].pc = "watch" /\ stream[t].live
        /\ stream[t].backlog = {} /\ stream[t].queue = <<>>
    BY DEF UpToDate, Drained
  <2>2. cluster[r] # None /\ cluster[r] \in Item /\ cluster[r].res = r
    BY DEF Live, TypeOK, ScopeInv, ClusterNamed
  <2>3. Known(stream[t], object, taken, Len(stream[t].queue), cluster[r])
    BY <2>1 DEF CacheInv, ChainInv
  <2>4. Len(stream[t].queue) = 0 /\ 1..0 = {}
    BY <2>1
  <2>5. Known(stream[t], object, taken, 0, cluster[r])
    BY <2>3, <2>4
  <2>6. object[MapKey(r)] = CachedItem(cluster[r]) /\ taken[r] = cluster[r].rv
    BY <2>1, <2>2, <2>4, <2>5 DEF Known
  <2>7. CachedItem(cluster[r]) # None
    BY <2>2, CachedType, NoneAssumption
  <2>8. task[t].ops = {}
    BY <2>1, NoOps
  <2>9. ~InFlight(r)
    BY <2>8, OpOwners DEF InFlight
  <2> QED
    BY <2>2, <2>6, <2>7, <2>9, StoredShown DEF Stored
<1> QED
  BY <1>1, FilesCorrect, TypeCorrect, ScopeCorrect, FolderCorrect, LocalCorrect, PTL
-----------------------------------------------------------------------------
(* The refinement of Mirror *)

(* What Mirror sees of a cluster and a volume. *)
WantedOf(cl, r) == cl[r] # None /\ (r \in NamedOnes \/ (r \in IfLabelled /\ cl[r].lab))
ShownOf(cl, fs, r) == \A k \in Keys : cl[r].data[k] # None =>
    fs[Slot(get_destination_folder(cl[r].ann), r, k)] = Expected(k, cl[r].data[k].val)
VersionOf(cl, r) == IF WantedOf(cl, r) THEN cl[r].rv ELSE None
WantedMap(cl) == [r \in Res |-> VersionOf(cl, r)]
ShownSet(cl, fs) == {r \in Res : WantedOf(cl, r) /\ ShownOf(cl, fs, r)}

(* Only users give out versions. *)
LEMMA RevKept == [Next]_vars /\ ~User => UNCHANGED rev
<1> SUFFICES ASSUME [Next]_vars, ~User PROVE UNCHANGED rev
  OBVIOUS
<1>1. CASE UNCHANGED vars
  BY <1>1 DEF vars
<1>2. ASSUME NEW t \in Tasks, Step(t) PROVE UNCHANGED rev
  BY <1>2 DEF Step, BeginList, ReadNamed, ListPage, ListItem, BeginStale, RemoveStale, EndList,
              UpdateFile, FetchUrl, UpdateFetched, FinishItem, RunScript, SendRequest, Wake,
              Connect, HandleEvent, StreamEnds
<1>3. ASSUME NEW t \in Tasks, Fails(t) \/ Close(t) PROVE UNCHANGED rev
  BY <1>3 DEF Fails, ScriptFails, ApiFails, Throw, Exit, Close, ServerClose
<1>4. CASE EndBoot \/ Monitor \/ Crash \/ Restart
  BY <1>4 DEF EndBoot, Monitor, Crash, Restart, Exit
<1> QED
  BY <1>1, <1>2, <1>3, <1>4 DEF Next

(* The version of a wanted object is one. *)
LEMMA WantedVersion ==
    ASSUME TypeOK, NEW r \in Res, WantedOf(cluster, r)
    PROVE  cluster[r].rv # None
<1>1. cluster[r] \in Item
  BY DEF WantedOf, TypeOK
<1> QED
  BY <1>1, NoneAssumption DEF Item

(* The mapping of the state and of the next state.                             *)
LEMMA MirrorView ==
    /\ [r \in Res |-> IF Wanted(r) THEN cluster[r].rv ELSE None] = WantedMap(cluster)
    /\ {r \in Res : Wanted(r) /\ Shown(r)} = ShownSet(cluster, files)
    /\ ([r \in Res |-> IF Wanted(r) THEN cluster[r].rv ELSE None])' = WantedMap(cluster')
    /\ ({r \in Res : Wanted(r) /\ Shown(r)})' = ShownSet(cluster', files')
<1>1. \A r \in Res : /\ Wanted(r) <=> WantedOf(cluster, r)
                     /\ Shown(r) <=> ShownOf(cluster, files, r)
  BY DEF Wanted, Shown, WantedOf, ShownOf
<1>2. \A r \in Res : /\ Wanted(r)' <=> WantedOf(cluster', r)
                     /\ Shown(r)' <=> ShownOf(cluster', files', r)
  BY DEF Wanted, Shown, WantedOf, ShownOf,
      NamedOnes, IfLabelled, ByName, Chosen, Slot, FileName, Expected
<1> QED
  BY <1>1, <1>2 DEF WantedMap, VersionOf, ShownSet

(* A step that changes neither the cluster, nor a version, nor a file.         *)
LEMMA MirrorStutter ==
    ASSUME UNCHANGED <<cluster, rev, taken, files>>
    PROVE  UNCHANGED M!vars
<1>1. WantedMap(cluster') = WantedMap(cluster) /\ ShownSet(cluster', files') = ShownSet(cluster, files)
  OBVIOUS
<1> QED
  BY <1>1, MirrorView DEF M!vars

(* The sidecar starts with nothing. *)
LEMMA MirrorInit == Init => M!Init
<1> SUFFICES ASSUME Init PROVE M!Init
  OBVIOUS
<1>1. rev = 0 /\ taken = [r \in Res |-> -1]
  BY DEF Init, ApiInit
<1>2. ASSUME NEW r \in Res PROVE VersionOf(cluster, r) \in {None, 0}
  <2>1. cluster[r] \in Initial(r)
    BY DEF Init, ApiInit
  <2> QED
    BY <2>1 DEF Initial, MakeItem, VersionOf, WantedOf
<1>3. WantedMap(cluster) \in [Res -> {None, 0}]
  BY <1>2 DEF WantedMap
<1>4. ShownSet(cluster, files) \subseteq {r \in Res : WantedMap(cluster)[r] # None}
  <2> SUFFICES ASSUME NEW r \in Res, WantedOf(cluster, r) PROVE WantedMap(cluster)[r] # None
    BY DEF ShownSet
  <2>1. cluster[r] # None /\ cluster[r] \in Initial(r)
    BY DEF WantedOf, Init, ApiInit
  <2>2. cluster[r].rv = 0
    BY <2>1 DEF Initial, MakeItem
  <2>3. None # 0
    BY NoneAssumption, ApiAssumption
  <2> QED
    BY <2>2, <2>3 DEF WantedMap, VersionOf
<1> QED
  BY <1>1, <1>3, <1>4, MirrorView DEF M!Init

(* A user changes an object. *)
LEMMA MirrorUser ==
    ASSUME TypeOK, ScopeInv, User
    PROVE  \E r \in Res : M!Change(r)
<1>1. PICK r \in Res, new \in Item \union {None} :
         /\ cluster' = [cluster EXCEPT ![r] = new] /\ rev + 1 \in 0..MaxRev
         /\ new # None => new.res = r /\ new.rv = rev + 1
  BY UserTold DEF ScopeInv
<1>2. rev' = rev + 1 /\ UNCHANGED <<files, taken>>
  BY DEF User, Apply, Delete, volume, maps
<1>3. \A q \in Res : cluster'[q] = IF q = r THEN new ELSE cluster[q]
  BY <1>1 DEF TypeOK
<1> DEFINE v == VersionOf(cluster', r)
<1>4. v \in {None, rev'} /\ (WantedOf(cluster', r) => v # None)
  <2>1. rev + 1 # None
    BY <1>1, NoneAssumption
  <2> QED
    BY <1>1, <1>2, <1>3, <2>1 DEF VersionOf, WantedOf
<1>5. \A q \in Res : q # r => /\ WantedOf(cluster', q) <=> WantedOf(cluster, q)
                              /\ ShownOf(cluster', files', q) <=> ShownOf(cluster, files, q)
                              /\ VersionOf(cluster', q) = VersionOf(cluster, q)
  BY <1>2, <1>3 DEF WantedOf, ShownOf, VersionOf
<1>6. WantedMap(cluster') = [WantedMap(cluster) EXCEPT ![r] = v]
  BY <1>5 DEF WantedMap
<1>7. ShownSet(cluster', files') \ {r} = ShownSet(cluster, files) \ {r}
  BY <1>5 DEF ShownSet
<1>8. r \in ShownSet(cluster', files') => WantedMap(cluster')[r] # None
  BY <1>4 DEF ShownSet, WantedMap
<1> HIDE DEF v
<1> QED
  BY <1>2, <1>4, <1>6, <1>7, <1>8, MirrorView DEF M!Change

(* A version is taken up that is none before what was. *)
LEMMA MirrorTakes ==
    ASSUME TypeOK, OrderInv, NEW t \in Tasks, NEW it \in Item, Takes(t, it), UNCHANGED rev
    PROVE  M!Take(it.res)
<1>1. /\ it \in Announced(t) /\ it.res \in Res /\ UNCHANGED <<cluster, files>>
      /\ taken' = [taken EXCEPT ![it.res] = it.rv]
  BY DEF Takes, volume, Item
<1>2. it \in Sources(t)
  BY <1>1 DEF Announced, Sources, Listed, Queued
<1>3. taken[it.res] <= it.rv /\ it.rv <= rev
  BY <1>2 DEF OrderInv, SourceInv
<1>4. taken[it.res] \in Int /\ rev \in Int /\ it.rv \in Int
  BY <1>1, ApiAssumption DEF TypeOK, Item
<1>5. it.rv \in taken[it.res]..rev
  BY <1>3, <1>4
<1>6. /\ WantedMap(cluster') = WantedMap(cluster)
      /\ ShownSet(cluster', files') = ShownSet(cluster, files)
  BY <1>1
<1> QED
  BY <1>1, <1>5, <1>6, MirrorView DEF M!Take

(* A file of an object whose current version was taken up stays right. *)
LEMMA TouchesRight ==
    ASSUME TypeOK, ScopeInv, FolderInv, ShapeInv, DiskInv, ShownInv, Tame, FilesKept,
           NEW t \in Tasks, NEW op \in task[t].ops, Touches(t, op),
           WantedOf(cluster, op.res), taken[op.res] = cluster[op.res].rv,
           ShownOf(cluster, files, op.res)
    PROVE  ShownOf(cluster, files', op.res)
<1> DEFINE r == op.res
           slot == Slot(op.path, r, op.key)
<1>1. /\ op \in Op /\ r \in Res /\ op.key \in Keys /\ op.path \in Paths \ {NoPath}
      /\ Serves(t, r) /\ Has(r, op.key)
  BY OpOwners DEF ShapeInv
<1>2. /\ \A s \in Slots : s # slot => files'[s] = files[s]
      /\ op.put # None => files'[slot] = Expected(op.key, op.put)
  BY TouchEffect DEF FilesKept
<1>3. cluster[r] # None /\ cluster[r] \in Item /\ cluster[r].res = r
  BY <1>1 DEF WantedOf, TypeOK, ScopeInv, ClusterNamed
<1>4. WantedBy(t, cluster[r])
  BY <1>1, <1>3, OneWatcherAssumption DEF WantedOf, NamedOnes, IfLabelled, WantedBy
<1>5. Stored(r)
  BY <1>1, <1>3, <1>4 DEF ShownInv, Stored
<1>6. /\ object[MapKey(r)] = CachedItem(cluster[r])
      /\ dest[MapKey(r)] = get_destination_folder(cluster[r].ann)
      /\ op.put # None => /\ cluster[r].data[op.key] # None
                          /\ op.put = cluster[r].data[op.key].val
  BY <1>1, <1>5 DEF ShownInv
<1>7. dest[MapKey(r)] \in Paths \ {NoPath}
  BY <1>3, <1>6, DestinationType, DestinationKnown DEF Item
<1>8. ASSUME NEW k \in Keys, cluster[r].data[k] # None
      PROVE  files'[Slot(dest[MapKey(r)], r, k)] = Expected(k, cluster[r].data[k].val)
  <2> DEFINE s == Slot(dest[MapKey(r)], r, k)
  <2>1. s \in Slots
    BY <1>1, <1>7, SlotType
  <2>2. files[s] = Expected(k, cluster[r].data[k].val)
    BY <1>6, <1>8 DEF ShownOf
  <2>3. SectionsOf(cluster[r])[k] # None
    <3>1. cluster[r].data[k] \in Entry
      BY <1>3, <1>8 DEF Item
    <3> QED
      BY <1>8, <3>1, NoneAssumption DEF SectionsOf, Entry
  <2>4. Has(r, k)
    BY <1>1, <1>3, <2>3, ShapedHas DEF ShapeInv
  <2>5. CachedItem(cluster[r]).sec = SectionsOf(cluster[r])
    BY DEF CachedItem
  <2>6. object[MapKey(r)] # None /\ object[MapKey(r)].sec[k] # None
    BY <1>5, <1>6, <2>3, <2>5 DEF Stored
  <2>7. CASE s # slot
    BY <1>2, <2>1, <2>2, <2>7
  <2>8. CASE s = slot
    <3>1. dest[MapKey(r)] = op.path /\ k = op.key
      BY <1>1, <1>7, <2>4, <2>8 DEF Tame, SlotsApart
    <3>2. op.put # None
      BY <1>1, <2>6, <3>1 DEF DiskInv
    <3> QED
      BY <1>2, <1>6, <2>8, <3>1, <3>2
  <2> QED
    BY <2>7, <2>8
<1> QED
  BY <1>6, <1>8 DEF ShownOf

(* A file changes: it is of one object, it may be the last one to be made      *)
(* right, and it is not spoiled for an older version.                          *)
LEMMA MirrorTouches ==
    ASSUME TypeOK, ScopeInv, FolderInv, ShapeInv, DiskInv, ShownInv, Tame, FilesKept,
           NEW t \in Tasks, NEW op \in task[t].ops, Touches(t, op), UNCHANGED rev
    PROVE  \/ UNCHANGED M!vars
           \/ M!Show(op.res) \/ M!Spoil(op.res)
<1> DEFINE r == op.res
           slot == Slot(op.path, r, op.key)
<1>1. /\ op \in Op /\ r \in Res /\ op.key \in Keys /\ op.path \in Paths \ {NoPath}
      /\ Has(r, op.key)
  BY OpOwners DEF ShapeInv
<1>2. /\ \A s \in Slots : s # slot => files'[s] = files[s]
      /\ UNCHANGED <<taken, cluster>>
  BY TouchEffect DEF FilesKept
<1>3. ASSUME NEW q \in Res, q # r, WantedOf(cluster, q)
      PROVE  ShownOf(cluster, files', q) <=> ShownOf(cluster, files, q)
  <2>1. cluster[q] # None /\ cluster[q] \in Item
    BY <1>3 DEF WantedOf, TypeOK
  <2>2. get_destination_folder(cluster[q].ann) \in Paths \ {NoPath}
    BY <2>1, DestinationType, DestinationKnown DEF Item
  <2>3. ASSUME NEW k \in Keys, cluster[q].data[k] # None
        PROVE  files'[Slot(get_destination_folder(cluster[q].ann), q, k)]
                 = files[Slot(get_destination_folder(cluster[q].ann), q, k)]
    <3>1. cluster[q].data[k] \in Entry
      BY <2>1, <2>3 DEF Item
    <3>2. SectionsOf(cluster[q])[k] # None
      BY <2>3, <3>1, NoneAssumption DEF SectionsOf, Entry
    <3>3. Has(q, k)
      BY <2>1, <3>2, ShapedHas DEF ShapeInv
    <3>4. Slot(get_destination_folder(cluster[q].ann), q, k) # slot
      BY <1>1, <1>3, <2>2, <3>3 DEF Tame, SlotsApart
    <3> QED
      BY <1>2, <2>2, <3>4, SlotType
  <2> QED
    BY <2>3 DEF ShownOf
<1>4. /\ WantedMap(cluster') = WantedMap(cluster)
      /\ ShownSet(cluster', files') = ShownSet(cluster, files')
  BY <1>2
<1>5. ShownSet(cluster, files') \ {r} = ShownSet(cluster, files) \ {r}
  BY <1>3 DEF ShownSet
<1>6. ShownSet(cluster, files') \subseteq Res /\ ShownSet(cluster, files) \subseteq Res
  BY DEF ShownSet
<1>7. CASE (r \in ShownSet(cluster, files')) = (r \in ShownSet(cluster, files))
  <2>1. ShownSet(cluster, files') = ShownSet(cluster, files)
    BY <1>5, <1>7
  <2> QED
    BY <1>2, <1>4, <2>1, MirrorView DEF M!vars
<1>8. CASE r \in ShownSet(cluster, files') /\ r \notin ShownSet(cluster, files)
  <2>1. ShownSet(cluster, files') = ShownSet(cluster, files) \union {r}
    BY <1>5, <1>8
  <2>2. WantedMap(cluster)[r] # None
    BY <1>1, <1>8, WantedVersion DEF ShownSet, WantedMap, VersionOf
  <2> QED
    BY <1>2, <1>4, <2>1, <2>2, MirrorView DEF M!Show
<1>9. CASE r \notin ShownSet(cluster, files') /\ r \in ShownSet(cluster, files)
  <2>1. ShownSet(cluster, files') = ShownSet(cluster, files) \ {r}
    BY <1>5, <1>9
  <2>2. WantedOf(cluster, r) /\ ShownOf(cluster, files, r) /\ ~ShownOf(cluster, files', r)
    BY <1>9 DEF ShownSet
  <2>3. taken[r] # cluster[r].rv
    BY <2>2, TouchesRight
  <2>4. WantedMap(cluster)[r] = cluster[r].rv
    BY <1>1, <2>2 DEF WantedMap, VersionOf
  <2> QED
    BY <1>2, <1>4, <2>1, <2>3, <2>4, MirrorView DEF M!Spoil
<1> QED
  BY <1>7, <1>8, <1>9

(* Every step of the sidecar is one of Mirror, or none that Mirror sees. *)
LEMMA MirrorStep ==
    ASSUME TypeOK, ScopeInv, FolderInv, LocalInv, OrderInv, CacheInv, ShapeInv, DiskInv, ShownInv,
           [Next]_vars, Tame, FilesKept
    PROVE  [M!Next]_(M!vars)
<1>1. CASE User
  BY <1>1, MirrorUser DEF M!Next
<1>2. CASE (Passive \/ Ends) /\ ~User
  <2>1. UNCHANGED <<cluster, rev, taken, files>>
    BY <1>2, ClusterKept, RevKept DEF Passive, Ends, Exit, volume
  <2> QED
    BY <2>1, MirrorStutter
<1>3. ASSUME NEW t \in Tasks, NEW it \in Item, Takes(t, it), ~User PROVE M!Next
  <2>1. M!Take(it.res)
    BY <1>3, RevKept, MirrorTakes
  <2> QED
    BY <2>1 DEF M!Next, Item
<1>4. ASSUME NEW t \in Tasks, NEW c \in Cached, Drops(t, c), ~User PROVE UNCHANGED M!vars
  <2>1. UNCHANGED <<cluster, rev, taken, files>>
    BY <1>4, RevKept DEF Drops, volume
  <2> QED
    BY <2>1, MirrorStutter
<1>5. ASSUME NEW t \in Tasks, NEW op \in task[t].ops, Touches(t, op), ~User
      PROVE  UNCHANGED M!vars \/ M!Next
  <2>1. op.res \in Res /\ UNCHANGED rev
    BY <1>5, OpOwners, RevKept
  <2> QED
    BY <1>5, <2>1, MirrorTouches DEF M!Next
<1> QED
  BY <1>1, <1>2, <1>3, <1>4, <1>5, StepKinds

(* In a tame deployment, and unless files or fetches fail, the sidecar keeps   *)
(* the promise of Mirror: versions never go back, no object disturbs another,  *)
(* and what is right for the current version stays right.                      *)
THEOREM ImplementsMirrorCorrect == ASSUME Tame, FilesKept PROVE Spec => ImplementsMirror
<1>1. Init => M!Init
  BY MirrorInit
<1>2. TypeOK /\ ScopeInv /\ FolderInv /\ LocalInv /\ OrderInv /\ FilesInv /\ [Next]_vars
        => [M!Next]_(M!vars)
  BY MirrorStep DEF FilesInv
<1> QED
  BY <1>1, <1>2, FilesCorrect, TypeCorrect, ScopeCorrect, FolderCorrect, LocalCorrect,
     OrderCorrect, PTL DEF Spec, ImplementsMirror, M!Spec
=============================================================================

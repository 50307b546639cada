---------------------------- MODULE ScopeProofs ----------------------------
(***************************************************************************)
(* No task works on an object of another's kind or namespace: ScopeInv is  *)
(* inductive, and with it a file changes only by the hand of a task that   *)
(* serves the object the file is for.  FolderInv is inductive too: no file *)
(* operation is ever done in the empty folder.                             *)
(***************************************************************************)
EXTENDS SyncProofs

(* Everything a task holds is of its own scope. *)
HoldsOwn(t, local) ==
    /\ \A it \in local.pages : Serves(t, it.res)
    /\ \A it \in local.items : Serves(t, it.res)
    /\ \A c \in local.stale : Serves(t, c.res)
    /\ \A op \in local.ops : Serves(t, op.res)

TasksInScope == \A t \in Tasks : HoldsOwn(t, task[t])

(* ScopeInv in terms of HoldsOwn. *)
LEMMA ScopeParts ==
    ScopeInv <=> ClusterNamed /\ StreamInScope /\ ObjectKeyed /\ TasksInScope
BY DEF ScopeInv, PagesInScope, InScope, TasksInScope, HoldsOwn

(* A task that holds nothing is in scope. *)
LEMMA RestingScope ==
    \A t, u, local : /\ HoldsOwn(u, Fresh)
                     /\ HoldsOwn(u, Resting(t, local))
                     /\ HoldsOwn(u, Notify(t, local))
BY DEF HoldsOwn, Fresh, Resting, Notify

(* One task's new state does not take the others out of scope. *)
LEMMA UpdateScope ==
    ASSUME TypeOK, TasksInScope, NEW t \in Tasks, NEW local, HoldsOwn(t, local),
           task' = [task EXCEPT ![t] = local]
    PROVE  TasksInScope'
<1>1. \A u \in Tasks : task'[u] = IF u = t THEN local ELSE task[u]
  BY DEF TypeOK
<1>2. \A u \in Tasks : HoldsOwn(u, task'[u])
  BY <1>1 DEF TasksInScope
<1> QED
  BY <1>2 DEF TasksInScope, HoldsOwn

(* The objects of the API a task gets to see are those it serves. *)
LEMMA SelectedScope ==
    ASSUME ClusterNamed, NEW t \in Tasks
    PROVE  /\ \A it \in Selected(t) : Serves(t, it.res)
           /\ \A n : \A it \in Named(t, n) : Serves(t, it.res)
BY DEF ClusterNamed, Selected, Named

(* process_resource of a stored object: the map entry it replaces is its own. *)
LEMMA StoreScope ==
    ASSUME TypeOK, ObjectKeyed, TasksInScope, NEW t \in Tasks, NEW local \in Task,
           HoldsOwn(t, local), NEW item \in Item, Serves(t, item.res), NEW to,
           Store(t, local, item, to)
    PROVE  ObjectKeyed' /\ TasksInScope'
<1> DEFINE m == MapKey(item.res)
           new == CachedItem(item)
           old == IF object[m] # None THEN object[m] ELSE new
           ops == Writes(item, to) \union Leftovers(old, new, OldDest(m, to), to)
<1>1. item.res \in Res /\ m \in MapKeys
  BY MapKeyType DEF Item
<1>2. new.res = item.res
  BY DEF CachedItem
<1>3. old.res = item.res
  <2>1. CASE object[m] # None
    <3>1. object[m].res \in Res /\ MapKey(object[m].res) = MapKey(item.res)
      BY <1>1, <2>1 DEF TypeOK, Cached, ObjectKeyed
    <3> QED
      BY <1>1, <2>1, <3>1, WellFormedAssumption
  <2>2. CASE object[m] = None
    BY <1>2, <2>2
  <2> QED
    BY <2>1, <2>2
<1>4. \A op \in ops : op.res = item.res
  BY <1>3 DEF Writes, Leftovers
<1>5. /\ object' = [object EXCEPT ![m] = new]
      /\ task' = [task EXCEPT ![t] = [local EXCEPT !.pc = "file", !.ops = ops]]
  BY DEF Store
<1>6. m = MapKey(item.res)
  OBVIOUS
<1> HIDE DEF m, new, old, ops
<1>7. ObjectKeyed'
  BY <1>1, <1>2, <1>5, <1>6 DEF ObjectKeyed, TypeOK
<1>8. HoldsOwn(t, [local EXCEPT !.pc = "file", !.ops = ops])
  BY <1>4 DEF HoldsOwn, Task
<1> QED
  BY <1>5, <1>7, <1>8, UpdateScope

(* process_resource of an object that is gone. *)
LEMMA ForgetScope ==
    ASSUME TypeOK, ObjectKeyed, TasksInScope, NEW t \in Tasks, NEW local \in Task,
           HoldsOwn(t, local), NEW gone \in Cached, Serves(t, gone.res), NEW to,
           Forget(t, local, gone, to)
    PROVE  ObjectKeyed' /\ TasksInScope'
<1> DEFINE m == MapKey(gone.res)
           ops == Removals(gone, OldDest(m, to))
<1>1. m \in MapKeys
  BY MapKeyType DEF Cached
<1>2. \A op \in ops : op.res = gone.res
  BY DEF Removals
<1>3. /\ object' = [object EXCEPT ![m] = None]
      /\ task' = [task EXCEPT ![t] = [local EXCEPT !.pc = "file", !.ops = ops]]
  BY DEF Forget
<1> HIDE DEF m, ops
<1>4. ObjectKeyed'
  BY <1>1, <1>3 DEF ObjectKeyed, TypeOK
<1>5. HoldsOwn(t, [local EXCEPT !.pc = "file", !.ops = ops])
  BY <1>2 DEF HoldsOwn, Task
<1> QED
  BY <1>3, <1>4, <1>5, UpdateScope

(* The stale sweep takes only entries of the task's kind and namespace. *)
LEMMA StaleScope ==
    ASSUME TypeOK, ObjectKeyed, NEW t \in Tasks
    PROVE  \A c \in Stale(t) : Serves(t, c.res)
<1> SUFFICES ASSUME NEW m \in MapKeys, object[m] # None, m[1] = TaskKind[t],
                    TaskNs[t] \in {"ALL", NsOf[object[m].res]}
             PROVE  Serves(t, object[m].res)
  BY DEF Stale
<1>1. MapKey(object[m].res) = m
  BY DEF ObjectKeyed
<1> QED
  BY <1>1 DEF MapKey, Serves

(* What a stream still holds is of the task's scope. *)
OwnStream(t, s) == /\ \A it \in s.backlog : Serves(t, it.res)
                   /\ \A i \in 1..Len(s.queue) : Serves(t, s.queue[i].item.res)

(* StreamInScope, one stream at a time. *)
LEMMA StreamParts == StreamInScope <=> \A t \in Tasks : OwnStream(t, stream[t])
BY DEF StreamInScope, OwnStream

(* An event goes only to the watchers that serve its object. *)
LEMMA BroadcastScope ==
    ASSUME TypeOK, StreamInScope, NEW r \in Res, NEW ev \in Event, ev.item.res = r,
           Broadcast(r, ev)
    PROVE  StreamInScope'
<1>1. ASSUME NEW t \in Tasks, Serves(t, r)
      PROVE  OwnStream(t, [stream[t] EXCEPT !.queue = Append(@, ev)])
  <2>1. stream[t] \in Stream /\ stream[t].queue \in Seq(Event) /\ OwnStream(t, stream[t])
    BY StreamParts DEF TypeOK, Stream
  <2>2. /\ [stream[t] EXCEPT !.queue = Append(@, ev)].backlog = stream[t].backlog
        /\ [stream[t] EXCEPT !.queue = Append(@, ev)].queue = Append(stream[t].queue, ev)
    BY <2>1 DEF Stream
  <2>3. \A i \in 1..Len(Append(stream[t].queue, ev)) :
           Serves(t, Append(stream[t].queue, ev)[i].item.res)
    <3>1. SUFFICES ASSUME NEW i \in 1..Len(Append(stream[t].queue, ev))
                   PROVE  Serves(t, Append(stream[t].queue, ev)[i].item.res)
      OBVIOUS
    <3>2. \/ i \in 1..Len(stream[t].queue) /\ Append(stream[t].queue, ev)[i] = stream[t].queue[i]
          \/ Append(stream[t].queue, ev)[i] = ev
      BY <2>1
    <3> QED
      BY <1>1, <2>1, <3>2 DEF OwnStream
  <2> QED
    BY <2>1, <2>2, <2>3 DEF OwnStream
<1>2. \A t \in Tasks : stream'[t] = IF stream[t].live /\ Serves(t, r)
                                    THEN [stream[t] EXCEPT !.queue = Append(@, ev)]
                                    ELSE stream[t]
  BY DEF Broadcast
<1>3. \A t \in Tasks : OwnStream(t, stream'[t])
  BY <1>1, <1>2, StreamParts
<1> QED
  BY <1>3 DEF StreamInScope, OwnStream

(* Reading a stream yields an object of the task's scope, and leaves such. *)
LEMMA DeliveryScope ==
    ASSUME TypeOK, StreamInScope, NEW t \in Tasks, NEW d \in Delivery(t)
    PROVE  Serves(t, d[1].item.res) /\ OwnStream(t, d[2])
<1>1. stream[t] \in Stream /\ stream[t].queue \in Seq(Event) /\ OwnStream(t, stream[t])
  BY StreamParts DEF TypeOK, Stream
<1>2. CASE \E it \in stream[t].backlog :
             d = <<[gone |-> FALSE, item |-> it], [stream[t] EXCEPT !.backlog = @ \ {it}]>>
  BY <1>1, <1>2 DEF OwnStream, Stream
<1>3. CASE /\ stream[t].queue # <<>>
           /\ d = <<Head(stream[t].queue), [stream[t] EXCEPT !.queue = Tail(@)]>>
  <2>1. /\ Head(stream[t].queue) = stream[t].queue[1]
        /\ 1 \in 1..Len(stream[t].queue)
    BY <1>1, <1>3
  <2>2. \A i \in 1..Len(Tail(stream[t].queue)) :
           /\ Tail(stream[t].queue)[i] = stream[t].queue[i+1]
           /\ i + 1 \in 1..Len(stream[t].queue)
    BY <1>1, <1>3
  <2>3. /\ d[2].backlog = stream[t].backlog
        /\ d[2].queue = Tail(stream[t].queue)
        /\ d[1] = Head(stream[t].queue)
    BY <1>1, <1>3 DEF Stream
  <2> QED
    BY <1>1, <2>1, <2>2, <2>3 DEF OwnStream
<1> QED
  BY <1>2, <1>3 DEF Delivery

(* A process that ended holds nothing. *)
LEMMA ExitScope ==
    ASSUME ScopeInv, NEW status, Exit(status)
    PROVE  ScopeInv'
<1>1. \A t \in Tasks : task'[t] = Fresh /\ stream'[t] = NoStream
  BY DEF Exit
<1>2. \A m \in MapKeys : object'[m] = None
  BY DEF Exit
<1>3. ClusterNamed'
  BY DEF Exit, ScopeInv, ClusterNamed
<1>4. StreamInScope'
  BY <1>1 DEF StreamInScope, NoStream
<1> QED
  BY <1>1, <1>2, <1>3, <1>4 DEF ScopeInv, ObjectKeyed, PagesInScope, InScope, Fresh

(* An error of a pass leaves its task with nothing. *)
LEMMA ThrowScope ==
    ASSUME TypeOK, ScopeInv, NEW t \in Tasks, NEW pc, Throw(t, pc)
    PROVE  ScopeInv'
<1>1. CASE proc = "boot"
  BY <1>1, ExitScope DEF Throw
<1>2. CASE proc # "boot"
  <2>1. /\ task' = [task EXCEPT ![t] = [Fresh EXCEPT !.pc = pc]]
        /\ stream' = [stream EXCEPT ![t] = NoStream]
        /\ UNCHANGED <<cluster, object>>
    BY <1>2 DEF Throw, maps
  <2>2. HoldsOwn(t, [Fresh EXCEPT !.pc = pc])
    BY DEF HoldsOwn, Fresh
  <2>3. TasksInScope'
    BY <2>1, <2>2, ScopeParts, UpdateScope
  <2>4. StreamInScope'
    BY <2>1 DEF TypeOK, ScopeInv, StreamInScope, NoStream
  <2>5. ClusterNamed' /\ ObjectKeyed'
    BY <2>1 DEF ScopeInv, ClusterNamed, ObjectKeyed
  <2> QED
    BY <2>3, <2>4, <2>5 DEF ScopeInv, PagesInScope, InScope, TasksInScope, HoldsOwn
<1> QED
  BY <1>1, <1>2
-----------------------------------------------------------------------------
(* ScopeInv, one action at a time *)

(* A step that changes only a task's own state. *)
LEMMA LocalScope ==
    ASSUME TypeOK, ScopeInv, NEW t \in Tasks, NEW local, HoldsOwn(t, local),
           task' = [task EXCEPT ![t] = local], UNCHANGED <<cluster, stream, object>>
    PROVE  ScopeInv'
<1>1. TasksInScope'
  BY ScopeParts, UpdateScope
<1>2. ClusterNamed' /\ StreamInScope' /\ ObjectKeyed'
  BY DEF ScopeInv, ClusterNamed, StreamInScope, ObjectKeyed
<1> QED
  BY <1>1, <1>2 DEF ScopeInv, PagesInScope, InScope, TasksInScope, HoldsOwn

(* A step of a task that calls process_resource. *)
LEMMA ProcessScope ==
    ASSUME ScopeInv, ObjectKeyed', TasksInScope', UNCHANGED cluster, StreamInScope'
    PROVE  ScopeInv'
BY DEF ScopeInv, ClusterNamed, PagesInScope, InScope, TasksInScope, HoldsOwn

(* The calls a listing makes gather objects of the task's scope only. *)
LEMMA ScopeList ==
    ASSUME TypeOK, ScopeInv, NEW t \in Tasks,
           BeginList(t) \/ ReadNamed(t) \/ ListPage(t) \/ BeginStale(t) \/ EndList(t)
    PROVE  ScopeInv'
<1>1. task[t] \in Task /\ HoldsOwn(t, task[t])
  BY ScopeParts DEF TypeOK, TasksInScope
<1>2. ClusterNamed /\ ObjectKeyed
  BY DEF ScopeInv
<1>3. CASE BeginList(t)
  <2>1. /\ HoldsOwn(t, [Fresh EXCEPT !.pc = "names", !.names = Chosen(t)])
        /\ HoldsOwn(t, [Fresh EXCEPT !.pc = "page", !.pages = Selected(t)])
    BY <1>2, SelectedScope DEF HoldsOwn, Fresh
  <2>2. PICK local \in {[Fresh EXCEPT !.pc = "names", !.names = Chosen(t)],
                        [Fresh EXCEPT !.pc = "page", !.pages = Selected(t)]} :
          task' = [task EXCEPT ![t] = local]
    BY <1>3 DEF BeginList
  <2>3. HoldsOwn(t, local)
    BY <2>1, <2>2
  <2> QED
    BY <1>3, <2>2, <2>3, LocalScope DEF BeginList, maps
<1>4. CASE ReadNamed(t)
  <2>1. PICK n \in task[t].names :
          task' = [task EXCEPT ![t] = Gathered([task[t] EXCEPT !.names = @ \ {n}],
                                               task[t].items \union Named(t, n))]
    BY <1>4 DEF ReadNamed
  <2>2. \A it \in task[t].items \union Named(t, n) : Serves(t, it.res)
    BY <1>1, <1>2, SelectedScope DEF HoldsOwn
  <2>3. HoldsOwn(t, Gathered([task[t] EXCEPT !.names = @ \ {n}],
                             task[t].items \union Named(t, n)))
    BY <1>1, <2>2 DEF HoldsOwn, Gathered, Task
  <2> QED
    BY <1>4, <2>1, <2>3, LocalScope DEF ReadNamed, maps
<1>5. CASE ListPage(t)
  <2>1. PICK page \in SUBSET task[t].pages :
          task' = [task EXCEPT ![t] = Gathered([task[t] EXCEPT !.pages = @ \ page],
                                               task[t].items \union page)]
    BY <1>5 DEF ListPage
  <2>2. HoldsOwn(t, Gathered([task[t] EXCEPT !.pages = @ \ page],
                             task[t].items \union page))
    BY <1>1 DEF HoldsOwn, Gathered, Task
  <2> QED
    BY <1>5, <2>1, <2>2, LocalScope DEF ListPage, maps
<1>6. CASE BeginStale(t)
  <2>1. task' = [task EXCEPT ![t] = [task[t] EXCEPT !.pc = "stale", !.via = "stale",
                                            !.stale = Stale(t), !.exist = {}]]
    BY <1>6 DEF BeginStale, TypeOK
  <2>2. HoldsOwn(t, [task[t] EXCEPT !.pc = "stale", !.via = "stale",
                                    !.stale = Stale(t), !.exist = {}])
    BY <1>1, <1>2, StaleScope DEF HoldsOwn, Task
  <2> QED
    BY <1>6, <2>1, <2>2, LocalScope DEF BeginStale, maps
<1>7. CASE EndList(t)
  <2>1. HoldsOwn(t, Notify(t, task[t]))
    BY RestingScope
  <2> QED
    BY <1>7, <2>1, LocalScope DEF EndList, maps
<1> QED
  BY <1>3, <1>4, <1>5, <1>6, <1>7

(* The processing of the listed objects and the stale sweep stay in scope. *)
LEMMA ScopeItem ==
    ASSUME TypeOK, ScopeInv, NEW t \in Tasks, ListItem(t) \/ RemoveStale(t)
    PROVE  ScopeInv'
<1>1. task[t] \in Task /\ HoldsOwn(t, task[t])
  BY ScopeParts DEF TypeOK, TasksInScope
<1>2. ObjectKeyed /\ TasksInScope /\ StreamInScope
  BY ScopeParts
<1>3. CASE ListItem(t)
  <2>1. PICK it \in task[t].items :
         \/ /\ task' = [task EXCEPT ![t] = [task[t] EXCEPT !.items = @ \ {it}, !.via = "list"]]
            /\ UNCHANGED maps
         \/ Store(t, [task[t] EXCEPT !.items = @ \ {it}, !.via = "list"], it,
                  get_destination_folder(it.ann))
    BY <1>3 DEF ListItem
  <2> DEFINE rest == [task[t] EXCEPT !.items = @ \ {it}, !.via = "list"]
  <2>2. rest \in Task /\ HoldsOwn(t, rest) /\ it \in Item /\ Serves(t, it.res)
    BY <1>1 DEF Task, HoldsOwn
  <2>3. UNCHANGED <<cluster, stream>>
    BY <1>3 DEF ListItem
  <2> HIDE DEF rest
  <2>4. CASE task' = [task EXCEPT ![t] = rest] /\ UNCHANGED maps
    BY <2>2, <2>3, <2>4, LocalScope DEF maps
  <2>5. CASE Store(t, rest, it, get_destination_folder(it.ann))
    <3>1. ObjectKeyed' /\ TasksInScope'
      BY <1>2, <2>2, <2>5, StoreScope
    <3>2. StreamInScope'
      BY <1>2, <2>3 DEF StreamInScope
    <3> QED
      BY <2>3, <3>1, <3>2, ProcessScope
  <2> QED
    BY <2>1, <2>4, <2>5 DEF rest
<1>4. CASE RemoveStale(t)
  <2>1. PICK c \in task[t].stale : Forget(t, [task[t] EXCEPT !.stale = @ \ {c}], c, NoPath)
    BY <1>4 DEF RemoveStale
  <2>2. /\ [task[t] EXCEPT !.stale = @ \ {c}] \in Task
        /\ HoldsOwn(t, [task[t] EXCEPT !.stale = @ \ {c}])
        /\ c \in Cached /\ Serves(t, c.res)
    BY <1>1 DEF Task, HoldsOwn
  <2>3. ObjectKeyed' /\ TasksInScope'
    BY <1>2, <2>1, <2>2, ForgetScope
  <2>4. UNCHANGED <<cluster, stream>>
    BY <1>4 DEF RemoveStale
  <2>5. StreamInScope'
    BY <1>2, <2>4 DEF StreamInScope
  <2> QED
    BY <2>3, <2>4, <2>5, ProcessScope
<1> QED
  BY <1>3, <1>4

(* A file operation leaves the task with fewer operations of the same scope. *)
LEMMA PerformScope ==
    ASSUME TypeOK, ScopeInv, NEW t \in Tasks, NEW op, NEW data, NEW fails,
           Perform(t, op, data, fails), UNCHANGED <<cluster, stream, object>>
    PROVE  ScopeInv'
<1>1. task[t] \in Task /\ HoldsOwn(t, task[t])
  BY ScopeParts DEF TypeOK, TasksInScope
<1>2. PICK changed :
        task' = [task EXCEPT ![t].pc = "file", ![t].ops = @ \ {op}, ![t].changed = changed]
  BY DEF Perform
<1>3. task' = [task EXCEPT ![t] = [task[t] EXCEPT !.pc = "file", !.ops = @ \ {op},
                                                  !.changed = changed]]
  BY <1>2 DEF TypeOK
<1>4. HoldsOwn(t, [task[t] EXCEPT !.pc = "file", !.ops = @ \ {op}, !.changed = changed])
  BY <1>1 DEF HoldsOwn, Task
<1> QED
  BY <1>3, <1>4, LocalScope

(* The calls of update_file stay in scope. *)
LEMMA ScopeFile ==
    ASSUME TypeOK, ScopeInv, NEW t \in Tasks,
           UpdateFile(t) \/ FetchUrl(t) \/ UpdateFetched(t) \/ FinishItem(t)
    PROVE  ScopeInv'
<1>1. task[t] \in Task /\ HoldsOwn(t, task[t])
  BY ScopeParts DEF TypeOK, TasksInScope
<1>2. CASE UpdateFile(t)
  BY <1>2, PerformScope DEF UpdateFile, maps
<1>3. CASE FetchUrl(t)
  <2>1. task' = [task EXCEPT ![t] = [task[t] EXCEPT !.pc = "fetch"]]
    BY <1>3 DEF FetchUrl, TypeOK
  <2>2. HoldsOwn(t, [task[t] EXCEPT !.pc = "fetch"])
    BY <1>1 DEF HoldsOwn, Task
  <2> QED
    BY <1>3, <2>1, <2>2, LocalScope DEF FetchUrl, maps
<1>4. CASE UpdateFetched(t)
  BY <1>4, PerformScope DEF UpdateFetched, maps
<1>5. CASE FinishItem(t)
  <2>1. task[t].via \in {"list", "stale", "event"}
    BY <1>1 DEF Task
  <2>2. PICK local \in {[task[t] EXCEPT !.pc = "items"], [task[t] EXCEPT !.pc = "stale"],
                        Notify(t, task[t])} :
           task' = [task EXCEPT ![t] = local]
    BY <1>5, <2>1 DEF FinishItem
  <2>3. /\ HoldsOwn(t, [task[t] EXCEPT !.pc = "items"])
        /\ HoldsOwn(t, [task[t] EXCEPT !.pc = "stale"])
        /\ HoldsOwn(t, Notify(t, task[t]))
    BY <1>1, RestingScope DEF HoldsOwn, Task
  <2> QED
    BY <1>5, <2>2, <2>3, LocalScope DEF FinishItem, maps
<1> QED
  BY <1>2, <1>3, <1>4, <1>5

(* The hooks and the failures stay in scope. *)
LEMMA ScopeHook ==
    ASSUME TypeOK, ScopeInv, NEW t \in Tasks,
           RunScript(t) \/ SendRequest(t) \/ Wake(t) \/ ScriptFails(t) \/ ApiFails(t)
    PROVE  ScopeInv'
<1>1. task[t] \in Task /\ HoldsOwn(t, task[t])
  BY ScopeParts DEF TypeOK, TasksInScope
<1>2. /\ HoldsOwn(t, [task[t] EXCEPT !.pc = "request"])
      /\ HoldsOwn(t, [task[t] EXCEPT !.pc = "loop"])
      /\ HoldsOwn(t, Resting(t, task[t]))
  BY <1>1, RestingScope DEF HoldsOwn, Task
<1>3. CASE RunScript(t) \/ SendRequest(t)
  <2>1. PICK local \in {[task[t] EXCEPT !.pc = "request"], Resting(t, task[t])} :
           task' = [task EXCEPT ![t] = local]
    BY <1>3 DEF RunScript, SendRequest
  <2> QED
    BY <1>2, <1>3, <2>1, LocalScope DEF RunScript, SendRequest, maps
<1>4. CASE Wake(t)
  <2>1. task' = [task EXCEPT ![t] = [task[t] EXCEPT !.pc = "loop"]]
    BY <1>4 DEF Wake, TypeOK
  <2> QED
    BY <1>2, <1>4, <2>1, LocalScope DEF Wake, maps
<1>5. CASE ScriptFails(t)
  BY <1>5, ThrowScope DEF ScriptFails
<1>6. CASE ApiFails(t)
  BY <1>6, ThrowScope DEF ApiFails
<1> QED
  BY <1>3, <1>4, <1>5, <1>6

(* The watch loop stays in scope. *)
LEMMA ScopeWatch ==
    ASSUME TypeOK, ScopeInv, NEW t \in Tasks,
           Connect(t) \/ HandleEvent(t) \/ StreamEnds(t) \/ Close(t)
    PROVE  ScopeInv'
<1>1. task[t] \in Task /\ HoldsOwn(t, task[t])
  BY ScopeParts DEF TypeOK, TasksInScope
<1>2. ClusterNamed /\ ObjectKeyed /\ TasksInScope /\ StreamInScope
  BY ScopeParts
<1>3. CASE Connect(t)
  <2>1. task' = [task EXCEPT ![t] = [task[t] EXCEPT !.pc = "watch"]]
    BY <1>3 DEF Connect, TypeOK
  <2>2. HoldsOwn(t, [task[t] EXCEPT !.pc = "watch"])
    BY <1>1 DEF HoldsOwn, Task
  <2>3. TasksInScope'
    BY <1>2, <2>1, <2>2, UpdateScope
  <2>4. OwnStream(t, OpenStream(t))
    BY <1>2, SelectedScope DEF OpenStream, OwnStream
  <2>5. \A u \in Tasks : OwnStream(u, stream'[u])
    BY <1>2, <1>3, <2>4, StreamParts DEF Connect, TypeOK
  <2>6. StreamInScope'
    BY <2>5 DEF StreamInScope, OwnStream
  <2>7. ObjectKeyed' /\ UNCHANGED cluster
    BY <1>2, <1>3 DEF Connect, ObjectKeyed, maps
  <2> QED
    BY <2>3, <2>6, <2>7, ProcessScope
<1>4. CASE StreamEnds(t)
  <2>1. task' = [task EXCEPT ![t] = [task[t] EXCEPT !.pc = "loop"]]
    BY <1>4 DEF StreamEnds, TypeOK
  <2>2. HoldsOwn(t, [task[t] EXCEPT !.pc = "loop"])
    BY <1>1 DEF HoldsOwn, Task
  <2> QED
    BY <1>4, <2>1, <2>2, LocalScope DEF StreamEnds, maps
<1>5. CASE Close(t)
  <2>1. stream' = [stream EXCEPT ![t] = [stream[t] EXCEPT !.live = FALSE]]
    BY <1>5 DEF Close, ServerClose, TypeOK
  <2>2. OwnStream(t, [stream[t] EXCEPT !.live = FALSE])
    BY <1>2, StreamParts DEF OwnStream, TypeOK
  <2>3. \A u \in Tasks : OwnStream(u, stream'[u])
    BY <1>2, <2>1, <2>2, StreamParts DEF TypeOK
  <2>4. StreamInScope'
    BY <2>3 DEF StreamInScope, OwnStream
  <2>5. UNCHANGED <<cluster, task, object>>
    BY <1>5 DEF Close, ServerClose, maps
  <2>6. ObjectKeyed' /\ TasksInScope'
    BY <1>2, <2>5 DEF ObjectKeyed, TasksInScope, HoldsOwn
  <2> QED
    BY <2>4, <2>5, <2>6, ProcessScope
<1>6. CASE HandleEvent(t)
  <2>1. PICK d \in Delivery(t) :
         /\ stream' = [stream EXCEPT ![t] = d[2]]
         /\ \/ UNCHANGED <<task, object, dest>>
            \/ Forget(t, [Fresh EXCEPT !.via = "event"], CachedItem(d[1].item),
                      get_destination_folder(d[1].item.ann))
            \/ Store(t, [Fresh EXCEPT !.via = "event"], d[1].item,
                     get_destination_folder(d[1].item.ann))
    BY <1>6 DEF HandleEvent
  <2>2. d[1].item \in Item /\ CachedItem(d[1].item) \in Cached
    BY DeliveryType, CachedType DEF Event
  <2>3. /\ Serves(t, d[1].item.res)
        /\ OwnStream(t, d[2])
        /\ Serves(t, CachedItem(d[1].item).res)
    BY <1>2, DeliveryScope DEF CachedItem
  <2>4. [Fresh EXCEPT !.via = "event"] \in Task /\ HoldsOwn(t, [Fresh EXCEPT !.via = "event"])
    BY FreshType DEF Task, HoldsOwn, Fresh
  <2>5. ObjectKeyed' /\ TasksInScope'
    <3>1. CASE UNCHANGED <<task, object, dest>>
      BY <1>2, <3>1 DEF ObjectKeyed, TasksInScope, HoldsOwn
    <3>2. CASE Forget(t, [Fresh EXCEPT !.via = "event"], CachedItem(d[1].item),
                      get_destination_folder(d[1].item.ann))
      BY <1>2, <2>2, <2>3, <2>4, <3>2, ForgetScope
    <3>3. CASE Store(t, [Fresh EXCEPT !.via = "event"], d[1].item,
                     get_destination_folder(d[1].item.ann))
      BY <1>2, <2>2, <2>3, <2>4, <3>3, StoreScope
    <3> QED
      BY <2>1, <3>1, <3>2, <3>3
  <2>6. \A u \in Tasks : OwnStream(u, stream'[u])
    BY <1>2, <2>1, <2>3, StreamParts DEF TypeOK
  <2>7. StreamInScope' /\ UNCHANGED cluster
    BY <1>6, <2>6 DEF StreamInScope, OwnStream, HandleEvent
  <2> QED
    BY <2>5, <2>7, ProcessScope
<1> QED
  BY <1>3, <1>4, <1>5, <1>6

(* A user's change reaches only the watchers that serve the object. *)
LEMMA ScopeUser ==
    ASSUME TypeOK, ScopeInv, User
    PROVE  ScopeInv'
<1>1. ClusterNamed /\ ObjectKeyed /\ TasksInScope /\ StreamInScope
  BY ScopeParts
<1>2. UNCHANGED <<task, object>>
  BY DEF User, maps
<1>3. ObjectKeyed' /\ TasksInScope'
  BY <1>1, <1>2 DEF ObjectKeyed, TasksInScope, HoldsOwn
<1>4. PICK r \in Res : Apply(r) \/ Delete(r)
  BY DEF User
<1>5. ClusterNamed' /\ StreamInScope'
  <2>1. CASE Apply(r)
    <3>1. PICK s \in Shapes[r] :
             /\ cluster' = [cluster EXCEPT ![r] = MakeItem(r, rev + 1, s)]
             /\ \/ Broadcast(r, [gone |-> FALSE, item |-> MakeItem(r, rev + 1, s)])
                \/ /\ cluster[r] # None
                   /\ Broadcast(r, [gone |-> TRUE, item |-> [cluster[r] EXCEPT !.rv = rev + 1]])
                \/ UNCHANGED stream
      BY <2>1 DEF Apply
    <3>2. rev + 1 \in 0..MaxRev /\ s \in Shape
      BY <2>1, ApiAssumption DEF Apply, TypeOK
    <3>3. MakeItem(r, rev + 1, s) \in Item /\ MakeItem(r, rev + 1, s).res = r
      BY <3>2 DEF MakeItem, Item, Shape
    <3>4. ClusterNamed'
      BY <1>1, <3>1, <3>3 DEF ClusterNamed, TypeOK
    <3>5. CASE Broadcast(r, [gone |-> FALSE, item |-> MakeItem(r, rev + 1, s)])
      <4>1. [gone |-> FALSE, item |-> MakeItem(r, rev + 1, s)] \in Event
        BY <3>3 DEF Event
      <4> QED
        BY <1>1, <3>3, <3>4, <3>5, <4>1, BroadcastScope
    <3>6. CASE /\ cluster[r] # None
               /\ Broadcast(r, [gone |-> TRUE, item |-> [cluster[r] EXCEPT !.rv = rev + 1]])
      <4>1. cluster[r] \in Item /\ cluster[r].res = r
        BY <1>1, <3>6 DEF TypeOK, ClusterNamed
      <4>2. /\ [cluster[r] EXCEPT !.rv = rev + 1] \in Item
            /\ [cluster[r] EXCEPT !.rv = rev + 1].res = r
        BY <3>2, <4>1 DEF Item
      <4>3. [gone |-> TRUE, item |-> [cluster[r] EXCEPT !.rv = rev + 1]] \in Event
        BY <4>2 DEF Event
      <4> QED
        BY <1>1, <3>4, <3>6, <4>2, <4>3, BroadcastScope
    <3>7. CASE UNCHANGED stream
      BY <1>1, <3>4, <3>7 DEF StreamInScope
    <3> QED
      BY <3>1, <3>5, <3>6, <3>7
  <2>2. CASE Delete(r)
    <3>1. /\ cluster[r] # None
          /\ cluster' = [cluster EXCEPT ![r] = None]
          /\ \/ Broadcast(r, [gone |-> TRUE, item |-> [cluster[r] EXCEPT !.rv = rev + 1]])
             \/ UNCHANGED stream
      BY <2>2 DEF Delete
    <3>2. rev + 1 \in 0..MaxRev
      BY <2>2, ApiAssumption DEF Delete, TypeOK
    <3>3. cluster[r] \in Item /\ cluster[r].res = r
      BY <1>1, <3>1 DEF TypeOK, ClusterNamed
    <3>4. /\ [cluster[r] EXCEPT !.rv = rev + 1] \in Item
          /\ [cluster[r] EXCEPT !.rv = rev + 1].res = r
      BY <3>2, <3>3 DEF Item
    <3>5. [gone |-> TRUE, item |-> [cluster[r] EXCEPT !.rv = rev + 1]] \in Event
      BY <3>4 DEF Event
    <3>6. ClusterNamed'
      BY <1>1, <3>1 DEF ClusterNamed, TypeOK
    <3>7. StreamInScope'
      BY <1>1, <3>1, <3>4, <3>5, BroadcastScope DEF StreamInScope
    <3> QED
      BY <3>6, <3>7
  <2> QED
    BY <1>4, <2>1, <2>2
<1> QED
  BY <1>3, <1>5 DEF ScopeInv, PagesInScope, InScope, TasksInScope, HoldsOwn

(* The steps of main, the end of the process and its restart stay in scope. *)
LEMMA ScopeMain ==
    ASSUME TypeOK, ScopeInv, EndBoot \/ Monitor \/ Crash \/ Restart
    PROVE  ScopeInv'
<1>1. CASE EndBoot
  <2>1. CASE Mode = "LIST"
    BY <1>1, <2>1, ExitScope DEF EndBoot
  <2>2. CASE Mode # "LIST"
    <3>1. task' = [t \in Tasks |-> [Fresh EXCEPT !.pc = "loop"]]
      BY <1>1, <2>2 DEF EndBoot
    <3>2. \A t \in Tasks : HoldsOwn(t, task'[t])
      BY <3>1 DEF HoldsOwn, Fresh
    <3>3. UNCHANGED <<cluster, stream, object>>
      BY <1>1, <2>2 DEF EndBoot, maps
    <3>4. TasksInScope'
      BY <3>2 DEF TasksInScope, HoldsOwn
    <3>5. ObjectKeyed' /\ StreamInScope'
      BY <3>3 DEF ScopeInv, ObjectKeyed, StreamInScope
    <3> QED
      BY <3>3, <3>4, <3>5, ProcessScope
  <2> QED
    BY <2>1, <2>2
<1>2. CASE Monitor
  BY <1>2, ExitScope DEF Monitor
<1>3. CASE Crash
  BY <1>3, ExitScope DEF Crash
<1>4. CASE Restart
  BY <1>4 DEF Restart, maps, ScopeInv, ClusterNamed, StreamInScope, ObjectKeyed,
              PagesInScope, InScope
<1> QED
  BY <1>1, <1>2, <1>3, <1>4

(* Initially nobody holds anything. *)
LEMMA ScopeInit == Init => ScopeInv
<1> SUFFICES ASSUME Init PROVE ScopeInv
  OBVIOUS
<1>1. ClusterNamed
  BY DEF Init, ApiInit, Initial, MakeItem, ClusterNamed
<1>2. StreamInScope
  BY DEF Init, ApiInit, NoStream, StreamInScope
<1>3. ObjectKeyed /\ TasksInScope
  BY DEF Init, ObjectKeyed, TasksInScope, HoldsOwn, Fresh
<1> QED
  BY <1>1, <1>2, <1>3, ScopeParts

(* Every step keeps the scopes apart. *)
LEMMA ScopeNext == TypeOK /\ ScopeInv /\ [Next]_vars => ScopeInv'
<1> SUFFICES ASSUME TypeOK, ScopeInv, [Next]_vars PROVE ScopeInv'
  OBVIOUS
<1>1. CASE UNCHANGED vars
  BY <1>1 DEF vars, maps, ScopeInv, ClusterNamed, StreamInScope, ObjectKeyed,
              PagesInScope, InScope
<1>2. ASSUME NEW t \in Tasks, Step(t) PROVE ScopeInv'
  BY <1>2, ScopeList, ScopeItem, ScopeFile, ScopeHook, ScopeWatch DEF Step
<1>3. ASSUME NEW t \in Tasks, Fails(t) \/ Close(t) PROVE ScopeInv'
  BY <1>3, ScopeHook, ScopeWatch DEF Fails
<1>4. CASE User
  BY <1>4, ScopeUser
<1>5. CASE EndBoot \/ Monitor \/ Crash \/ Restart
  BY <1>5, ScopeMain
<1> QED
  BY <1>1, <1>2, <1>3, <1>4, <1>5 DEF Next

(* In every reachable state the streams, the pages, the map entries and the   *)
(* pending operations of a task are of its own kind and namespace.            *)
THEOREM ScopeCorrect == Spec => []ScopeInv
BY TypeInit, TypeNext, ScopeInit, ScopeNext, PTL DEF Spec

(* No task works on an object it does not serve.                              *)
THEOREM InScopeCorrect == Spec => []InScope
<1>1. ScopeInv => InScope
  BY DEF ScopeInv
<1> QED
  BY <1>1, ScopeCorrect, PTL
-----------------------------------------------------------------------------
(* The action behind OnlyOwnFiles. *)
ByItsOwner == \A s \in Slots : files'[s] # files[s] =>
    \E t \in Tasks : \E op \in task[t].ops :
        Serves(t, op.res) /\ Slot(op.path, op.res, op.key) = s

(* Only update_file changes a file, and only the file of its operation. *)
LEMMA PerformOwner ==
    ASSUME TypeOK, ScopeInv, NEW t \in Tasks, NEW op \in task[t].ops, NEW data,
           NEW fails, Perform(t, op, data, fails)
    PROVE  ByItsOwner
<1>1. Serves(t, op.res)
  BY DEF ScopeInv, InScope
<1>2. PICK c : files' = [files EXCEPT ![Slot(op.path, op.res, op.key)] = c]
  BY DEF Perform
<1>3. \A s \in Slots : files'[s] # files[s] => Slot(op.path, op.res, op.key) = s
  BY <1>2 DEF TypeOK
<1> QED
  BY <1>1, <1>3 DEF ByItsOwner

(* No other step changes a file. *)
LEMMA OwnerNext == TypeOK /\ ScopeInv /\ [Next]_vars => ByItsOwner
<1> SUFFICES ASSUME TypeOK, ScopeInv, [Next]_vars PROVE ByItsOwner
  OBVIOUS
<1>1. CASE UNCHANGED files
  BY <1>1 DEF ByItsOwner
<1>2. ASSUME NEW t \in Tasks, UpdateFile(t) PROVE ByItsOwner
  BY <1>2, PerformOwner DEF UpdateFile
<1>3. ASSUME NEW t \in Tasks, UpdateFetched(t) PROVE ByItsOwner
  BY <1>3, PerformOwner DEF UpdateFetched
<1>4. ASSUME NEW t \in Tasks, Step(t), ~UpdateFile(t), ~UpdateFetched(t)
      PROVE  UNCHANGED files
  BY <1>4 DEF Step, BeginList, ReadNamed, ListPage, ListItem, BeginStale, RemoveStale,
       EndList, FetchUrl, FinishItem, RunScript, SendRequest, Wake, Connect, HandleEvent,
       StreamEnds, volume
<1>5. ASSUME NEW t \in Tasks, Fails(t) \/ Close(t) PROVE UNCHANGED files
  BY <1>5 DEF Fails, ScriptFails, ApiFails, Throw, Exit, Close, volume
<1>6. CASE User \/ EndBoot \/ Monitor \/ Crash \/ Restart
  BY <1>1, <1>6 DEF User, EndBoot, Monitor, Crash, Restart, Exit, volume
<1>7. CASE UNCHANGED vars
  BY <1>1, <1>7 DEF vars, volume
<1> QED
  BY <1>1, <1>2, <1>3, <1>4, <1>5, <1>6, <1>7 DEF Next

(* A file changes only by the hand of a task that serves the object the file  *)
(* is for.                                                                    *)
THEOREM OnlyOwnFilesCorrect == Spec => OnlyOwnFiles
<1>1. TypeOK /\ ScopeInv /\ [Next]_vars => [ByItsOwner]_vars
  BY OwnerNext
<1>2. OnlyOwnFiles <=> [][ByItsOwner]_vars
  BY PTL DEF OnlyOwnFiles, ByItsOwner
<1> QED
  BY <1>1, <1>2, TypeCorrect, ScopeCorrect, PTL DEF Spec
-----------------------------------------------------------------------------
(* The folders *)

(* What a task may hold: folders it knows. *)
KnowsFolders(local) ==
    /\ \A c \in local.stale : dest[MapKey(c.res)] # None
    /\ \A op \in local.ops : op.path # NoPath

(* FolderInv, task by task. *)
LEMMA FolderParts == FolderInv <=> HomeKnown /\ \A t \in Tasks : KnowsFolders(task[t])
BY DEF FolderInv, StaleKnown, FolderKnown, KnowsFolders

(* get_destination_folder never returns the empty path. *)
LEMMA DestinationKnown ==
    ASSUME NEW a \in Anns \union {None}
    PROVE  get_destination_folder(a) # NoPath
<1>1. TargetFolder \in Seq(STRING) /\ TargetFolder # <<>>
  BY WellFormedAssumption DEF NoPath
<1>2. Len(TargetFolder) > 0
  BY <1>1
<1>3. CASE a = None
  BY <1>1, <1>3 DEF get_destination_folder, NoPath
<1>4. CASE a # None
  <2>1. a \in Seq(STRING)
    BY <1>4, WellFormedAssumption
  <2>2. Len(TargetFolder \o a) > 0
    BY <1>1, <1>2, <2>1
  <2>3. Len(TargetFolder \o <<"/">> \o a) > 0
    BY <1>1, <1>2, <2>1
  <2>4. TargetFolder \o a # <<>> /\ TargetFolder \o <<"/">> \o a # <<>>
    BY <2>2, <2>3
  <2> QED
    BY <1>4, <2>4 DEF get_destination_folder, NoPath
<1> QED
  BY <1>3, <1>4

(* A task that holds nothing knows the folders it needs. *)
LEMMA RestingFolder ==
    \A t, local : /\ KnowsFolders(Fresh)
                  /\ KnowsFolders(Resting(t, local))
                  /\ KnowsFolders(Notify(t, local))
BY DEF KnowsFolders, Fresh, Resting, Notify

(* A step of one task that forgets no folder. *)
LEMMA UpdateFolder ==
    ASSUME TypeOK, FolderInv, NEW t \in Tasks, NEW local,
           task' = [task EXCEPT ![t] = local], HomeKnown',
           \A m \in MapKeys : dest[m] # None => dest'[m] # None,
           \A c \in local.stale : dest'[MapKey(c.res)] # None,
           \A op \in local.ops : op.path # NoPath
    PROVE  FolderInv'
<1>1. \A u \in Tasks : task'[u] = IF u = t THEN local ELSE task[u]
  BY DEF TypeOK
<1>2. ASSUME NEW u \in Tasks, u # t, NEW c \in task[u].stale
      PROVE  dest'[MapKey(c.res)] # None
  <2>1. c.res \in Res
    BY <1>2 DEF TypeOK, Task, Cached
  <2>2. dest[MapKey(c.res)] # None
    BY <1>2 DEF FolderInv, StaleKnown
  <2> QED
    BY <2>1, <2>2, MapKeyType
<1>3. ASSUME NEW u \in Tasks, u # t, NEW op \in task[u].ops
      PROVE  op.path # NoPath
  BY <1>3 DEF FolderInv, FolderKnown
<1> QED
  BY <1>1, <1>2, <1>3 DEF FolderInv, StaleKnown, FolderKnown

(* A step that changes only a task's own state. *)
LEMMA LocalFolder ==
    ASSUME TypeOK, FolderInv, NEW t \in Tasks, NEW local, KnowsFolders(local),
           task' = [task EXCEPT ![t] = local], UNCHANGED maps
    PROVE  FolderInv'
<1>1. HomeKnown'
  BY DEF FolderInv, HomeKnown, maps
<1> QED
  BY <1>1, UpdateFolder DEF KnowsFolders, maps

(* A step that leaves the tasks and the maps alone. *)
LEMMA StillFolder ==
    FolderInv /\ UNCHANGED <<task, maps>> => FolderInv'
BY DEF FolderInv, HomeKnown, StaleKnown, FolderKnown, maps

(* process_resource of a stored object: its folder is recorded. *)
LEMMA StoreFolder ==
    ASSUME TypeOK, FolderInv, NEW t \in Tasks, NEW local \in Task, KnowsFolders(local),
           NEW item \in Item, NEW to \in Paths, to # NoPath, Store(t, local, item, to)
    PROVE  FolderInv'
<1> DEFINE m == MapKey(item.res)
           new == CachedItem(item)
           old == IF object[m] # None THEN object[m] ELSE new
           ops == Writes(item, to) \union Leftovers(old, new, OldDest(m, to), to)
<1>1. m \in MapKeys
  BY MapKeyType DEF Item
<1>2. OldDest(m, to) # NoPath
  BY <1>1 DEF OldDest, FolderInv, HomeKnown
<1>3. \A op \in ops : op.path # NoPath
  BY <1>2 DEF Writes, Leftovers
<1>4. /\ object' = [object EXCEPT ![m] = new]
      /\ dest' = [dest EXCEPT ![m] = to]
      /\ task' = [task EXCEPT ![t] = [local EXCEPT !.pc = "file", !.ops = ops]]
  BY DEF Store
<1> HIDE DEF m, new, old, ops
<1>5. to # None
  BY WellFormedAssumption
<1>6. \A k \in MapKeys : /\ dest'[k] = IF k = m THEN to ELSE dest[k]
                         /\ k # m => object'[k] = object[k]
  BY <1>4 DEF TypeOK
<1>7. HomeKnown'
  BY <1>5, <1>6 DEF FolderInv, HomeKnown
<1>8. \A k \in MapKeys : dest[k] # None => dest'[k] # None
  BY <1>5, <1>6
<1> DEFINE next == [local EXCEPT !.pc = "file", !.ops = ops]
<1>9. next.stale = local.stale /\ next.ops = ops
  BY DEF Task
<1>10. \A c \in local.stale : dest'[MapKey(c.res)] # None
  <2>1. \A c \in local.stale : MapKey(c.res) \in MapKeys
    BY MapKeyType DEF Task, Cached
  <2> QED
    BY <1>8, <2>1 DEF KnowsFolders
<1> HIDE DEF next
<1> QED
  BY <1>3, <1>4, <1>7, <1>8, <1>9, <1>10, UpdateFolder DEF next

(* process_resource of an object that is gone: its folder is remembered. *)
LEMMA ForgetFolder ==
    ASSUME TypeOK, FolderInv, NEW t \in Tasks, NEW local \in Task, KnowsFolders(local),
           NEW gone \in Cached, NEW to, Forget(t, local, gone, to),
           to # NoPath \/ dest[MapKey(gone.res)] # None
    PROVE  FolderInv'
<1> DEFINE m == MapKey(gone.res)
           ops == Removals(gone, OldDest(m, to))
<1>1. m \in MapKeys
  BY MapKeyType DEF Cached
<1>2. OldDest(m, to) # NoPath
  BY <1>1 DEF OldDest, FolderInv, HomeKnown
<1>3. \A op \in ops : op.path # NoPath
  BY <1>2 DEF Removals
<1>4. /\ object' = [object EXCEPT ![m] = None]
      /\ dest' = dest
      /\ task' = [task EXCEPT ![t] = [local EXCEPT !.pc = "file", !.ops = ops]]
  BY DEF Forget
<1> HIDE DEF m, ops
<1>5. HomeKnown'
  BY <1>4 DEF FolderInv, HomeKnown, TypeOK
<1> DEFINE next == [local EXCEPT !.pc = "file", !.ops = ops]
<1>6. next.stale = local.stale /\ next.ops = ops
  BY DEF Task
<1> HIDE DEF next
<1> QED
  BY <1>3, <1>4, <1>5, <1>6, UpdateFolder DEF next, KnowsFolders

(* The stale sweep takes only objects whose folder is known. *)
LEMMA StaleFolder ==
    ASSUME ScopeInv, FolderInv, NEW t \in Tasks
    PROVE  \A c \in Stale(t) : dest[MapKey(c.res)] # None
BY DEF Stale, ScopeInv, ObjectKeyed, FolderInv, HomeKnown
-----------------------------------------------------------------------------
(* FolderInv, one action at a time *)

(* The end of a process empties the maps. *)
LEMMA ExitFolder ==
    ASSUME NEW status, Exit(status), None # NoPath
    PROVE  FolderInv'
<1>1. \A t \in Tasks : task'[t] = Fresh
  BY DEF Exit
<1>2. \A m \in MapKeys : object'[m] = None /\ dest'[m] = None
  BY DEF Exit
<1> QED
  BY <1>1, <1>2 DEF FolderInv, HomeKnown, StaleKnown, FolderKnown, Fresh

(* None is not the empty path, which is a path. *)
LEMMA NoneIsNoPath == None # NoPath
BY WellFormedAssumption DEF Paths

(* An error of a pass leaves its task with nothing. *)
LEMMA ThrowFolder ==
    ASSUME TypeOK, FolderInv, NEW t \in Tasks, NEW pc, Throw(t, pc)
    PROVE  FolderInv'
<1>1. CASE proc = "boot"
  BY <1>1, ExitFolder, NoneIsNoPath DEF Throw
<1>2. CASE proc # "boot"
  <2>1. task' = [task EXCEPT ![t] = [Fresh EXCEPT !.pc = pc]] /\ UNCHANGED maps
    BY <1>2 DEF Throw
  <2>2. KnowsFolders([Fresh EXCEPT !.pc = pc])
    BY DEF KnowsFolders, Fresh
  <2> QED
    BY <2>1, <2>2, LocalFolder
<1> QED
  BY <1>1, <1>2

(* The calls a listing makes, and the choice of what is stale. *)
LEMMA FolderList ==
    ASSUME TypeOK, ScopeInv, FolderInv, NEW t \in Tasks,
           BeginList(t) \/ ReadNamed(t) \/ ListPage(t) \/ BeginStale(t) \/ EndList(t)
    PROVE  FolderInv'
<1>1. task[t] \in Task /\ KnowsFolders(task[t])
  BY FolderParts DEF TypeOK
<1>2. CASE BeginList(t)
  <2>1. PICK local \in {[Fresh EXCEPT !.pc = "names", !.names = Chosen(t)],
                        [Fresh EXCEPT !.pc = "page", !.pages = Selected(t)]} :
          task' = [task EXCEPT ![t] = local]
    BY <1>2 DEF BeginList
  <2>2. KnowsFolders(local)
    BY <2>1 DEF KnowsFolders, Fresh
  <2> QED
    BY <1>2, <2>1, <2>2, LocalFolder DEF BeginList
<1>3. CASE ReadNamed(t)
  <2>1. PICK n \in task[t].names :
          task' = [task EXCEPT ![t] = Gathered([task[t] EXCEPT !.names = @ \ {n}],
                                               task[t].items \union Named(t, n))]
    BY <1>3 DEF ReadNamed
  <2>2. KnowsFolders(Gathered([task[t] EXCEPT !.names = @ \ {n}],
                              task[t].items \union Named(t, n)))
    BY <1>1 DEF KnowsFolders, Gathered, Task
  <2> QED
    BY <1>3, <2>1, <2>2, LocalFolder DEF ReadNamed
<1>4. CASE ListPage(t)
  <2>1. PICK page \in SUBSET task[t].pages :
          task' = [task EXCEPT ![t] = Gathered([task[t] EXCEPT !.pages = @ \ page],
                                               task[t].items \union page)]
    BY <1>4 DEF ListPage
  <2>2. KnowsFolders(Gathered([task[t] EXCEPT !.pages = @ \ page],
                              task[t].items \union page))
    BY <1>1 DEF KnowsFolders, Gathered, Task
  <2> QED
    BY <1>4, <2>1, <2>2, LocalFolder DEF ListPage
<1>5. CASE BeginStale(t)
  <2>1. task' = [task EXCEPT ![t] = [task[t] EXCEPT !.pc = "stale", !.via = "stale",
                                            !.stale = Stale(t), !.exist = {}]]
    BY <1>5 DEF BeginStale, TypeOK
  <2>2. KnowsFolders([task[t] EXCEPT !.pc = "stale", !.via = "stale",
                                     !.stale = Stale(t), !.exist = {}])
    BY <1>1, StaleFolder DEF KnowsFolders, Task
  <2> QED
    BY <1>5, <2>1, <2>2, LocalFolder DEF BeginStale
<1>6. CASE EndList(t)
  BY <1>6, RestingFolder, LocalFolder DEF EndList
<1> QED
  BY <1>2, <1>3, <1>4, <1>5, <1>6

(* The processing of the listed objects and the stale sweep. *)
LEMMA FolderItem ==
    ASSUME TypeOK, FolderInv, NEW t \in Tasks, ListItem(t) \/ RemoveStale(t)
    PROVE  FolderInv'
<1>1. task[t] \in Task /\ KnowsFolders(task[t])
  BY FolderParts DEF TypeOK
<1>2. CASE ListItem(t)
  <2>1. PICK it \in task[t].items :
         \/ /\ task' = [task EXCEPT ![t] = [task[t] EXCEPT !.items = @ \ {it}, !.via = "list"]]
            /\ UNCHANGED maps
         \/ Store(t, [task[t] EXCEPT !.items = @ \ {it}, !.via = "list"], it,
                  get_destination_folder(it.ann))
    BY <1>2 DEF ListItem
  <2> DEFINE rest == [task[t] EXCEPT !.items = @ \ {it}, !.via = "list"]
  <2>2. rest \in Task /\ KnowsFolders(rest) /\ it \in Item
    BY <1>1 DEF Task, KnowsFolders
  <2>3. it.ann \in Anns \union {None}
    BY <2>2 DEF Item
  <2>4. /\ get_destination_folder(it.ann) \in Paths
        /\ get_destination_folder(it.ann) # NoPath
    BY <2>3, DestinationType, DestinationKnown
  <2> HIDE DEF rest
  <2>5. CASE task' = [task EXCEPT ![t] = rest] /\ UNCHANGED maps
    BY <2>2, <2>5, LocalFolder
  <2>6. CASE Store(t, rest, it, get_destination_folder(it.ann))
    BY <2>2, <2>4, <2>6, StoreFolder
  <2> QED
    BY <2>1, <2>5, <2>6 DEF rest
<1>3. CASE RemoveStale(t)
  <2>1. PICK c \in task[t].stale : Forget(t, [task[t] EXCEPT !.stale = @ \ {c}], c, NoPath)
    BY <1>3 DEF RemoveStale
  <2>2. /\ [task[t] EXCEPT !.stale = @ \ {c}] \in Task
        /\ KnowsFolders([task[t] EXCEPT !.stale = @ \ {c}])
        /\ c \in Cached /\ dest[MapKey(c.res)] # None
    BY <1>1 DEF Task, KnowsFolders
  <2> QED
    BY <2>1, <2>2, ForgetFolder
<1> QED
  BY <1>2, <1>3

(* A file operation leaves the task with fewer operations. *)
LEMMA PerformFolder ==
    ASSUME TypeOK, FolderInv, NEW t \in Tasks, NEW op, NEW data, NEW fails,
           Perform(t, op, data, fails), UNCHANGED maps
    PROVE  FolderInv'
<1>1. task[t] \in Task /\ KnowsFolders(task[t])
  BY FolderParts DEF TypeOK
<1>2. PICK changed :
        task' = [task EXCEPT ![t].pc = "file", ![t].ops = @ \ {op}, ![t].changed = changed]
  BY DEF Perform
<1>3. task' = [task EXCEPT ![t] = [task[t] EXCEPT !.pc = "file", !.ops = @ \ {op},
                                                  !.changed = changed]]
  BY <1>2 DEF TypeOK
<1>4. KnowsFolders([task[t] EXCEPT !.pc = "file", !.ops = @ \ {op}, !.changed = changed])
  BY <1>1 DEF KnowsFolders, Task
<1> QED
  BY <1>3, <1>4, LocalFolder

(* The calls of update_file. *)
LEMMA FolderFile ==
    ASSUME TypeOK, FolderInv, NEW t \in Tasks,
           UpdateFile(t) \/ FetchUrl(t) \/ UpdateFetched(t) \/ FinishItem(t)
    PROVE  FolderInv'
<1>1. task[t] \in Task /\ KnowsFolders(task[t])
  BY FolderParts DEF TypeOK
<1>2. CASE UpdateFile(t)
  BY <1>2, PerformFolder DEF UpdateFile
<1>3. CASE FetchUrl(t)
  <2>1. task' = [task EXCEPT ![t] = [task[t] EXCEPT !.pc = "fetch"]]
    BY <1>3 DEF FetchUrl, TypeOK
  <2>2. KnowsFolders([task[t] EXCEPT !.pc = "fetch"])
    BY <1>1 DEF KnowsFolders, Task
  <2> QED
    BY <1>3, <2>1, <2>2, LocalFolder DEF FetchUrl
<1>4. CASE UpdateFetched(t)
  BY <1>4, PerformFolder DEF UpdateFetched
<1>5. CASE FinishItem(t)
  <2>1. task[t].via \in {"list", "stale", "event"}
    BY <1>1 DEF Task
  <2>2. PICK local \in {[task[t] EXCEPT !.pc = "items"], [task[t] EXCEPT !.pc = "stale"],
                        Notify(t, task[t])} :
           task' = [task EXCEPT ![t] = local]
    BY <1>5, <2>1 DEF FinishItem
  <2>3. /\ KnowsFolders([task[t] EXCEPT !.pc = "items"])
        /\ KnowsFolders([task[t] EXCEPT !.pc = "stale"])
        /\ KnowsFolders(Notify(t, task[t]))
    BY <1>1, RestingFolder DEF KnowsFolders, Task
  <2> QED
    BY <1>5, <2>2, <2>3, LocalFolder DEF FinishItem
<1> QED
  BY <1>2, <1>3, <1>4, <1>5

(* The hooks and the failures. *)
LEMMA FolderHook ==
    ASSUME TypeOK, FolderInv, NEW t \in Tasks,
           RunScript(t) \/ SendRequest(t) \/ Wake(t) \/ ScriptFails(t) \/ ApiFails(t)
    PROVE  FolderInv'
<1>1. task[t] \in Task /\ KnowsFolders(task[t])
  BY FolderParts DEF TypeOK
<1>2. /\ KnowsFolders([task[t] EXCEPT !.pc = "request"])
      /\ KnowsFolders([task[t] EXCEPT !.pc = "loop"])
      /\ KnowsFolders(Resting(t, task[t]))
  BY <1>1, RestingFolder DEF KnowsFolders, Task
<1>3. CASE RunScript(t) \/ SendRequest(t)
  <2>1. PICK local \in {[task[t] EXCEPT !.pc = "request"], Resting(t, task[t])} :
           task' = [task EXCEPT ![t] = local]
    BY <1>3 DEF RunScript, SendRequest
  <2> QED
    BY <1>2, <1>3, <2>1, LocalFolder DEF RunScript, SendRequest
<1>4. CASE Wake(t)
  <2>1. task' = [task EXCEPT ![t] = [task[t] EXCEPT !.pc = "loop"]]
    BY <1>4 DEF Wake, TypeOK
  <2> QED
    BY <1>2, <1>4, <2>1, LocalFolder DEF Wake
<1>5. CASE ScriptFails(t)
  BY <1>5, ThrowFolder DEF ScriptFails
<1>6. CASE ApiFails(t)
  BY <1>6, ThrowFolder DEF ApiFails
<1> QED
  BY <1>3, <1>4, <1>5, <1>6

(* The watch loop. *)
LEMMA FolderWatch ==
    ASSUME TypeOK, FolderInv, NEW t \in Tasks,
           Connect(t) \/ HandleEvent(t) \/ StreamEnds(t) \/ Close(t)
    PROVE  FolderInv'
<1>1. task[t] \in Task /\ KnowsFolders(task[t])
  BY FolderParts DEF TypeOK
<1>2. /\ KnowsFolders([task[t] EXCEPT !.pc = "watch"])
      /\ KnowsFolders([task[t] EXCEPT !.pc = "loop"])
  BY <1>1 DEF KnowsFolders, Task
<1>3. CASE Connect(t)
  <2>1. task' = [task EXCEPT ![t] = [task[t] EXCEPT !.pc = "watch"]]
    BY <1>3 DEF Connect, TypeOK
  <2> QED
    BY <1>2, <1>3, <2>1, LocalFolder DEF Connect
<1>4. CASE StreamEnds(t)
  <2>1. task' = [task EXCEPT ![t] = [task[t] EXCEPT !.pc = "loop"]]
    BY <1>4 DEF StreamEnds, TypeOK
  <2> QED
    BY <1>2, <1>4, <2>1, LocalFolder DEF StreamEnds
<1>5. CASE Close(t)
  BY <1>5, StillFolder DEF Close
<1>6. CASE HandleEvent(t)
  <2>1. PICK d \in Delivery(t) :
         \/ UNCHANGED <<task, object, dest>>
         \/ Forget(t, [Fresh EXCEPT !.via = "event"], CachedItem(d[1].item),
                   get_destination_folder(d[1].item.ann))
         \/ Store(t, [Fresh EXCEPT !.via = "event"], d[1].item,
                  get_destination_folder(d[1].item.ann))
    BY <1>6 DEF HandleEvent
  <2>2. d[1].item \in Item /\ CachedItem(d[1].item) \in Cached
    BY DeliveryType, CachedType DEF Event
  <2>3. d[1].item.ann \in Anns \union {None}
    BY <2>2 DEF Item
  <2>4. /\ get_destination_folder(d[1].item.ann) \in Paths
        /\ get_destination_folder(d[1].item.ann) # NoPath
    BY <2>3, DestinationType, DestinationKnown
  <2>5. [Fresh EXCEPT !.via = "event"] \in Task /\ KnowsFolders([Fresh EXCEPT !.via = "event"])
    BY FreshType DEF Task, KnowsFolders, Fresh
  <2>6. CASE UNCHANGED <<task, object, dest>>
    BY <2>6 DEF FolderInv, HomeKnown, StaleKnown, FolderKnown
  <2>7. CASE Forget(t, [Fresh EXCEPT !.via = "event"], CachedItem(d[1].item),
                    get_destination_folder(d[1].item.ann))
    BY <2>2, <2>4, <2>5, <2>7, ForgetFolder
  <2>8. CASE Store(t, [Fresh EXCEPT !.via = "event"], d[1].item,
                   get_destination_folder(d[1].item.ann))
    BY <2>2, <2>4, <2>5, <2>8, StoreFolder
  <2> QED
    BY <2>1, <2>6, <2>7, <2>8
<1> QED
  BY <1>3, <1>4, <1>5, <1>6

(* The steps of main, the end of the process and its restart. *)
LEMMA FolderMain ==
    ASSUME TypeOK, FolderInv, EndBoot \/ Monitor \/ Crash \/ Restart
    PROVE  FolderInv'
<1>1. CASE EndBoot /\ Mode # "LIST"
  <2>1. task' = [t \in Tasks |-> [Fresh EXCEPT !.pc = "loop"]] /\ UNCHANGED maps
    BY <1>1 DEF EndBoot
  <2>2. \A t \in Tasks : task'[t].stale = {} /\ task'[t].ops = {}
    BY <2>1 DEF Fresh
  <2> QED
    BY <2>1, <2>2 DEF FolderInv, HomeKnown, StaleKnown, FolderKnown, maps
<1>2. CASE Restart
  BY <1>2, StillFolder DEF Restart
<1>3. CASE (EndBoot /\ Mode = "LIST") \/ Monitor \/ Crash
  BY <1>3, ExitFolder, NoneIsNoPath DEF EndBoot, Monitor, Crash
<1> QED
  BY <1>1, <1>2, <1>3

(* Initially there is nothing to put anywhere. *)
LEMMA FolderInit == Init => FolderInv
BY NoneIsNoPath DEF Init, FolderInv, HomeKnown, StaleKnown, FolderKnown, Fresh

(* Every step keeps the folders known. *)
LEMMA FolderNext == TypeOK /\ ScopeInv /\ FolderInv /\ [Next]_vars => FolderInv'
<1> SUFFICES ASSUME TypeOK, ScopeInv, FolderInv, [Next]_vars PROVE FolderInv'
  OBVIOUS
<1>1. CASE UNCHANGED vars
  BY <1>1, StillFolder DEF vars
<1>2. ASSUME NEW t \in Tasks, Step(t) PROVE FolderInv'
  BY <1>2, FolderList, FolderItem, FolderFile, FolderHook, FolderWatch DEF Step
<1>3. ASSUME NEW t \in Tasks, Fails(t) \/ Close(t) PROVE FolderInv'
  BY <1>3, FolderHook, FolderWatch DEF Fails
<1>4. CASE User
  BY <1>4, StillFolder DEF User
<1>5. CASE EndBoot \/ Monitor \/ Crash \/ Restart
  BY <1>5, FolderMain
<1> QED
  BY <1>1, <1>2, <1>3, <1>4, <1>5 DEF Next

(* In every reachable state the folder of each remembered object, and of each *)
(* object about to be swept, is recorded and is not the empty one.            *)
THEOREM FolderCorrect == Spec => []FolderInv
BY TypeInit, TypeNext, ScopeInit, ScopeNext, FolderInit, FolderNext, PTL DEF Spec

(* No file is ever written to or removed from the empty folder, which the     *)
(* process would take for its working directory.                              *)
THEOREM FolderKnownCorrect == Spec => []FolderKnown
<1>1. FolderInv => FolderKnown
  BY DEF FolderInv
<1> QED
  BY <1>1, FolderCorrect, PTL
=============================================================================

----------------------------- MODULE PassProofs -----------------------------
(***************************************************************************)
(* What a pass leaves to be done is done: LocalInv ties what a task holds  *)
(* to where it is; with it no change of a file is lost to the hooks        *)
(* (HookInv), and a watcher that reads by name meets no other name         *)
(* (NamedInv).                                                             *)
(***************************************************************************)
EXTENDS ScopeProofs

(* A task that has nothing to do is settled, and so is one that is to run a hook. *)
LEMMA FreshSettled ==
    \A t, local, pc : /\ Settled(Fresh)
                      /\ pc # "stale" => Settled([Fresh EXCEPT !.pc = pc])
                      /\ Settled(Resting(t, local))
                      /\ Settled(Notify(t, local))
BY DEF Settled, Fresh, Resting, Notify

(* A step of one task. *)
LEMMA UpdateLocal ==
    ASSUME TypeOK, LocalInv, NEW t \in Tasks, NEW local, Settled(local),
           task' = [task EXCEPT ![t] = local]
    PROVE  LocalInv'
<1>1. \A u \in Tasks : task'[u] = IF u = t THEN local ELSE task[u]
  BY DEF TypeOK
<1>2. \A u \in Tasks : Settled(task'[u])
  BY <1>1 DEF LocalInv
<1> QED
  BY <1>2 DEF LocalInv, Settled, InPass

(* A step that leaves the tasks alone. *)
LEMMA StillLocal == LocalInv /\ UNCHANGED task => LocalInv'
BY DEF LocalInv, Settled, InPass

(* The end of a process. *)
LEMMA ExitLocal ==
    ASSUME NEW status, Exit(status)
    PROVE  LocalInv'
<1>1. \A t \in Tasks : Settled(task'[t])
  BY FreshSettled DEF Exit
<1> QED
  BY <1>1 DEF LocalInv, Settled, InPass

(* An error of a pass. *)
LEMMA ThrowLocal ==
    ASSUME TypeOK, LocalInv, NEW t \in Tasks, NEW pc \in {"dead", "throttle"}, Throw(t, pc)
    PROVE  LocalInv'
BY ExitLocal, FreshSettled, UpdateLocal DEF Throw

(* What a page or a read adds to a listing. *)
LEMMA GatheredSettled ==
    ASSUME NEW local \in Task, NEW got \in SUBSET Item,
           local.pc \in {"names", "page"}, local.ops = {}, ~local.changed, local.stale = {},
           local.exist = {}, local.names # {} => local.pc = "names",
           local.pages # {} => local.pc = "page"
    PROVE  Settled(Gathered(local, got))
BY DEF Settled, Gathered, Task, InPass
-----------------------------------------------------------------------------
(* LocalInv, one action at a time *)

(* The calls a listing makes, and the choice of what is stale. *)
LEMMA LocalList ==
    ASSUME TypeOK, LocalInv, NEW t \in Tasks,
           BeginList(t) \/ ReadNamed(t) \/ ListPage(t) \/ BeginStale(t) \/ EndList(t)
    PROVE  LocalInv'
<1>1. task[t] \in Task /\ Settled(task[t])
  BY DEF TypeOK, LocalInv
<1>2. CASE BeginList(t)
  <2>1. PICK local \in {[Fresh EXCEPT !.pc = "names", !.names = Chosen(t)],
                        [Fresh EXCEPT !.pc = "page", !.pages = Selected(t)]} :
          task' = [task EXCEPT ![t] = local]
    BY <1>2 DEF BeginList
  <2>2. Settled(local)
    BY <2>1 DEF Settled, Fresh
  <2> QED
    BY <2>1, <2>2, UpdateLocal
<1>3. CASE ReadNamed(t)
  <2>1. PICK n \in task[t].names :
          task' = [task EXCEPT ![t] = Gathered([task[t] EXCEPT !.names = @ \ {n}],
                                               task[t].items \union Named(t, n))]
    BY <1>3 DEF ReadNamed
  <2>2. task[t].pc = "names"
    BY <1>3 DEF ReadNamed
  <2> DEFINE local == [task[t] EXCEPT !.names = @ \ {n}]
  <2>3. /\ local \in Task /\ local.pc = "names" /\ local.ops = {} /\ ~local.changed
        /\ local.stale = {} /\ local.exist = {} /\ local.pages = {}
    BY <1>1, <2>2 DEF Task, Settled, InPass
  <2>4. task[t].items \union Named(t, n) \in SUBSET Item
    BY <1>1, NamedType DEF Task
  <2> HIDE DEF local
  <2>5. Settled(Gathered(local, task[t].items \union Named(t, n)))
    BY <2>3, <2>4, GatheredSettled
  <2> QED
    BY <2>1, <2>5, UpdateLocal DEF local
<1>4. CASE ListPage(t)
  <2>1. PICK page \in SUBSET task[t].pages :
          task' = [task EXCEPT ![t] = Gathered([task[t] EXCEPT !.pages = @ \ page],
                                               task[t].items \union page)]
    BY <1>4 DEF ListPage
  <2>2. task[t].pc = "page"
    BY <1>4 DEF ListPage
  <2> DEFINE local == [task[t] EXCEPT !.pages = @ \ page]
  <2>3. /\ local \in Task /\ local.pc = "page" /\ local.ops = {} /\ ~local.changed
        /\ local.stale = {} /\ local.exist = {} /\ local.names = {}
    BY <1>1, <2>2 DEF Task, Settled, InPass
  <2>4. task[t].items \union page \in SUBSET Item
    BY <1>1 DEF Task
  <2> HIDE DEF local
  <2>5. Settled(Gathered(local, task[t].items \union page))
    BY <2>3, <2>4, GatheredSettled
  <2> QED
    BY <2>1, <2>5, UpdateLocal DEF local
<1>5. CASE BeginStale(t)
  <2>1. task' = [task EXCEPT ![t] = [task[t] EXCEPT !.pc = "stale", !.via = "stale",
                                            !.stale = Stale(t), !.exist = {}]]
    BY <1>5 DEF BeginStale, TypeOK
  <2>2. Settled([task[t] EXCEPT !.pc = "stale", !.via = "stale",
                                !.stale = Stale(t), !.exist = {}])
    BY <1>1, <1>5 DEF Settled, Task, BeginStale, InPass
  <2> QED
    BY <2>1, <2>2, UpdateLocal
<1>6. CASE EndList(t)
  BY <1>6, FreshSettled, UpdateLocal DEF EndList
<1> QED
  BY <1>2, <1>3, <1>4, <1>5, <1>6

(* The processing of the listed objects and the stale sweep. *)
LEMMA LocalItem ==
    ASSUME TypeOK, LocalInv, NEW t \in Tasks, ListItem(t) \/ RemoveStale(t)
    PROVE  LocalInv'
<1>1. task[t] \in Task /\ Settled(task[t])
  BY DEF TypeOK, LocalInv
<1>2. CASE ListItem(t)
  <2>1. PICK it \in task[t].items : \E ops :
         \/ task' = [task EXCEPT ![t] = [task[t] EXCEPT !.items = @ \ {it}, !.via = "list"]]
         \/ task' = [task EXCEPT ![t] = [[task[t] EXCEPT !.items = @ \ {it}, !.via = "list"]
                                           EXCEPT !.pc = "file", !.ops = ops]]
    BY <1>2 DEF ListItem, Store
  <2>2. task[t].pc = "items"
    BY <1>2 DEF ListItem
  <2>3. /\ Settled([task[t] EXCEPT !.items = @ \ {it}, !.via = "list"])
        /\ \A ops : Settled([[task[t] EXCEPT !.items = @ \ {it}, !.via = "list"]
                                EXCEPT !.pc = "file", !.ops = ops])
    BY <1>1, <2>2 DEF Settled, Task, InPass
  <2> QED
    BY <2>1, <2>3, UpdateLocal
<1>3. CASE RemoveStale(t)
  <2>1. PICK c, ops :
         task' = [task EXCEPT ![t] = [[task[t] EXCEPT !.stale = @ \ {c}]
                                        EXCEPT !.pc = "file", !.ops = ops]]
    BY <1>3 DEF RemoveStale, Forget
  <2>2. task[t].pc = "stale"
    BY <1>3 DEF RemoveStale
  <2>3. Settled([[task[t] EXCEPT !.stale = @ \ {c}] EXCEPT !.pc = "file", !.ops = ops])
    BY <1>1, <2>2 DEF Settled, Task, InPass
  <2> QED
    BY <2>1, <2>3, UpdateLocal
<1> QED
  BY <1>2, <1>3

(* The calls of update_file. *)
LEMMA LocalFile ==
    ASSUME TypeOK, LocalInv, NEW t \in Tasks,
           UpdateFile(t) \/ FetchUrl(t) \/ UpdateFetched(t) \/ FinishItem(t)
    PROVE  LocalInv'
<1>1. task[t] \in Task /\ Settled(task[t])
  BY DEF TypeOK, LocalInv
<1>2. CASE UpdateFile(t) \/ UpdateFetched(t)
  <2>1. PICK op, changed :
          task' = [task EXCEPT ![t].pc = "file", ![t].ops = @ \ {op}, ![t].changed = changed]
    BY <1>2 DEF UpdateFile, UpdateFetched, Perform
  <2>2. task' = [task EXCEPT ![t] = [task[t] EXCEPT !.pc = "file", !.ops = @ \ {op},
                                                    !.changed = changed]]
    BY <2>1 DEF TypeOK
  <2>3. task[t].pc \in {"file", "fetch"}
    BY <1>2 DEF UpdateFile, UpdateFetched
  <2>4. Settled([task[t] EXCEPT !.pc = "file", !.ops = @ \ {op}, !.changed = changed])
    BY <1>1, <2>3 DEF Settled, Task, InPass
  <2> QED
    BY <2>2, <2>4, UpdateLocal
<1>3. CASE FetchUrl(t)
  <2>1. task' = [task EXCEPT ![t] = [task[t] EXCEPT !.pc = "fetch"]] /\ task[t].pc = "file"
    BY <1>3 DEF FetchUrl, TypeOK
  <2>2. Settled([task[t] EXCEPT !.pc = "fetch"])
    BY <1>1, <2>1 DEF Settled, Task, InPass
  <2> QED
    BY <2>1, <2>2, UpdateLocal
<1>4. CASE FinishItem(t)
  <2>1. task[t].via \in {"list", "stale", "event"} /\ task[t].pc = "file" /\ task[t].ops = {}
    BY <1>1, <1>4 DEF Task, FinishItem
  <2>2. /\ task[t].via = "list" => Settled([task[t] EXCEPT !.pc = "items"])
        /\ task[t].via = "stale" => Settled([task[t] EXCEPT !.pc = "stale"])
    BY <1>1, <2>1 DEF Settled, Task, InPass
  <2>3. PICK local : task' = [task EXCEPT ![t] = local] /\ Settled(local)
    BY <1>4, <2>1, <2>2, FreshSettled DEF FinishItem
  <2> QED
    BY <2>3, UpdateLocal
<1> QED
  BY <1>2, <1>3, <1>4

(* The hooks and the failures. *)
LEMMA LocalHook ==
    ASSUME TypeOK, LocalInv, NEW t \in Tasks,
           RunScript(t) \/ SendRequest(t) \/ Wake(t) \/ ScriptFails(t) \/ ApiFails(t)
    PROVE  LocalInv'
<1>1. task[t] \in Task /\ Settled(task[t])
  BY DEF TypeOK, LocalInv
<1>2. CASE RunScript(t) \/ SendRequest(t)
  <2>1. PICK local \in {[task[t] EXCEPT !.pc = "request"], Resting(t, task[t])} :
           task' = [task EXCEPT ![t] = local]
    BY <1>2 DEF RunScript, SendRequest
  <2>2. task[t].pc \in {"script", "request"}
    BY <1>2 DEF RunScript, SendRequest
  <2>3. Settled([task[t] EXCEPT !.pc = "request"])
    BY <1>1, <2>2 DEF Settled, Task, InPass
  <2> QED
    BY <2>1, <2>3, FreshSettled, UpdateLocal
<1>3. CASE Wake(t)
  <2>1. /\ task' = [task EXCEPT ![t] = [task[t] EXCEPT !.pc = "loop"]]
        /\ task[t].pc \in {"sleep", "throttle"}
    BY <1>3 DEF Wake, TypeOK
  <2>2. Settled([task[t] EXCEPT !.pc = "loop"])
    BY <1>1, <2>1 DEF Settled, Task, InPass
  <2> QED
    BY <2>1, <2>2, UpdateLocal
<1>4. CASE ScriptFails(t) \/ ApiFails(t)
  BY <1>4, ThrowLocal DEF ScriptFails, ApiFails
<1> QED
  BY <1>2, <1>3, <1>4

(* The watch loop. *)
LEMMA LocalWatch ==
    ASSUME TypeOK, LocalInv, NEW t \in Tasks,
           Connect(t) \/ HandleEvent(t) \/ StreamEnds(t) \/ Close(t)
    PROVE  LocalInv'
<1>1. task[t] \in Task /\ Settled(task[t])
  BY DEF TypeOK, LocalInv
<1>2. CASE Connect(t) \/ StreamEnds(t)
  <2>1. PICK pc \in {"watch", "loop"} : task' = [task EXCEPT ![t] = [task[t] EXCEPT !.pc = pc]]
    BY <1>2 DEF Connect, StreamEnds, TypeOK
  <2>2. task[t].pc \in {"watch", "loop"}
    BY <1>2 DEF Connect, StreamEnds
  <2>3. Settled([task[t] EXCEPT !.pc = pc])
    BY <1>1, <2>1, <2>2 DEF Settled, Task, InPass
  <2> QED
    BY <2>1, <2>3, UpdateLocal
<1>3. CASE HandleEvent(t)
  <2>1. PICK ops : \/ UNCHANGED task
                   \/ task' = [task EXCEPT ![t] = [[Fresh EXCEPT !.via = "event"]
                                                     EXCEPT !.pc = "file", !.ops = ops]]
    BY <1>3 DEF HandleEvent, Store, Forget
  <2>2. Settled([[Fresh EXCEPT !.via = "event"] EXCEPT !.pc = "file", !.ops = ops])
    BY DEF Settled, Fresh
  <2> QED
    BY <2>1, <2>2, StillLocal, UpdateLocal
<1>4. CASE Close(t)
  BY <1>4, StillLocal DEF Close
<1> QED
  BY <1>2, <1>3, <1>4

(* The steps of main, the end of the process and its restart. *)
LEMMA LocalMain ==
    ASSUME TypeOK, LocalInv, EndBoot \/ Monitor \/ Crash \/ Restart
    PROVE  LocalInv'
<1>1. CASE EndBoot /\ Mode # "LIST"
  <2>1. \A t \in Tasks : Settled(task'[t])
    BY <1>1, FreshSettled DEF EndBoot
  <2> QED
    BY <2>1 DEF LocalInv, Settled, InPass
<1>2. CASE Restart
  BY <1>2, StillLocal DEF Restart
<1>3. CASE (EndBoot /\ Mode = "LIST") \/ Monitor \/ Crash
  BY <1>3, ExitLocal DEF EndBoot, Monitor, Crash
<1> QED
  BY <1>1, <1>2, <1>3

(* Initially no task holds anything. *)
LEMMA LocalInit == Init => LocalInv
BY FreshSettled DEF Init, LocalInv

(* Every step keeps the tasks settled. *)
LEMMA LocalNext == TypeOK /\ LocalInv /\ [Next]_vars => LocalInv'
<1> SUFFICES ASSUME TypeOK, LocalInv, [Next]_vars PROVE LocalInv'
  OBVIOUS
<1>1. CASE UNCHANGED vars
  BY <1>1, StillLocal DEF vars
<1>2. ASSUME NEW t \in Tasks, Step(t) PROVE LocalInv'
  BY <1>2, LocalList, LocalItem, LocalFile, LocalHook, LocalWatch DEF Step
<1>3. ASSUME NEW t \in Tasks, Fails(t) \/ Close(t) PROVE LocalInv'
  BY <1>3, LocalHook, LocalWatch DEF Fails
<1>4. CASE User
  BY <1>4, StillLocal DEF User
<1>5. CASE EndBoot \/ Monitor \/ Crash \/ Restart
  BY <1>5, LocalMain
<1> QED
  BY <1>1, <1>2, <1>3, <1>4, <1>5 DEF Next

(* A task holds objects and operations only within a pass, and knows of       *)
(* changed files only until its hooks are due.                                *)
THEOREM LocalCorrect == Spec => []LocalInv
BY TypeInit, TypeNext, LocalInit, LocalNext, PTL DEF Spec
-----------------------------------------------------------------------------
(* The hooks of a change are due: the task knows of it, or is to run a hook. *)
Due(local) == local.changed \/ local.pc \in {"script", "request"}

(* Where a hook is configured and not skipped, a pass that changed a file runs one. *)
LEMMA NotifyDue ==
    ASSUME HooksKept, Hooks # {}, NEW t \in Tasks, NEW local \in Task
    PROVE  /\ local.changed => Due(Notify(t, local))
           /\ Notify(t, local).pc # "dead"
<1>1. "script" \in HooksNow \/ "request" \in HooksNow
  BY ConfigAssumption DEF HooksNow, HooksKept
<1>2. local.changed => Notify(t, local).pc \in {"script", "request"}
  BY <1>1 DEF Notify, Fresh
<1>3. Notify(t, local).pc # "dead"
  BY DEF Notify, Resting, Fresh
<1> QED
  BY <1>2, <1>3 DEF Due

(* A step of one task that keeps what is due to the hooks. *)
LEMMA UpdateHook ==
    ASSUME TypeOK, HookInv, NEW t \in Tasks, NEW local, local.pc # "dead",
           Due(task[t]) => Due(local),
           task' = [task EXCEPT ![t] = local], UNCHANGED <<files, told>>
    PROVE  HookInv'
<1>1. \A u \in Tasks : task'[u] = IF u = t THEN local ELSE task[u]
  BY DEF TypeOK
<1> SUFFICES ASSUME HooksKept, Hooks # {}
             PROVE  /\ \A u \in Tasks : task'[u].pc # "dead"
                    /\ told # files => \E u \in Tasks : Due(task'[u])
  BY DEF HookInv, Due
<1>2. \A u \in Tasks : task[u].pc # "dead"
  BY DEF HookInv
<1>3. ASSUME told # files PROVE \E u \in Tasks : Due(task'[u])
  <2>1. PICK u \in Tasks : Due(task[u])
    BY <1>3 DEF HookInv, Due
  <2> QED
    BY <1>1, <2>1
<1> QED
  BY <1>1, <1>2, <1>3

(* A step that leaves the tasks and the files alone. *)
LEMMA StillHook == HookInv /\ UNCHANGED <<task, files, told>> => HookInv'
BY DEF HookInv

(* A step after which the hooks know the files. *)
LEMMA ToldHook ==
    ASSUME TypeOK, HookInv, NEW t \in Tasks, NEW local, local.pc # "dead",
           task' = [task EXCEPT ![t] = local], told' = files'
    PROVE  HookInv'
<1>1. \A u \in Tasks : task'[u] = IF u = t THEN local ELSE task[u]
  BY DEF TypeOK
<1> QED
  BY <1>1 DEF HookInv

(* The end of a process that owes no hook. *)
LEMMA ExitHook ==
    ASSUME NEW status, Exit(status), HooksKept /\ Hooks # {} => told = files
    PROVE  HookInv'
<1>1. \A t \in Tasks : task'[t].pc # "dead"
  BY DEF Exit, Fresh
<1> QED
  BY <1>1 DEF Exit, HookInv

(* Where only a fetch may fail, no pass fails and no process crashes. *)
LEMMA NoFaultHook ==
    ASSUME NEW kind, Spend(kind), kind # "fetch"
    PROVE  HookInv'
BY DEF Spend, HooksKept, HookInv

(* A write or removal that does not fail tells whether the file changed. *)
LEMMA OutcomeTold ==
    ASSUME NEW old, NEW data
    PROVE  /\ \A out \in F!WriteDataToFile(old, data, FALSE) : out.now # old => out.changed
           /\ \A out \in F!RemoveFile(old, FALSE) : out.now # old => out.changed
BY DEF F!WriteDataToFile, F!RemoveFile, F!Outcome

(* A file operation that does not fail. *)
LEMMA PerformHook ==
    ASSUME TypeOK, HookInv, NEW t \in Tasks, NEW op \in task[t].ops, NEW data,
           Perform(t, op, data, FALSE), task[t].pc \in {"file", "fetch"}, UNCHANGED told
    PROVE  HookInv'
<1> DEFINE slot == Slot(op.path, op.res, op.key)
<1>1. PICK out \in IF op.put = None
                   THEN F!RemoveFile(files[slot], FALSE)
                   ELSE F!WriteDataToFile(files[slot], data, FALSE) :
          /\ files' = [files EXCEPT ![slot] = out.now]
          /\ task' = [task EXCEPT ![t].pc = "file",
                                  ![t].ops = @ \ {op},
                                  ![t].changed = @ \/ out.changed]
  BY DEF Perform
<1>2. out.now # files[slot] => out.changed
  BY <1>1, OutcomeTold
<1> HIDE DEF slot
<1> DEFINE local == [task[t] EXCEPT !.pc = "file", !.ops = @ \ {op},
                                    !.changed = @ \/ out.changed]
<1>3. task[t] \in Task
  BY DEF TypeOK
<1>4. task' = [task EXCEPT ![t] = local]
  BY <1>1 DEF TypeOK
<1>5. local.pc = "file" /\ (local.changed <=> (task[t].changed \/ out.changed))
  BY <1>3 DEF Task
<1> HIDE DEF local
<1>6. CASE out.now = files[slot]
  <2>1. files' = files
    BY <1>1, <1>6 DEF TypeOK
  <2>2. Due(task[t]) => Due(local)
    BY <1>5 DEF Due
  <2> QED
    BY <1>4, <1>5, <2>1, <2>2, UpdateHook
<1>7. CASE out.now # files[slot]
  <2>1. Due(local)
    BY <1>2, <1>5, <1>7 DEF Due
  <2>2. \A u \in Tasks : task'[u] = IF u = t THEN local ELSE task[u]
    BY <1>4 DEF TypeOK
  <2>3. task'[t] = local /\ Due(task'[t])
    BY <2>1, <2>2
  <2>4. HooksKept /\ Hooks # {} => \A u \in Tasks : task'[u].pc # "dead"
    BY <1>5, <2>2 DEF HookInv
  <2> QED
    BY <2>3, <2>4 DEF HookInv, Due
<1> QED
  BY <1>6, <1>7

(* The calls a listing makes, and the choice of what is stale. *)
LEMMA HookList ==
    ASSUME TypeOK, LocalInv, HookInv, NEW t \in Tasks,
           BeginList(t) \/ ReadNamed(t) \/ ListPage(t) \/ BeginStale(t) \/ EndList(t)
    PROVE  HookInv'
<1>1. task[t] \in Task /\ Settled(task[t])
  BY DEF TypeOK, LocalInv
<1>2. UNCHANGED <<files, told>>
  BY DEF BeginList, ReadNamed, ListPage, BeginStale, EndList, volume
<1>3. CASE BeginList(t)
  <2>1. PICK local \in {[Fresh EXCEPT !.pc = "names", !.names = Chosen(t)],
                        [Fresh EXCEPT !.pc = "page", !.pages = Selected(t)]} :
          task' = [task EXCEPT ![t] = local]
    BY <1>3 DEF BeginList
  <2>2. local.pc # "dead"
    BY <2>1 DEF Fresh
  <2>3. ~Due(task[t])
    BY <1>1, <1>3 DEF Settled, Due, BeginList, MainsTurn
  <2> QED
    BY <1>2, <2>1, <2>2, <2>3, UpdateHook
<1>4. \A local \in Task : \A got : local.pc \in {"names", "page"} =>
         Gathered(local, got).pc # "dead"
  BY DEF Gathered, Task
<1>5. CASE ReadNamed(t)
  <2>1. PICK n \in task[t].names :
          task' = [task EXCEPT ![t] = Gathered([task[t] EXCEPT !.names = @ \ {n}],
                                               task[t].items \union Named(t, n))]
    BY <1>5 DEF ReadNamed
  <2> DEFINE local == [task[t] EXCEPT !.names = @ \ {n}]
             got == task[t].items \union Named(t, n)
  <2>2. local \in Task /\ local.pc \in {"names", "page"}
    BY <1>1, <1>5 DEF Task, ReadNamed
  <2>3. ~Due(task[t])
    BY <1>1, <1>5 DEF Settled, Due, ReadNamed
  <2>4. task' = [task EXCEPT ![t] = Gathered(local, got)]
    BY <2>1
  <2> HIDE DEF local, got
  <2>5. Gathered(local, got).pc # "dead"
    BY <1>4, <2>2
  <2> QED
    BY <1>2, <2>3, <2>4, <2>5, UpdateHook
<1>6. CASE ListPage(t)
  <2>1. PICK page \in SUBSET task[t].pages :
          task' = [task EXCEPT ![t] = Gathered([task[t] EXCEPT !.pages = @ \ page],
                                               task[t].items \union page)]
    BY <1>6 DEF ListPage
  <2> DEFINE local == [task[t] EXCEPT !.pages = @ \ page]
             got == task[t].items \union page
  <2>2. local \in Task /\ local.pc \in {"names", "page"}
    BY <1>1, <1>6 DEF Task, ListPage
  <2>3. ~Due(task[t])
    BY <1>1, <1>6 DEF Settled, Due, ListPage
  <2>4. task' = [task EXCEPT ![t] = Gathered(local, got)]
    BY <2>1
  <2> HIDE DEF local, got
  <2>5. Gathered(local, got).pc # "dead"
    BY <1>4, <2>2
  <2> QED
    BY <1>2, <2>3, <2>4, <2>5, UpdateHook
<1>7. CASE BeginStale(t)
  <2>1. task' = [task EXCEPT ![t] = [task[t] EXCEPT !.pc = "stale", !.via = "stale",
                                            !.stale = Stale(t), !.exist = {}]]
    BY <1>7 DEF BeginStale, TypeOK
  <2>2. LET local == [task[t] EXCEPT !.pc = "stale", !.via = "stale",
                                     !.stale = Stale(t), !.exist = {}]
        IN  local.pc # "dead" /\ (Due(task[t]) => Due(local))
    BY <1>1, <1>7 DEF Due, Task, BeginStale
  <2> QED
    BY <1>2, <2>1, <2>2, UpdateHook
<1>8. CASE EndList(t)
  <2>1. task' = [task EXCEPT ![t] = Notify(t, task[t])] /\ task[t].pc = "stale"
    BY <1>8 DEF EndList, TypeOK
  <2>2. HooksKept /\ Hooks # {} =>
          Notify(t, task[t]).pc # "dead" /\ (Due(task[t]) => Due(Notify(t, task[t])))
    BY <1>1, <2>1, NotifyDue DEF Due
  <2> QED
    BY <1>2, <2>1, <2>2, UpdateHook DEF HookInv
<1> QED
  BY <1>3, <1>5, <1>6, <1>7, <1>8

(* The processing of the listed objects and the stale sweep. *)
LEMMA HookItem ==
    ASSUME TypeOK, HookInv, NEW t \in Tasks, ListItem(t) \/ RemoveStale(t)
    PROVE  HookInv'
<1>1. task[t] \in Task
  BY DEF TypeOK
<1>2. UNCHANGED <<files, told>>
  BY DEF ListItem, RemoveStale, volume
<1>3. CASE ListItem(t)
  <2>1. PICK it \in task[t].items : \E ops :
         \/ task' = [task EXCEPT ![t] = [task[t] EXCEPT !.items = @ \ {it}, !.via = "list"]]
         \/ task' = [task EXCEPT ![t] = [[task[t] EXCEPT !.items = @ \ {it}, !.via = "list"]
                                           EXCEPT !.pc = "file", !.ops = ops]]
    BY <1>3 DEF ListItem, Store
  <2>2. \A ops : \A local \in {[task[t] EXCEPT !.items = @ \ {it}, !.via = "list"],
                                [[task[t] EXCEPT !.items = @ \ {it}, !.via = "list"]
                                   EXCEPT !.pc = "file", !.ops = ops]} :
          local.pc # "dead" /\ (Due(task[t]) => Due(local))
    BY <1>1, <1>3 DEF Due, Task, ListItem
  <2> QED
    BY <1>2, <2>1, <2>2, UpdateHook
<1>4. CASE RemoveStale(t)
  <2>1. PICK c, ops :
         task' = [task EXCEPT ![t] = [[task[t] EXCEPT !.stale = @ \ {c}]
                                        EXCEPT !.pc = "file", !.ops = ops]]
    BY <1>4 DEF RemoveStale, Forget
  <2>2. LET local == [[task[t] EXCEPT !.stale = @ \ {c}] EXCEPT !.pc = "file", !.ops = ops]
        IN  local.pc # "dead" /\ (Due(task[t]) => Due(local))
    BY <1>1, <1>4 DEF Due, Task, RemoveStale
  <2> QED
    BY <1>2, <2>1, <2>2, UpdateHook
<1> QED
  BY <1>3, <1>4

(* The calls of update_file. *)
LEMMA HookFile ==
    ASSUME TypeOK, LocalInv, HookInv, NEW t \in Tasks,
           UpdateFile(t) \/ FetchUrl(t) \/ UpdateFetched(t) \/ FinishItem(t)
    PROVE  HookInv'
<1>1. task[t] \in Task /\ Settled(task[t])
  BY DEF TypeOK, LocalInv
<1>2. CASE UpdateFile(t)
  <2>1. PICK op \in task[t].ops : \/ Perform(t, op, op.put, FALSE)
                                  \/ Spend("fs")
    BY <1>2 DEF UpdateFile
  <2> QED
    BY <1>2, <2>1, PerformHook, NoFaultHook DEF UpdateFile
<1>3. CASE UpdateFetched(t)
  <2>1. PICK op \in task[t].ops : \/ Perform(t, op, Body(op.put), FALSE)
                                  \/ Perform(t, op, Empty, FALSE)
                                  \/ Spend("fs")
    BY <1>3 DEF UpdateFetched
  <2> QED
    BY <1>3, <2>1, PerformHook, NoFaultHook DEF UpdateFetched
<1>4. CASE FetchUrl(t)
  <2>1. task' = [task EXCEPT ![t] = [task[t] EXCEPT !.pc = "fetch"]] /\ task[t].pc = "file"
    BY <1>4 DEF FetchUrl, TypeOK
  <2>2. LET local == [task[t] EXCEPT !.pc = "fetch"]
        IN  local.pc # "dead" /\ (Due(task[t]) => Due(local))
    BY <1>1, <2>1 DEF Due, Task
  <2>3. UNCHANGED <<files, told>>
    BY <1>4 DEF FetchUrl, volume
  <2> QED
    BY <2>1, <2>2, <2>3, UpdateHook
<1>5. CASE FinishItem(t)
  <2>1. task[t].via \in {"list", "stale", "event"} /\ task[t].pc = "file"
    BY <1>1, <1>5 DEF Task, FinishItem
  <2>2. PICK local \in {[task[t] EXCEPT !.pc = "items"], [task[t] EXCEPT !.pc = "stale"],
                        Notify(t, task[t])} :
           task' = [task EXCEPT ![t] = local]
    BY <1>5, <2>1 DEF FinishItem
  <2>3. \A next \in {[task[t] EXCEPT !.pc = "items"], [task[t] EXCEPT !.pc = "stale"]} :
           next.pc # "dead" /\ (Due(task[t]) => Due(next))
    BY <1>1, <2>1 DEF Due, Task
  <2>4. HooksKept /\ Hooks # {} =>
          Notify(t, task[t]).pc # "dead" /\ (Due(task[t]) => Due(Notify(t, task[t])))
    BY <1>1, <2>1, NotifyDue DEF Due
  <2>5. UNCHANGED <<files, told>>
    BY <1>5 DEF FinishItem, volume
  <2> QED
    BY <2>2, <2>3, <2>4, <2>5, UpdateHook DEF HookInv
<1> QED
  BY <1>2, <1>3, <1>4, <1>5

(* The hooks and the failures. *)
LEMMA HookHook ==
    ASSUME TypeOK, LocalInv, HookInv, NEW t \in Tasks,
           RunScript(t) \/ SendRequest(t) \/ Wake(t) \/ ScriptFails(t) \/ ApiFails(t)
    PROVE  HookInv'
<1>1. task[t] \in Task /\ Settled(task[t])
  BY DEF TypeOK, LocalInv
<1>2. CASE RunScript(t) \/ SendRequest(t)
  <2>1. PICK local \in {[task[t] EXCEPT !.pc = "request"], Resting(t, task[t])} :
           task' = [task EXCEPT ![t] = local]
    BY <1>2 DEF RunScript, SendRequest
  <2>2. local.pc # "dead"
    BY <1>1, <2>1 DEF Resting, Fresh, Task
  <2>3. told' = files'
    BY <1>2 DEF RunScript, SendRequest, volume
  <2> QED
    BY <2>1, <2>2, <2>3, ToldHook
<1>3. CASE Wake(t)
  <2>1. /\ task' = [task EXCEPT ![t] = [task[t] EXCEPT !.pc = "loop"]]
        /\ task[t].pc \in {"sleep", "throttle"}
        /\ UNCHANGED <<files, told>>
    BY <1>3 DEF Wake, TypeOK, volume
  <2>2. LET local == [task[t] EXCEPT !.pc = "loop"]
        IN  local.pc # "dead" /\ (Due(task[t]) => Due(local))
    BY <1>1, <2>1 DEF Due, Task
  <2> QED
    BY <2>1, <2>2, UpdateHook
<1>4. CASE ScriptFails(t) \/ ApiFails(t)
  BY <1>4, NoFaultHook DEF ScriptFails, ApiFails
<1> QED
  BY <1>2, <1>3, <1>4

(* The watch loop. *)
LEMMA HookWatch ==
    ASSUME TypeOK, LocalInv, HookInv, NEW t \in Tasks,
           Connect(t) \/ HandleEvent(t) \/ StreamEnds(t) \/ Close(t)
    PROVE  HookInv'
<1>1. task[t] \in Task /\ Settled(task[t])
  BY DEF TypeOK, LocalInv
<1>2. UNCHANGED <<files, told>>
  BY DEF Connect, HandleEvent, StreamEnds, Close, volume
<1>3. CASE Connect(t) \/ StreamEnds(t)
  <2>1. PICK pc \in {"watch", "loop"} : task' = [task EXCEPT ![t] = [task[t] EXCEPT !.pc = pc]]
    BY <1>3 DEF Connect, StreamEnds, TypeOK
  <2>2. task[t].pc \in {"watch", "loop"}
    BY <1>3 DEF Connect, StreamEnds
  <2>3. LET local == [task[t] EXCEPT !.pc = pc]
        IN  local.pc # "dead" /\ (Due(task[t]) => Due(local))
    BY <1>1, <2>1, <2>2 DEF Due, Task
  <2> QED
    BY <1>2, <2>1, <2>3, UpdateHook
<1>4. CASE HandleEvent(t)
  <2>1. PICK ops : \/ UNCHANGED task
                   \/ task' = [task EXCEPT ![t] = [[Fresh EXCEPT !.via = "event"]
                                                     EXCEPT !.pc = "file", !.ops = ops]]
    BY <1>4 DEF HandleEvent, Store, Forget
  <2>2. [[Fresh EXCEPT !.via = "event"] EXCEPT !.pc = "file", !.ops = ops].pc # "dead"
    BY DEF Fresh
  <2>3. ~Due(task[t])
    BY <1>1, <1>4 DEF Settled, Due, HandleEvent
  <2> QED
    BY <1>2, <2>1, <2>2, <2>3, StillHook, UpdateHook
<1>5. CASE Close(t)
  BY <1>2, <1>5, StillHook DEF Close
<1> QED
  BY <1>3, <1>4, <1>5

(* The steps of main, the end of the process and its restart. *)
LEMMA HookMain ==
    ASSUME TypeOK, LocalInv, HookInv, EndBoot \/ Monitor \/ Crash \/ Restart
    PROVE  HookInv'
<1>1. CASE EndBoot
  <2>1. \A t \in Tasks : ~Due(task[t])
    BY <1>1 DEF EndBoot, LocalInv, Settled, Due
  <2>2. HooksKept /\ Hooks # {} => told = files
    BY <2>1 DEF HookInv, Due
  <2>3. CASE Mode = "LIST"
    BY <1>1, <2>2, <2>3, ExitHook DEF EndBoot
  <2>4. CASE Mode # "LIST"
    <3>1. (\A t \in Tasks : task'[t].pc # "dead") /\ UNCHANGED <<files, told>>
      BY <1>1, <2>4 DEF EndBoot, Fresh, volume
    <3> QED
      BY <2>2, <3>1 DEF HookInv
  <2> QED
    BY <2>3, <2>4
<1>2. CASE Monitor
  <2>1. \E t \in Tasks : task[t].pc = "dead"
    BY <1>2 DEF Monitor
  <2> QED
    BY <2>1 DEF HookInv
<1>3. CASE Crash
  BY <1>3, NoFaultHook DEF Crash
<1>4. CASE Restart
  BY <1>4, StillHook DEF Restart, volume
<1> QED
  BY <1>1, <1>2, <1>3, <1>4

(* Initially the hooks know the files. *)
LEMMA HookInit == Init => HookInv
BY DEF Init, HookInv, Fresh

(* Every step keeps what is due to the hooks. *)
LEMMA HookNext == TypeOK /\ LocalInv /\ HookInv /\ [Next]_vars => HookInv'
<1> SUFFICES ASSUME TypeOK, LocalInv, HookInv, [Next]_vars PROVE HookInv'
  OBVIOUS
<1>1. CASE UNCHANGED vars
  BY <1>1, StillHook DEF vars, volume
<1>2. ASSUME NEW t \in Tasks, Step(t) PROVE HookInv'
  BY <1>2, HookList, HookItem, HookFile, HookHook, HookWatch DEF Step
<1>3. ASSUME NEW t \in Tasks, Fails(t) \/ Close(t) PROVE HookInv'
  BY <1>3, HookHook, HookWatch DEF Fails
<1>4. CASE User
  BY <1>4, StillHook DEF User, volume
<1>5. CASE EndBoot \/ Monitor \/ Crash \/ Restart
  BY <1>5, HookMain
<1> QED
  BY <1>1, <1>2, <1>3, <1>4, <1>5 DEF Next

(* Where nothing but fetches fails and no hook is skipped, each change of a   *)
(* file is known to a task of a pass whose hooks are still to run.            *)
THEOREM HooksDueCorrect == Spec => []HookInv
BY TypeInit, TypeNext, LocalInit, LocalNext, HookInit, HookNext, PTL DEF Spec

(* Where nothing but fetches fails and no hook is skipped, the hooks have run *)
(* after the last change of a file whenever all tasks rest.                   *)
THEOREM HooksSawLastChangeCorrect == ASSUME HooksKept PROVE Spec => []HooksSawLastChange
<1>1. LocalInv /\ HookInv => HooksSawLastChange
  BY DEF LocalInv, Settled, HookInv, HooksSawLastChange, Quiet, UpToDate
<1> QED
  BY <1>1, LocalCorrect, HooksDueCorrect, PTL
-----------------------------------------------------------------------------
(* All that a task holds bears a name that RESOURCE_NAME lists. *)
HoldsNamed(local) ==
    /\ local.pc \notin {"page", "watch"}
    /\ local.via # "event"
    /\ \A it \in local.items : NameOf[it.res] \in ListedNames
    /\ \A c \in local.stale : NameOf[c.res] \in ListedNames
    /\ \A op \in local.ops : NameOf[op.res] \in ListedNames
MapsNamed == \A m \in MapKeys : object[m] # None => NameOf[object[m].res] \in ListedNames

(* NamedInv, task by task. *)
LEMMA NamedParts ==
    NamedInv <=> (AllNamed => (\A t \in Tasks : HoldsNamed(task[t])) /\ MapsNamed)
BY DEF NamedInv, HoldsNamed, MapsNamed

(* A task that rests, or is to run a hook, holds nothing. *)
LEMMA RestingNamed ==
    \A t, local : local.via # "event" => /\ HoldsNamed(Fresh)
                                         /\ HoldsNamed(Resting(t, local))
                                         /\ HoldsNamed(Notify(t, local))
BY DEF HoldsNamed, Fresh, Resting, Notify

(* A step of one task. *)
LEMMA UpdateNamed ==
    ASSUME TypeOK, NamedInv, NEW t \in Tasks, NEW local, HoldsNamed(local),
           task' = [task EXCEPT ![t] = local], MapsNamed'
    PROVE  NamedInv'
<1>1. \A u \in Tasks : task'[u] = IF u = t THEN local ELSE task[u]
  BY DEF TypeOK
<1>2. AllNamed => \A u \in Tasks : HoldsNamed(task'[u])
  BY <1>1, NamedParts
<1>3. AllNamed' <=> AllNamed
  BY DEF AllNamed
<1> QED
  BY <1>2, <1>3 DEF NamedInv, HoldsNamed, MapsNamed

(* A step of one task that leaves the maps alone. *)
LEMMA LocalNamed ==
    ASSUME TypeOK, NamedInv, AllNamed, NEW t \in Tasks, NEW local, HoldsNamed(local),
           task' = [task EXCEPT ![t] = local], UNCHANGED object
    PROVE  NamedInv'
<1>1. MapsNamed'
  BY NamedParts DEF MapsNamed
<1> QED
  BY <1>1, UpdateNamed

(* A step that leaves the tasks and the maps alone. *)
LEMMA StillNamed == NamedInv /\ UNCHANGED <<task, object>> => NamedInv'
BY DEF NamedInv, AllNamed

(* The end of a process. *)
LEMMA ExitNamed ==
    ASSUME NEW status, Exit(status)
    PROVE  NamedInv'
<1>1. \A t \in Tasks : task'[t] = Fresh
  BY DEF Exit
<1>2. \A m \in MapKeys : object'[m] = None
  BY DEF Exit
<1> QED
  BY <1>1, <1>2 DEF NamedInv, Fresh

(* A watcher that reads by name never opens a stream. *)
LEMMA NamedSleeps == \A t \in Tasks : ByName(t) => SleepMode(t)
BY DEF ByName, SleepMode, Chosen

(* process_resource of an object of a listed name, or one that is gone. *)
LEMMA StoreNamed ==
    ASSUME TypeOK, ObjectKeyed, NamedInv, AllNamed, NEW t \in Tasks, NEW local \in Task,
           HoldsNamed(local), NEW item \in Item, NameOf[item.res] \in ListedNames, NEW to,
           Store(t, local, item, to)
    PROVE  NamedInv'
<1> DEFINE m == MapKey(item.res)
           new == CachedItem(item)
           old == IF object[m] # None THEN object[m] ELSE new
           ops == Writes(item, to) \union Leftovers(old, new, OldDest(m, to), to)
<1>1. item.res \in Res /\ m \in MapKeys
  BY MapKeyType DEF Item
<1>2. new.res = item.res
  BY DEF CachedItem
<1>3. NameOf[old.res] \in ListedNames
  BY <1>1, <1>2 DEF NamedInv
<1>4. \A op \in ops : NameOf[op.res] \in ListedNames
  BY <1>3 DEF Writes, Leftovers
<1>5. /\ object' = [object EXCEPT ![m] = new]
      /\ task' = [task EXCEPT ![t] = [local EXCEPT !.pc = "file", !.ops = ops]]
  BY DEF Store
<1> HIDE DEF m, new, old, ops
<1>6. MapsNamed'
  BY <1>1, <1>2, <1>5 DEF TypeOK, MapsNamed, NamedInv
<1>7. HoldsNamed([local EXCEPT !.pc = "file", !.ops = ops])
  BY <1>4 DEF HoldsNamed, Task
<1> QED
  BY <1>5, <1>6, <1>7, UpdateNamed

(* The calls a listing makes, and the choice of what is stale. *)
LEMMA NamedList ==
    ASSUME TypeOK, ScopeInv, NamedInv, AllNamed, NEW t \in Tasks,
           BeginList(t) \/ ReadNamed(t) \/ ListPage(t) \/ BeginStale(t) \/ EndList(t)
    PROVE  NamedInv'
<1>1. task[t] \in Task /\ HoldsNamed(task[t]) /\ MapsNamed
  BY NamedParts DEF TypeOK
<1>2. CASE BeginList(t)
  <2>1. task' = [task EXCEPT ![t] = [Fresh EXCEPT !.pc = "names", !.names = Chosen(t)]]
    BY <1>2 DEF BeginList, AllNamed
  <2>2. HoldsNamed([Fresh EXCEPT !.pc = "names", !.names = Chosen(t)])
    BY DEF HoldsNamed, Fresh
  <2> QED
    BY <1>2, <2>1, <2>2, LocalNamed DEF BeginList, maps
<1>3. CASE ReadNamed(t)
  <2>1. PICK n \in task[t].names :
          task' = [task EXCEPT ![t] = Gathered([task[t] EXCEPT !.names = @ \ {n}],
                                               task[t].items \union Named(t, n))]
    BY <1>3 DEF ReadNamed
  <2>2. n \in ListedNames
    BY <1>1 DEF Task
  <2>3. \A it \in Named(t, n) : NameOf[it.res] \in ListedNames
    BY <2>2 DEF Named, ScopeInv, ClusterNamed
  <2>4. \A it \in task[t].items \union Named(t, n) : NameOf[it.res] \in ListedNames
    BY <1>1, <2>3 DEF HoldsNamed
  <2>5. HoldsNamed(Gathered([task[t] EXCEPT !.names = @ \ {n}],
                            task[t].items \union Named(t, n)))
    BY <1>1, <2>4 DEF HoldsNamed, Gathered, Task
  <2> QED
    BY <1>3, <2>1, <2>5, LocalNamed DEF ReadNamed, maps
<1>4. CASE ListPage(t)
  BY <1>1, <1>4 DEF ListPage, HoldsNamed
<1>5. CASE BeginStale(t)
  <2>1. task' = [task EXCEPT ![t] = [task[t] EXCEPT !.pc = "stale", !.via = "stale",
                                            !.stale = Stale(t), !.exist = {}]]
    BY <1>5 DEF BeginStale, TypeOK
  <2>2. \A c \in Stale(t) : NameOf[c.res] \in ListedNames
    BY <1>1 DEF Stale, MapsNamed
  <2>3. HoldsNamed([task[t] EXCEPT !.pc = "stale", !.via = "stale",
                                   !.stale = Stale(t), !.exist = {}])
    BY <1>1, <2>2 DEF HoldsNamed, Task
  <2> QED
    BY <1>5, <2>1, <2>3, LocalNamed DEF BeginStale, maps
<1>6. CASE EndList(t)
  <2>1. task[t].via # "event"
    BY <1>1 DEF HoldsNamed
  <2> QED
    BY <1>6, <2>1, RestingNamed, LocalNamed DEF EndList, maps
<1> QED
  BY <1>2, <1>3, <1>4, <1>5, <1>6

(* The processing of the listed objects and the stale sweep. *)
LEMMA NamedItem ==
    ASSUME TypeOK, ScopeInv, NamedInv, AllNamed, NEW t \in Tasks,
           ListItem(t) \/ RemoveStale(t)
    PROVE  NamedInv'
<1>1. task[t] \in Task /\ HoldsNamed(task[t]) /\ MapsNamed
  BY NamedParts DEF TypeOK
<1>2. CASE ListItem(t)
  <2>1. PICK it \in task[t].items :
         \/ /\ task' = [task EXCEPT ![t] = [task[t] EXCEPT !.items = @ \ {it}, !.via = "list"]]
            /\ UNCHANGED maps
         \/ Store(t, [task[t] EXCEPT !.items = @ \ {it}, !.via = "list"], it,
                  get_destination_folder(it.ann))
    BY <1>2 DEF ListItem
  <2> DEFINE rest == [task[t] EXCEPT !.items = @ \ {it}, !.via = "list"]
  <2>2. /\ rest \in Task /\ HoldsNamed(rest) /\ it \in Item
        /\ NameOf[it.res] \in ListedNames
    BY <1>1 DEF Task, HoldsNamed
  <2> HIDE DEF rest
  <2>3. CASE task' = [task EXCEPT ![t] = rest] /\ UNCHANGED maps
    BY <2>2, <2>3, LocalNamed DEF maps
  <2>4. CASE Store(t, rest, it, get_destination_folder(it.ann))
    BY <2>2, <2>4, StoreNamed DEF ScopeInv
  <2> QED
    BY <2>1, <2>3, <2>4 DEF rest
<1>3. CASE RemoveStale(t)
  <2>1. PICK c \in task[t].stale : Forget(t, [task[t] EXCEPT !.stale = @ \ {c}], c, NoPath)
    BY <1>3 DEF RemoveStale
  <2> DEFINE local == [task[t] EXCEPT !.stale = @ \ {c}]
             ops == Removals(c, OldDest(MapKey(c.res), NoPath))
  <2>2. local \in Task /\ HoldsNamed(local) /\ NameOf[c.res] \in ListedNames
    BY <1>1 DEF Task, HoldsNamed
  <2>3. \A op \in ops : NameOf[op.res] \in ListedNames
    BY <2>2 DEF Removals
  <2>4. /\ object' = [object EXCEPT ![MapKey(c.res)] = None]
        /\ task' = [task EXCEPT ![t] = [local EXCEPT !.pc = "file", !.ops = ops]]
    BY <2>1 DEF Forget
  <2> HIDE DEF local, ops
  <2>5. MapsNamed'
    BY <1>1, <2>4 DEF MapsNamed, TypeOK
  <2>6. HoldsNamed([local EXCEPT !.pc = "file", !.ops = ops])
    BY <2>2, <2>3 DEF HoldsNamed, Task
  <2> QED
    BY <2>4, <2>5, <2>6, UpdateNamed
<1> QED
  BY <1>2, <1>3

(* The calls of update_file. *)
LEMMA NamedFile ==
    ASSUME TypeOK, NamedInv, AllNamed, NEW t \in Tasks,
           UpdateFile(t) \/ FetchUrl(t) \/ UpdateFetched(t) \/ FinishItem(t)
    PROVE  NamedInv'
<1>1. task[t] \in Task /\ HoldsNamed(task[t])
  BY NamedParts DEF TypeOK
<1>2. UNCHANGED object
  BY DEF UpdateFile, FetchUrl, UpdateFetched, FinishItem, maps
<1>3. CASE UpdateFile(t) \/ UpdateFetched(t)
  <2>1. PICK op, changed :
          task' = [task EXCEPT ![t].pc = "file", ![t].ops = @ \ {op}, ![t].changed = changed]
    BY <1>3 DEF UpdateFile, UpdateFetched, Perform
  <2>2. task' = [task EXCEPT ![t] = [task[t] EXCEPT !.pc = "file", !.ops = @ \ {op},
                                                    !.changed = changed]]
    BY <2>1 DEF TypeOK
  <2>3. HoldsNamed([task[t] EXCEPT !.pc = "file", !.ops = @ \ {op}, !.changed = changed])
    BY <1>1 DEF HoldsNamed, Task
  <2> QED
    BY <1>2, <2>2, <2>3, LocalNamed
<1>4. CASE FetchUrl(t)
  <2>1. task' = [task EXCEPT ![t] = [task[t] EXCEPT !.pc = "fetch"]]
    BY <1>4 DEF FetchUrl, TypeOK
  <2>2. HoldsNamed([task[t] EXCEPT !.pc = "fetch"])
    BY <1>1 DEF HoldsNamed, Task
  <2> QED
    BY <1>2, <2>1, <2>2, LocalNamed
<1>5. CASE FinishItem(t)
  <2>1. task[t].via \in {"list", "stale"}
    BY <1>1 DEF Task, HoldsNamed
  <2>2. PICK pc \in {"items", "stale"} : task' = [task EXCEPT ![t] = [task[t] EXCEPT !.pc = pc]]
    BY <1>5, <2>1 DEF FinishItem
  <2>3. HoldsNamed([task[t] EXCEPT !.pc = pc])
    BY <1>1, <2>2 DEF HoldsNamed, Task
  <2> QED
    BY <1>2, <2>2, <2>3, LocalNamed
<1> QED
  BY <1>3, <1>4, <1>5

(* The hooks, the failures and the streams, of which there are none. *)
LEMMA NamedHook ==
    ASSUME TypeOK, NamedInv, AllNamed, NEW t \in Tasks,
           \/ RunScript(t) \/ SendRequest(t) \/ Wake(t) \/ ScriptFails(t) \/ ApiFails(t)
           \/ Connect(t) \/ HandleEvent(t) \/ StreamEnds(t) \/ Close(t)
    PROVE  NamedInv'
<1>1. task[t] \in Task /\ HoldsNamed(task[t])
  BY NamedParts DEF TypeOK
<1>2. CASE RunScript(t) \/ SendRequest(t)
  <2>1. PICK local \in {[task[t] EXCEPT !.pc = "request"], Resting(t, task[t])} :
           task' = [task EXCEPT ![t] = local]
    BY <1>2 DEF RunScript, SendRequest
  <2>2. HoldsNamed([task[t] EXCEPT !.pc = "request"]) /\ HoldsNamed(Resting(t, task[t]))
    BY <1>1, RestingNamed DEF HoldsNamed, Task
  <2> QED
    BY <1>2, <2>1, <2>2, LocalNamed DEF RunScript, SendRequest, maps
<1>3. CASE Wake(t)
  <2>1. task' = [task EXCEPT ![t] = [task[t] EXCEPT !.pc = "loop"]]
    BY <1>3 DEF Wake, TypeOK
  <2>2. HoldsNamed([task[t] EXCEPT !.pc = "loop"])
    BY <1>1 DEF HoldsNamed, Task
  <2> QED
    BY <1>3, <2>1, <2>2, LocalNamed DEF Wake, maps
<1>4. CASE ScriptFails(t) \/ ApiFails(t)
  <2>1. PICK pc \in {"dead", "throttle"} : Throw(t, pc)
    BY <1>4 DEF ScriptFails, ApiFails
  <2>2. HoldsNamed([Fresh EXCEPT !.pc = pc])
    BY <2>1 DEF HoldsNamed, Fresh
  <2>3. CASE proc = "boot"
    BY <2>1, <2>3, ExitNamed DEF Throw
  <2>4. CASE proc # "boot"
    BY <2>1, <2>2, <2>4, LocalNamed DEF Throw, maps
  <2> QED
    BY <2>3, <2>4
<1>5. CASE Connect(t)
  BY <1>5, NamedSleeps DEF Connect, AllNamed
<1>6. CASE HandleEvent(t) \/ StreamEnds(t)
  BY <1>1, <1>6 DEF HandleEvent, StreamEnds, HoldsNamed
<1>7. CASE Close(t)
  BY <1>7, StillNamed DEF Close, maps
<1> QED
  BY <1>2, <1>3, <1>4, <1>5, <1>6, <1>7

(* The steps of main, the end of the process and its restart. *)
LEMMA NamedMain ==
    ASSUME NamedInv, AllNamed, EndBoot \/ Monitor \/ Crash \/ Restart
    PROVE  NamedInv'
<1>1. CASE EndBoot /\ Mode # "LIST"
  <2>1. \A t \in Tasks : HoldsNamed(task'[t])
    BY <1>1 DEF EndBoot, HoldsNamed, Fresh
  <2>2. UNCHANGED object
    BY <1>1 DEF EndBoot, maps
  <2> QED
    BY <2>1, <2>2 DEF NamedInv, HoldsNamed
<1>2. CASE Restart
  BY <1>2, StillNamed DEF Restart, maps
<1>3. CASE (EndBoot /\ Mode = "LIST") \/ Monitor \/ Crash
  BY <1>3, ExitNamed DEF EndBoot, Monitor, Crash
<1> QED
  BY <1>1, <1>2, <1>3

(* Initially no task holds anything. *)
LEMMA NamedInit == Init => NamedInv
BY DEF Init, NamedInv, Fresh

(* Every step keeps to the listed names. *)
LEMMA NamedNext == TypeOK /\ ScopeInv /\ NamedInv /\ [Next]_vars => NamedInv'
<1> SUFFICES ASSUME TypeOK, ScopeInv, NamedInv, [Next]_vars, AllNamed PROVE NamedInv'
  BY DEF NamedInv, AllNamed
<1>1. CASE UNCHANGED vars
  BY <1>1, StillNamed DEF vars, maps
<1>2. ASSUME NEW t \in Tasks, Step(t) PROVE NamedInv'
  BY <1>2, NamedList, NamedItem, NamedFile, NamedHook DEF Step
<1>3. ASSUME NEW t \in Tasks, Fails(t) \/ Close(t) PROVE NamedInv'
  BY <1>3, NamedHook DEF Fails
<1>4. CASE User
  BY <1>4, StillNamed DEF User, maps
<1>5. CASE EndBoot \/ Monitor \/ Crash \/ Restart
  BY <1>5, NamedMain
<1> QED
  BY <1>1, <1>2, <1>3, <1>4, <1>5 DEF Next

(* Where RESOURCE_NAME has an entry for every watcher, nothing of another     *)
(* name is listed, remembered, swept or put on the volume.                    *)
THEOREM NamesCorrect == Spec => []NamedInv
BY TypeInit, TypeNext, ScopeInit, ScopeNext, NamedInit, NamedNext, PTL DEF Spec

(* Where RESOURCE_NAME has an entry for every watcher, no operation is for an *)
(* object it does not name (it has none for some watcher in the run unnamed). *)
THEOREM NamedOnlyCorrect == ASSUME AllNamed PROVE Spec => []NamedOnly
<1>1. NamedInv => NamedOnly
  BY DEF NamedInv, NamedOnly
<1> QED
  BY <1>1, NamesCorrect, PTL
=============================================================================

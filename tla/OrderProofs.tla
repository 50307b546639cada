---------------------------- MODULE OrderProofs ----------------------------
(***************************************************************************)
(* The versions of an object reach the maps in order: PhaseInv keeps the   *)
(* streams of a task away from its listings, OrderInv orders what is       *)
(* listed and queued, and so no older version is ever stored after a newer *)
(* one, through relists, reconnects and restarts.                          *)
(***************************************************************************)
EXTENDS OrderInvariants, PassProofs

(* PhaseInv of one task. *)
InPhase(t, local, s, p) ==
    /\ p \notin {"boot", "run"} => local = Fresh
    /\ local.pc \in {"loop", "watch", "sleep", "throttle", "dead"} => p = "run"
    /\ local.via = "event" => p = "run"
    /\ Lists(local) => p = "boot" \/ SleepMode(t)
    /\ p # "run" \/ SleepMode(t) => s = NoStream

(* PhaseInv, task by task. *)
LEMMA PhaseParts == PhaseInv <=> \A t \in Tasks : InPhase(t, task[t], stream[t], proc)
BY DEF PhaseInv, InPhase

(* A step of one task and its stream. *)
LEMMA UpdatePhase ==
    ASSUME TypeOK, PhaseInv, NEW t \in Tasks, NEW local, NEW s,
           InPhase(t, local, s, proc),
           task' = [task EXCEPT ![t] = local], stream' = [stream EXCEPT ![t] = s],
           UNCHANGED proc
    PROVE  PhaseInv'
<1>1. \A u \in Tasks : /\ task'[u] = IF u = t THEN local ELSE task[u]
                       /\ stream'[u] = IF u = t THEN s ELSE stream[u]
  BY DEF TypeOK
<1>2. \A u \in Tasks : InPhase(u, task'[u], stream'[u], proc)
  BY <1>1, PhaseParts
<1> QED
  BY <1>2 DEF PhaseInv, InPhase, Lists, InPass, SleepMode

(* A step of one task that leaves its stream alone. *)
LEMMA LocalPhase ==
    ASSUME TypeOK, PhaseInv, NEW t \in Tasks, NEW local,
           InPhase(t, local, stream[t], proc),
           task' = [task EXCEPT ![t] = local], UNCHANGED <<stream, proc>>
    PROVE  PhaseInv'
<1>1. stream' = [stream EXCEPT ![t] = stream[t]]
  BY DEF TypeOK
<1> QED
  BY <1>1, UpdatePhase

(* A task stays in its phase if it is at no other kind of place than before. *)
LEMMA SamePhase ==
    ASSUME NEW t \in Tasks, NEW local, NEW next, NEW s, NEW p \in {"boot", "run"},
           InPhase(t, local, s, p),
           next.pc \in {"loop", "watch", "sleep", "throttle", "dead"} =>
             local.pc \in {"loop", "watch", "sleep", "throttle", "dead"} \/ p = "run",
           next.via = "event" => local.via = "event",
           Lists(next) => Lists(local)
    PROVE  InPhase(t, next, s, p)
BY DEF InPhase

(* A step that leaves the tasks, their streams and the process alone. *)
LEMMA StillPhase == PhaseInv /\ UNCHANGED <<task, stream, proc>> => PhaseInv'
BY DEF PhaseInv, Lists, InPass, SleepMode

(* The end of a process. *)
LEMMA ExitPhase ==
    ASSUME NEW status \in {"exit0", "exit1", "killed"}, Exit(status)
    PROVE  PhaseInv'
<1>1. \A t \in Tasks : task'[t] = Fresh /\ stream'[t] = NoStream
  BY DEF Exit
<1>2. proc' = status
  BY DEF Exit
<1>3. \A t \in Tasks : InPhase(t, task'[t], stream'[t], proc')
  BY <1>1, <1>2 DEF InPhase, Fresh, Lists, InPass
<1> QED
  BY <1>3 DEF PhaseInv, InPhase, Lists, InPass, SleepMode

(* The end of a pass or an event. *)
LEMMA RestingPhase ==
    ASSUME NEW t \in Tasks, NEW local, InPhase(t, local, stream[t], proc),
           proc \in {"boot", "run"}
    PROVE  /\ InPhase(t, Resting(t, local), stream[t], proc)
           /\ InPhase(t, Notify(t, local), stream[t], proc)
BY DEF InPhase, Resting, Notify, Fresh, Lists, InPass

(* An error of a pass. *)
LEMMA ThrowPhase ==
    ASSUME TypeOK, PhaseInv, proc \in {"boot", "run"}, NEW t \in Tasks,
           NEW pc \in {"dead", "throttle"}, Throw(t, pc)
    PROVE  PhaseInv'
<1>1. CASE proc = "boot"
  BY <1>1, ExitPhase DEF Throw
<1>2. CASE proc = "run"
  <2>1. InPhase(t, [Fresh EXCEPT !.pc = pc], NoStream, proc)
    BY <1>2 DEF InPhase, Fresh, Lists, InPass
  <2> QED
    BY <1>2, <2>1, UpdatePhase DEF Throw
<1> QED
  BY <1>1, <1>2

(* The calls a listing makes, and the choice of what is stale. *)
LEMMA PhaseList ==
    ASSUME TypeOK, LocalInv, PhaseInv, proc \in {"boot", "run"}, NEW t \in Tasks,
           BeginList(t) \/ ReadNamed(t) \/ ListPage(t) \/ BeginStale(t) \/ EndList(t)
    PROVE  PhaseInv'
<1>1. task[t] \in Task /\ InPhase(t, task[t], stream[t], proc)
  BY PhaseParts DEF TypeOK
<1>2. UNCHANGED <<stream, proc>>
  BY DEF BeginList, ReadNamed, ListPage, BeginStale, EndList
<1>3. CASE BeginList(t)
  <2>1. PICK local \in {[Fresh EXCEPT !.pc = "names", !.names = Chosen(t)],
                        [Fresh EXCEPT !.pc = "page", !.pages = Selected(t)]} :
          task' = [task EXCEPT ![t] = local]
    BY <1>3 DEF BeginList
  <2>2. proc = "boot" \/ SleepMode(t)
    BY <1>3 DEF BeginList, MainsTurn
  <2>3. InPhase(t, local, stream[t], proc)
    BY <1>1, <2>1, <2>2 DEF InPhase, Fresh, Lists, InPass
  <2> QED
    BY <1>2, <2>1, <2>3, LocalPhase
<1>4. ASSUME NEW local \in Task, NEW got, local.pc \in {"names", "page"},
             local.pc = task[t].pc, local.via = task[t].via
      PROVE  InPhase(t, Gathered(local, got), stream[t], proc)
  <2>1. /\ Gathered(local, got).pc \in {"names", "page", "items"}
        /\ Gathered(local, got).via = local.via
    BY <1>4 DEF Gathered, Task
  <2>2. Lists(task[t])
    BY <1>4 DEF Lists
  <2> HIDE DEF Gathered
  <2> QED
    BY <1>1, <1>4, <2>1, <2>2, SamePhase DEF Lists
<1>5. CASE ReadNamed(t)
  <2>1. PICK n \in task[t].names :
          task' = [task EXCEPT ![t] = Gathered([task[t] EXCEPT !.names = @ \ {n}],
                                               task[t].items \union Named(t, n))]
    BY <1>5 DEF ReadNamed
  <2> DEFINE local == [task[t] EXCEPT !.names = @ \ {n}]
             got == task[t].items \union Named(t, n)
  <2>2. /\ local \in Task /\ local.pc \in {"names", "page"}
        /\ local.pc = task[t].pc /\ local.via = task[t].via
    BY <1>1, <1>5 DEF Task, ReadNamed
  <2>3. task' = [task EXCEPT ![t] = Gathered(local, got)]
    BY <2>1
  <2> HIDE DEF local, got
  <2>4. InPhase(t, Gathered(local, got), stream[t], proc)
    BY <1>4, <2>2
  <2> QED
    BY <1>2, <2>3, <2>4, LocalPhase
<1>6. CASE ListPage(t)
  <2>1. PICK page \in SUBSET task[t].pages :
          task' = [task EXCEPT ![t] = Gathered([task[t] EXCEPT !.pages = @ \ page],
                                               task[t].items \union page)]
    BY <1>6 DEF ListPage
  <2> DEFINE local == [task[t] EXCEPT !.pages = @ \ page]
             got == task[t].items \union page
  <2>2. /\ local \in Task /\ local.pc \in {"names", "page"}
        /\ local.pc = task[t].pc /\ local.via = task[t].via
    BY <1>1, <1>6 DEF Task, ListPage
  <2>3. task' = [task EXCEPT ![t] = Gathered(local, got)]
    BY <2>1
  <2> HIDE DEF local, got
  <2>4. InPhase(t, Gathered(local, got), stream[t], proc)
    BY <1>4, <2>2
  <2> QED
    BY <1>2, <2>3, <2>4, LocalPhase
<1>7. CASE BeginStale(t)
  <2>1. task' = [task EXCEPT ![t] = [task[t] EXCEPT !.pc = "stale", !.via = "stale",
                                            !.stale = Stale(t), !.exist = {}]]
    BY <1>7 DEF BeginStale, TypeOK
  <2>2. InPhase(t, [task[t] EXCEPT !.pc = "stale", !.via = "stale",
                                   !.stale = Stale(t), !.exist = {}], stream[t], proc)
    BY <1>1, <1>7 DEF BeginStale, InPhase, Lists, InPass, Task
  <2> QED
    BY <1>2, <2>1, <2>2, LocalPhase
<1>8. CASE EndList(t)
  BY <1>1, <1>2, <1>8, RestingPhase, LocalPhase DEF EndList
<1> QED
  BY <1>3, <1>5, <1>6, <1>7, <1>8

(* The processing of the listed objects and the stale sweep. *)
LEMMA PhaseItem ==
    ASSUME TypeOK, LocalInv, PhaseInv, proc \in {"boot", "run"}, NEW t \in Tasks,
           ListItem(t) \/ RemoveStale(t)
    PROVE  PhaseInv'
<1>1. task[t] \in Task /\ InPhase(t, task[t], stream[t], proc)
  BY PhaseParts DEF TypeOK
<1>2. UNCHANGED <<stream, proc>>
  BY DEF ListItem, RemoveStale
<1>3. CASE ListItem(t)
  <2>1. PICK it \in task[t].items : \E ops :
         \/ task' = [task EXCEPT ![t] = [task[t] EXCEPT !.items = @ \ {it}, !.via = "list"]]
         \/ task' = [task EXCEPT ![t] = [[task[t] EXCEPT !.items = @ \ {it}, !.via = "list"]
                                           EXCEPT !.pc = "file", !.ops = ops]]
    BY <1>3 DEF ListItem, Store
  <2>2. \A ops : \A local \in {[task[t] EXCEPT !.items = @ \ {it}, !.via = "list"],
                               [[task[t] EXCEPT !.items = @ \ {it}, !.via = "list"]
                                  EXCEPT !.pc = "file", !.ops = ops]} :
          InPhase(t, local, stream[t], proc)
    BY <1>1, <1>3 DEF ListItem, InPhase, Lists, InPass, Task
  <2> QED
    BY <1>2, <2>1, <2>2, LocalPhase
<1>4. CASE RemoveStale(t)
  <2>1. PICK c \in task[t].stale : \E ops :
         task' = [task EXCEPT ![t] = [[task[t] EXCEPT !.stale = @ \ {c}]
                                        EXCEPT !.pc = "file", !.ops = ops]]
    BY <1>4 DEF RemoveStale, Forget
  <2>2. \A ops : InPhase(t, [[task[t] EXCEPT !.stale = @ \ {c}]
                               EXCEPT !.pc = "file", !.ops = ops], stream[t], proc)
    BY <1>1, <1>4 DEF RemoveStale, InPhase, Lists, InPass, Task, LocalInv, Settled
  <2> QED
    BY <1>2, <2>1, <2>2, LocalPhase
<1> QED
  BY <1>3, <1>4

(* The calls of update_file. *)
LEMMA PhaseFile ==
    ASSUME TypeOK, PhaseInv, proc \in {"boot", "run"}, NEW t \in Tasks,
           UpdateFile(t) \/ FetchUrl(t) \/ UpdateFetched(t) \/ FinishItem(t)
    PROVE  PhaseInv'
<1>1. task[t] \in Task /\ InPhase(t, task[t], stream[t], proc)
  BY PhaseParts DEF TypeOK
<1>2. UNCHANGED <<stream, proc>>
  BY DEF UpdateFile, FetchUrl, UpdateFetched, FinishItem
<1>3. CASE UpdateFile(t) \/ UpdateFetched(t)
  <2>1. PICK op, changed :
          task' = [task EXCEPT ![t].pc = "file", ![t].ops = @ \ {op}, ![t].changed = changed]
    BY <1>3 DEF UpdateFile, UpdateFetched, Perform
  <2>2. task' = [task EXCEPT ![t] = [task[t] EXCEPT !.pc = "file", !.ops = @ \ {op},
                                                    !.changed = changed]]
    BY <2>1 DEF TypeOK
  <2>3. task[t].pc \in {"file", "fetch"}
    BY <1>3 DEF UpdateFile, UpdateFetched
  <2>4. InPhase(t, [task[t] EXCEPT !.pc = "file", !.ops = @ \ {op}, !.changed = changed],
                stream[t], proc)
    BY <1>1, <2>3 DEF InPhase, Lists, InPass, Task
  <2> QED
    BY <1>2, <2>2, <2>4, LocalPhase
<1>4. CASE FetchUrl(t)
  <2>1. task' = [task EXCEPT ![t] = [task[t] EXCEPT !.pc = "fetch"]] /\ task[t].pc = "file"
    BY <1>4 DEF FetchUrl, TypeOK
  <2>2. InPhase(t, [task[t] EXCEPT !.pc = "fetch"], stream[t], proc)
    BY <1>1, <2>1 DEF InPhase, Lists, InPass, Task
  <2> QED
    BY <1>2, <2>1, <2>2, LocalPhase
<1>5. CASE FinishItem(t)
  <2>1. task[t].via \in {"list", "stale", "event"} /\ task[t].pc = "file"
    BY <1>1, <1>5 DEF Task, FinishItem
  <2>2. \/ /\ task[t].via = "list"
           /\ task' = [task EXCEPT ![t] = [task[t] EXCEPT !.pc = "items"]]
        \/ /\ task[t].via = "stale"
           /\ task' = [task EXCEPT ![t] = [task[t] EXCEPT !.pc = "stale"]]
        \/ task' = [task EXCEPT ![t] = Notify(t, task[t])]
    BY <1>5, <2>1 DEF FinishItem
  <2>3. /\ task[t].via = "list" => InPhase(t, [task[t] EXCEPT !.pc = "items"], stream[t], proc)
        /\ task[t].via = "stale" => InPhase(t, [task[t] EXCEPT !.pc = "stale"], stream[t], proc)
    BY <1>1, <2>1 DEF InPhase, Lists, InPass, Task
  <2> QED
    BY <1>1, <1>2, <2>2, <2>3, RestingPhase, LocalPhase
<1> QED
  BY <1>3, <1>4, <1>5

(* The hooks and the failures. *)
LEMMA PhaseHook ==
    ASSUME TypeOK, PhaseInv, NEW t \in Tasks,
           \/ proc \in {"boot", "run"} /\ (RunScript(t) \/ SendRequest(t) \/ Wake(t))
           \/ ScriptFails(t) \/ ApiFails(t)
    PROVE  PhaseInv'
<1>1. task[t] \in Task /\ InPhase(t, task[t], stream[t], proc)
  BY PhaseParts DEF TypeOK
<1>2. CASE proc \in {"boot", "run"} /\ (RunScript(t) \/ SendRequest(t))
  <2>1. PICK local \in {[task[t] EXCEPT !.pc = "request"], Resting(t, task[t])} :
           task' = [task EXCEPT ![t] = local]
    BY <1>2 DEF RunScript, SendRequest
  <2>2. InPhase(t, [task[t] EXCEPT !.pc = "request"], stream[t], proc)
    BY <1>1, <1>2 DEF InPhase, Lists, InPass, Task
  <2>3. UNCHANGED <<stream, proc>>
    BY <1>2 DEF RunScript, SendRequest
  <2> QED
    BY <1>1, <1>2, <2>1, <2>2, <2>3, RestingPhase, LocalPhase
<1>3. CASE proc \in {"boot", "run"} /\ Wake(t)
  <2>1. /\ task' = [task EXCEPT ![t] = [task[t] EXCEPT !.pc = "loop"]]
        /\ task[t].pc \in {"sleep", "throttle"}
        /\ UNCHANGED <<stream, proc>>
    BY <1>3 DEF Wake, TypeOK
  <2>2. InPhase(t, [task[t] EXCEPT !.pc = "loop"], stream[t], proc)
    BY <1>1, <2>1 DEF InPhase, Lists, InPass, Task
  <2> QED
    BY <2>1, <2>2, LocalPhase
<1>4. CASE ScriptFails(t) \/ ApiFails(t)
  <2>1. task[t].pc # "start"
    BY <1>4 DEF ScriptFails, ApiFails
  <2>2. proc \in {"boot", "run"}
    BY <1>1, <2>1 DEF InPhase, Fresh
  <2> QED
    BY <1>4, <2>2, ThrowPhase DEF ScriptFails, ApiFails
<1> QED
  BY <1>2, <1>3, <1>4

(* The watch loop: only a running task that does not sleep has a stream. *)
LEMMA PhaseWatch ==
    ASSUME TypeOK, PhaseInv, NEW t \in Tasks,
           Connect(t) \/ HandleEvent(t) \/ StreamEnds(t) \/ Close(t)
    PROVE  PhaseInv'
<1>1. task[t] \in Task /\ InPhase(t, task[t], stream[t], proc)
  BY PhaseParts DEF TypeOK
<1>2. CASE Connect(t)
  <2>1. /\ task' = [task EXCEPT ![t] = [task[t] EXCEPT !.pc = "watch"]]
        /\ stream' = [stream EXCEPT ![t] = OpenStream(t)]
        /\ task[t].pc = "loop" /\ ~SleepMode(t) /\ UNCHANGED proc
    BY <1>2 DEF Connect, TypeOK
  <2>2. InPhase(t, [task[t] EXCEPT !.pc = "watch"], OpenStream(t), proc)
    BY <1>1, <2>1 DEF InPhase, Lists, InPass, Task
  <2> QED
    BY <2>1, <2>2, UpdatePhase
<1>3. CASE StreamEnds(t)
  <2>1. /\ task' = [task EXCEPT ![t] = [task[t] EXCEPT !.pc = "loop"]]
        /\ task[t].pc = "watch" /\ UNCHANGED <<stream, proc>>
    BY <1>3 DEF StreamEnds, TypeOK
  <2>2. InPhase(t, [task[t] EXCEPT !.pc = "loop"], stream[t], proc)
    BY <1>1, <2>1 DEF InPhase, Lists, InPass, Task
  <2> QED
    BY <2>1, <2>2, LocalPhase
<1>4. CASE Close(t)
  <2>1. stream' = [stream EXCEPT ![t] = [stream[t] EXCEPT !.live = FALSE]]
    BY <1>4 DEF Close, ServerClose, TypeOK
  <2>2. task' = [task EXCEPT ![t] = task[t]] /\ UNCHANGED proc
    BY <1>4 DEF Close, TypeOK
  <2>3. stream[t] # NoStream
    BY <1>4 DEF Close, ServerClose, NoStream
  <2>4. InPhase(t, task[t], [stream[t] EXCEPT !.live = FALSE], proc)
    BY <1>1, <2>3 DEF InPhase
  <2> QED
    BY <2>1, <2>2, <2>4, UpdatePhase
<1>5. CASE HandleEvent(t)
  <2>1. PICK d \in Delivery(t) :
         /\ stream' = [stream EXCEPT ![t] = d[2]]
         /\ \E ops : \/ UNCHANGED task
                     \/ task' = [task EXCEPT ![t] = [[Fresh EXCEPT !.via = "event"]
                                                       EXCEPT !.pc = "file", !.ops = ops]]
    BY <1>5 DEF HandleEvent, Store, Forget
  <2>2. stream[t] # NoStream
    BY <2>1 DEF Delivery, NoStream
  <2>3. proc = "run" /\ ~SleepMode(t)
    BY <1>1, <1>5, <2>2 DEF InPhase, HandleEvent
  <2>4. InPhase(t, task[t], d[2], proc)
    BY <1>1, <2>3 DEF InPhase
  <2>5. \A ops : InPhase(t, [[Fresh EXCEPT !.via = "event"] EXCEPT !.pc = "file", !.ops = ops],
                         d[2], proc)
    BY <2>3 DEF InPhase, Fresh, Lists, InPass
  <2>6. task' = task => task' = [task EXCEPT ![t] = task[t]]
    BY DEF TypeOK
  <2>7. UNCHANGED proc
    BY <1>5 DEF HandleEvent
  <2> QED
    BY <2>1, <2>4, <2>5, <2>6, <2>7, UpdatePhase
<1> QED
  BY <1>2, <1>3, <1>4, <1>5

(* A change by a user reaches only streams that are open. *)
LEMMA PhaseUser ==
    ASSUME TypeOK, PhaseInv, User
    PROVE  PhaseInv'
<1>1. \A t \in Tasks : stream[t] = NoStream => stream'[t] = NoStream
  <2>1. NoStream.live = FALSE
    BY DEF NoStream
  <2>2. \A r, ev : Broadcast(r, ev) => \A t \in Tasks : ~stream[t].live => stream'[t] = stream[t]
    BY DEF Broadcast
  <2>3. \A t \in Tasks : ~stream[t].live => stream'[t] = stream[t]
    BY <2>2 DEF User, Apply, Delete
  <2> QED
    BY <2>1, <2>3
<1>2. UNCHANGED <<task, proc>>
  BY DEF User
<1> QED
  BY <1>1, <1>2 DEF PhaseInv, Lists, InPass, SleepMode

(* The steps of main, the end of the process and its restart. *)
LEMMA PhaseMain ==
    ASSUME TypeOK, PhaseInv, EndBoot \/ Monitor \/ Crash \/ Restart
    PROVE  PhaseInv'
<1>1. CASE EndBoot /\ Mode # "LIST"
  <2>1. /\ \A t \in Tasks : task'[t] = [Fresh EXCEPT !.pc = "loop"]
        /\ proc = "boot" /\ proc' = "run" /\ UNCHANGED stream
    BY <1>1 DEF EndBoot
  <2>2. \A t \in Tasks : stream[t] = NoStream
    BY <2>1 DEF PhaseInv
  <2>3. \A t \in Tasks : InPhase(t, task'[t], stream'[t], proc')
    BY <2>1, <2>2 DEF InPhase, Fresh, Lists, InPass
  <2> QED
    BY <2>3 DEF PhaseInv, InPhase, Lists, InPass, SleepMode
<1>2. CASE Restart
  <2>1. \A t \in Tasks : task[t] = Fresh /\ stream[t] = NoStream
    BY <1>2 DEF Restart, PhaseInv
  <2>2. UNCHANGED <<task, stream>> /\ proc' = "boot"
    BY <1>2 DEF Restart
  <2>3. \A t \in Tasks : InPhase(t, task'[t], stream'[t], proc')
    BY <2>1, <2>2 DEF InPhase, Fresh, Lists, InPass
  <2> QED
    BY <2>3 DEF PhaseInv, InPhase, Lists, InPass, SleepMode
<1>3. CASE (EndBoot /\ Mode = "LIST") \/ Monitor \/ Crash
  BY <1>3, ExitPhase DEF EndBoot, Monitor, Crash
<1> QED
  BY <1>1, <1>2, <1>3

(* Initially no task has begun and no stream is open. *)
LEMMA PhaseInit == Init => PhaseInv
BY DEF Init, ApiInit, PhaseInv, Fresh, Lists, InPass

(* Every step keeps the phases apart. *)
LEMMA PhaseNext == TypeOK /\ LocalInv /\ PhaseInv /\ [Next]_vars => PhaseInv'
<1> SUFFICES ASSUME TypeOK, LocalInv, PhaseInv, [Next]_vars PROVE PhaseInv'
  OBVIOUS
<1>1. CASE UNCHANGED vars
  BY <1>1, StillPhase DEF vars
<1>2. ASSUME NEW t \in Tasks, Step(t) PROVE PhaseInv'
  BY <1>2, PhaseList, PhaseItem, PhaseFile, PhaseHook, PhaseWatch DEF Step
<1>3. ASSUME NEW t \in Tasks, Fails(t) \/ Close(t) PROVE PhaseInv'
  BY <1>3, PhaseHook, PhaseWatch DEF Fails
<1>4. CASE User
  BY <1>4, PhaseUser
<1>5. CASE EndBoot \/ Monitor \/ Crash \/ Restart
  BY <1>5, PhaseMain
<1> QED
  BY <1>1, <1>2, <1>3, <1>4, <1>5 DEF Next
-----------------------------------------------------------------------------
(* An object at hand is no older than what was taken, and no newer than the   *)
(* cluster's (tk: taken, cl: the cluster, v: its last version).                *)
InOrder(it, tk, cl, v) ==
    /\ tk[it.res] <= it.rv /\ it.rv <= v
    /\ cl[it.res] # None => it.rv <= cl[it.res].rv

ListOrdered(local, tk, cl, v) ==
    /\ \A it \in local.pages \union local.items : InOrder(it, tk, cl, v)
    /\ \A a, b \in local.pages \union local.items : a.res = b.res => a = b
    /\ local.pc = "names" => \A it \in local.items : NameOf[it.res] \notin local.names

StreamOrdered(s, tk, cl, v) ==
    /\ \A it \in s.backlog : InOrder(it, tk, cl, v)
    /\ \A a, b \in s.backlog : a.res = b.res => a = b
    /\ \A i \in DOMAIN s.queue :
         /\ InOrder(s.queue[i].item, tk, cl, v)
         /\ tk[s.queue[i].item.res] < s.queue[i].item.rv
         /\ \A a \in s.backlog : a.res = s.queue[i].item.res => a.rv < s.queue[i].item.rv
         /\ \A j \in 1..(i - 1) : s.queue[j].item.res = s.queue[i].item.res =>
                                    s.queue[j].item.rv < s.queue[i].item.rv

TakenOrdered(tk, cl, v) == \A r \in Res :
    tk[r] <= v /\ (cl[r] # None => tk[r] <= cl[r].rv /\ cl[r].rv <= v)

(* OrderInv, task by task. *)
LEMMA OrderParts ==
    OrderInv <=> /\ TakenOrdered(taken, cluster, rev)
                 /\ \A t \in Tasks : /\ ListOrdered(task[t], taken, cluster, rev)
                                     /\ StreamOrdered(stream[t], taken, cluster, rev)
<1>1. TakenInv <=> TakenOrdered(taken, cluster, rev)
  BY DEF TakenInv, TakenOrdered
<1>2. SourceInv <=> \A t \in Tasks : \A it \in Sources(t) : InOrder(it, taken, cluster, rev)
  BY DEF SourceInv, InOrder
<1>3. \A t \in Tasks : \A it : it \in Sources(t) <=>
         \/ it \in task[t].pages \union task[t].items \/ it \in stream[t].backlog
         \/ \E i \in DOMAIN stream[t].queue : it = stream[t].queue[i].item
  BY DEF Sources, Listed, Queued
<1>4. SourceInv <=> \A t \in Tasks :
         /\ \A it \in task[t].pages \union task[t].items : InOrder(it, taken, cluster, rev)
         /\ \A it \in stream[t].backlog : InOrder(it, taken, cluster, rev)
         /\ \A i \in DOMAIN stream[t].queue : InOrder(stream[t].queue[i].item, taken, cluster, rev)
  BY <1>2, <1>3
<1> QED
  BY <1>1, <1>4 DEF OrderInv, ListedOnce, Listed, QueueInv, ListOrdered, StreamOrdered

(* What a stream has in store is of the right type. *)
LEMMA StreamItems ==
    ASSUME NEW s \in Stream
    PROVE  /\ \A it \in s.backlog : it \in Item /\ it.res \in Res /\ it.rv \in Int
           /\ s.queue \in Seq(Event) /\ DOMAIN s.queue = 1..Len(s.queue) /\ Len(s.queue) \in Nat
           /\ \A i \in 1..Len(s.queue) : /\ s.queue[i] \in Event /\ s.queue[i].item \in Item
                                          /\ s.queue[i].item.res \in Res
                                          /\ s.queue[i].item.rv \in Int
<1>1. s.queue \in Seq(Event) /\ s.backlog \subseteq Item
  BY DEF Stream
<1>2. \A i \in 1..Len(s.queue) : s.queue[i] \in Event
  BY <1>1
<1>3. \A it \in Item : it.res \in Res /\ it.rv \in Int
  BY ApiAssumption DEF Item
<1>4. \A e \in Event : e.item \in Item
  BY DEF Event
<1> QED
  BY <1>1, <1>2, <1>3, <1>4

(* A newer version of an object is taken: what is at hand is still in order,   *)
(* if the version is no newer than that.                                       *)
LEMMA ListTake ==
    ASSUME NEW tk \in [Res -> Int], NEW cl, NEW v, NEW local \in Task, NEW r \in Res, NEW x,
           ListOrdered(local, tk, cl, v),
           \A it \in local.pages \union local.items : it.res = r => x <= it.rv
    PROVE  ListOrdered(local, [tk EXCEPT ![r] = x], cl, v)
<1>1. \A it \in local.pages \union local.items : it.res \in Res
  BY DEF Task, Item
<1> QED
  BY <1>1 DEF ListOrdered, InOrder

(* The same for a stream. *)
LEMMA StreamTake ==
    ASSUME NEW tk \in [Res -> Int], NEW cl, NEW v, NEW s \in Stream, NEW r \in Res, NEW x \in Int,
           StreamOrdered(s, tk, cl, v),
           \A it \in s.backlog : it.res = r => x <= it.rv,
           \A i \in DOMAIN s.queue : s.queue[i].item.res = r => x < s.queue[i].item.rv
    PROVE  StreamOrdered(s, [tk EXCEPT ![r] = x], cl, v)
<1>1. \A it \in s.backlog : it.res \in Res /\ it.rv \in Int
  BY StreamItems
<1>2. \A i \in DOMAIN s.queue : s.queue[i].item.res \in Res /\ s.queue[i].item.rv \in Int
  BY StreamItems
<1>3. \A q \in Res : [tk EXCEPT ![r] = x][q] = IF q = r THEN x ELSE tk[q]
  OBVIOUS
<1> DEFINE tk2 == [tk EXCEPT ![r] = x]
<1> HIDE DEF tk2
<1>4. \A it \in s.backlog : InOrder(it, tk2, cl, v)
  BY <1>1, <1>3 DEF StreamOrdered, InOrder, tk2
<1>5. \A i \in DOMAIN s.queue : /\ InOrder(s.queue[i].item, tk2, cl, v)
                                /\ tk2[s.queue[i].item.res] < s.queue[i].item.rv
  BY <1>2, <1>3 DEF StreamOrdered, InOrder, tk2
<1> QED
  BY <1>4, <1>5 DEF StreamOrdered, tk2

(* A user changes an object: what is at hand is older. *)
LEMMA ListChange ==
    ASSUME NEW tk, NEW cl \in [Res -> Item \union {None}], NEW v \in Nat, NEW local \in Task,
           NEW r \in Res, NEW new, new # None => new.rv = v + 1,
           ListOrdered(local, tk, cl, v)
    PROVE  ListOrdered(local, tk, [cl EXCEPT ![r] = new], v + 1)
<1>1. \A it \in local.pages \union local.items : it.res \in Res /\ it.rv \in Int
  BY DEF Task, Item
<1>2. \A it \in local.pages \union local.items : InOrder(it, tk, [cl EXCEPT ![r] = new], v + 1)
  BY <1>1 DEF ListOrdered, InOrder
<1> QED
  BY <1>2 DEF ListOrdered

(* The same for a stream the change does not reach. *)
LEMMA StreamChange ==
    ASSUME NEW tk, NEW cl \in [Res -> Item \union {None}], NEW v \in Nat, NEW s \in Stream,
           NEW r \in Res, NEW new, new # None => new.rv = v + 1,
           StreamOrdered(s, tk, cl, v)
    PROVE  StreamOrdered(s, tk, [cl EXCEPT ![r] = new], v + 1)
<1>1. \A it \in s.backlog : it.res \in Res /\ it.rv \in Int
  BY StreamItems
<1>2. \A i \in DOMAIN s.queue : s.queue[i].item.res \in Res /\ s.queue[i].item.rv \in Int
  BY StreamItems
<1>3. \A it \in s.backlog : InOrder(it, tk, [cl EXCEPT ![r] = new], v + 1)
  BY <1>1 DEF StreamOrdered, InOrder
<1>4. \A i \in DOMAIN s.queue : InOrder(s.queue[i].item, tk, [cl EXCEPT ![r] = new], v + 1)
  BY <1>2 DEF StreamOrdered, InOrder
<1> QED
  BY <1>3, <1>4 DEF StreamOrdered

(* The same for a stream that gets the event of the change. *)
LEMMA StreamAppend ==
    ASSUME NEW tk \in [Res -> Int], NEW cl \in [Res -> Item \union {None}], NEW v \in Nat,
           NEW s \in Stream, NEW r \in Res, NEW new, new # None => new.rv = v + 1,
           NEW ev \in Event, ev.item.res = r, ev.item.rv = v + 1,
           StreamOrdered(s, tk, cl, v), TakenOrdered(tk, cl, v)
    PROVE  StreamOrdered([s EXCEPT !.queue = Append(@, ev)], tk, [cl EXCEPT ![r] = new], v + 1)
<1> DEFINE next == [s EXCEPT !.queue = Append(@, ev)]
           q == s.queue
           cl2 == [cl EXCEPT ![r] = new]
<1>1. q \in Seq(Event)
  BY DEF Stream
<1>2. next.queue = Append(q, ev) /\ next.backlog = s.backlog
  BY DEF Stream
<1>3. /\ DOMAIN q = 1..Len(q) /\ DOMAIN Append(q, ev) = 1..(Len(q) + 1) /\ Len(q) \in Nat
      /\ \A i \in 1..Len(q) : Append(q, ev)[i] = q[i]
      /\ Append(q, ev)[Len(q) + 1] = ev
  BY <1>1
<1>4. StreamOrdered(s, tk, cl2, v + 1)
  BY StreamChange
<1>5. tk[r] <= v /\ InOrder(ev.item, tk, cl2, v + 1)
  BY DEF TakenOrdered, InOrder
<1>6. \A a \in s.backlog : a.rv <= v /\ a.rv \in Int
  BY StreamItems DEF StreamOrdered, InOrder
<1>7. \A j \in 1..Len(q) : q[j].item.rv <= v /\ q[j].item.rv \in Int
  BY <1>3, StreamItems DEF StreamOrdered, InOrder
<1>9. tk[ev.item.res] < ev.item.rv
  BY <1>5
<1> HIDE DEF next, q, cl2
<1>8. ASSUME NEW i \in DOMAIN next.queue
      PROVE  /\ InOrder(next.queue[i].item, tk, cl2, v + 1)
             /\ tk[next.queue[i].item.res] < next.queue[i].item.rv
             /\ \A a \in s.backlog : a.res = next.queue[i].item.res => a.rv < next.queue[i].item.rv
             /\ \A j \in 1..(i - 1) : next.queue[j].item.res = next.queue[i].item.res =>
                                        next.queue[j].item.rv < next.queue[i].item.rv
  <2>1. CASE i \in 1..Len(q)
    <3>1. \A j \in 1..(i - 1) : j \in 1..Len(q)
      BY <1>3, <2>1
    <3>2. next.queue[i] = q[i] /\ \A j \in 1..(i - 1) : next.queue[j] = q[j]
      BY <1>2, <1>3, <2>1, <3>1
    <3> QED
      BY <1>3, <1>4, <2>1, <3>2 DEF StreamOrdered, q
  <2>2. CASE i = Len(q) + 1
    <3>1. next.queue[i] = ev
      BY <1>2, <1>3, <2>2
    <3>2. \A j \in 1..(i - 1) : next.queue[j].item.rv < ev.item.rv
      BY <1>2, <1>3, <1>7, <2>2
    <3>3. \A a \in s.backlog : a.rv < ev.item.rv
      BY <1>6
    <3>4. InOrder(next.queue[i].item, tk, cl2, v + 1)
      BY <1>5, <3>1
    <3>5. tk[next.queue[i].item.res] < next.queue[i].item.rv
      BY <1>9, <3>1
    <3>6. \A a \in s.backlog : a.rv < next.queue[i].item.rv
      BY <3>1, <3>3
    <3>7. \A j \in 1..(i - 1) : next.queue[j].item.rv < next.queue[i].item.rv
      BY <3>1, <3>2
    <3> QED
      BY <3>4, <3>5, <3>6, <3>7, Zenon
  <2>3. i \in 1..Len(q) \/ i = Len(q) + 1
    BY <1>2, <1>3
  <2> QED
    BY <2>1, <2>2, <2>3
<1> QED
  BY <1>2, <1>4, <1>8 DEF StreamOrdered, next, cl2

(* OrderInv of the next state, task by task. *)
LEMMA OrderNextParts ==
    ASSUME TakenOrdered(taken', cluster', rev'),
           \A t \in Tasks : /\ ListOrdered(task'[t], taken', cluster', rev')
                            /\ StreamOrdered(stream'[t], taken', cluster', rev')
    PROVE  OrderInv'
<1>1. TakenInv'
  BY DEF TakenInv, TakenOrdered
<1>2. \A t \in Tasks : \A it : it \in Sources(t)' <=>
         \/ it \in task'[t].pages \union task'[t].items \/ it \in stream'[t].backlog
         \/ \E i \in DOMAIN stream'[t].queue : it = stream'[t].queue[i].item
  BY DEF Sources, Listed, Queued
<1>3. \A t \in Tasks : \A it \in Sources(t)' : InOrder(it, taken', cluster', rev')
  BY <1>2 DEF ListOrdered, StreamOrdered
<1>4. SourceInv'
  BY <1>3 DEF SourceInv, InOrder
<1> QED
  BY <1>1, <1>4 DEF OrderInv, ListedOnce, Listed, QueueInv, ListOrdered, StreamOrdered

(* A step of one task and its stream that takes nothing. *)
LEMMA StepOrder ==
    ASSUME TypeOK, OrderInv, NEW t \in Tasks, NEW local, NEW s,
           ListOrdered(local, taken, cluster, rev), StreamOrdered(s, taken, cluster, rev),
           task' = [task EXCEPT ![t] = local], stream' = [stream EXCEPT ![t] = s],
           UNCHANGED <<cluster, rev, taken>>
    PROVE  OrderInv'
<1>1. \A u \in Tasks : /\ task'[u] = IF u = t THEN local ELSE task[u]
                       /\ stream'[u] = IF u = t THEN s ELSE stream[u]
  BY DEF TypeOK
<1>2. \A u \in Tasks : /\ ListOrdered(task'[u], taken, cluster, rev)
                       /\ StreamOrdered(stream'[u], taken, cluster, rev)
  BY <1>1, OrderParts
<1>3. TakenOrdered(taken, cluster, rev)
  BY OrderParts
<1> QED
  BY <1>2, <1>3, OrderNextParts

(* A step of one task that leaves its stream alone. *)
LEMMA LocalOrder ==
    ASSUME TypeOK, OrderInv, NEW t \in Tasks, NEW local,
           ListOrdered(local, taken, cluster, rev),
           task' = [task EXCEPT ![t] = local], UNCHANGED <<stream, cluster, rev, taken>>
    PROVE  OrderInv'
<1>1. stream' = [stream EXCEPT ![t] = stream[t]] /\ StreamOrdered(stream[t], taken, cluster, rev)
  BY OrderParts DEF TypeOK
<1> QED
  BY <1>1, StepOrder

(* A step that leaves the objects, the tasks and their streams alone. *)
LEMMA StillOrder ==
    OrderInv /\ UNCHANGED <<task, stream, cluster, rev, taken>> => OrderInv'
BY OrderParts, OrderNextParts

(* A task that has listed nothing, and a stream that has nothing in store. *)
LEMMA NothingOrdered ==
    \A local, tk, cl, v :
        /\ local.pages = {} /\ local.items = {} => ListOrdered(local, tk, cl, v)
        /\ StreamOrdered(NoStream, tk, cl, v)
BY DEF ListOrdered, StreamOrdered, NoStream

(* A task that has less to do than before. *)
LEMMA FewerOrdered ==
    ASSUME NEW local, NEW next, NEW tk, NEW cl, NEW v, ListOrdered(local, tk, cl, v),
           next.pages \union next.items \subseteq local.pages \union local.items,
           next.pc # "names"
    PROVE  ListOrdered(next, tk, cl, v)
BY DEF ListOrdered

(* What the API shows is in order, and shows no object twice. *)
LEMMA SelectedOrdered ==
    ASSUME TypeOK, ClusterNamed, OrderInv, NEW t \in Tasks
    PROVE  /\ \A it \in Selected(t) : InOrder(it, taken, cluster, rev)
           /\ \A a, b \in Selected(t) : a.res = b.res => a = b
           /\ \A n : \A it \in Named(t, n) : InOrder(it, taken, cluster, rev) /\ NameOf[it.res] = n
           /\ \A n : \A a, b \in Named(t, n) : a.res = b.res => a = b
<1>1. \A r \in Res : cluster[r] # None =>
         cluster[r].res = r /\ InOrder(cluster[r], taken, cluster, rev)
  <2>1. TakenOrdered(taken, cluster, rev)
    BY OrderParts
  <2>2. \A r \in Res : cluster[r] # None => cluster[r].res = r /\ cluster[r].rv \in Int
    BY ApiAssumption DEF ClusterNamed, TypeOK, Item
  <2> QED
    BY <2>1, <2>2 DEF TakenOrdered, InOrder
<1> QED
  BY <1>1 DEF Selected, Named

(* A version of an object is taken that is no newer than what its one watcher *)
(* has at hand; the others have nothing of the object.                        *)
LEMMA TakeOrder ==
    ASSUME TypeOK, ScopeInv, OrderInv, NEW t \in Tasks, NEW local \in Task, NEW s \in Stream,
           ListOrdered(local, taken, cluster, rev), StreamOrdered(s, taken, cluster, rev),
           NEW item \in Item, Serves(t, item.res), InOrder(item, taken, cluster, rev),
           \A it \in local.pages \union local.items : it.res = item.res => item.rv <= it.rv,
           \A it \in s.backlog : it.res = item.res => item.rv <= it.rv,
           \A i \in DOMAIN s.queue : s.queue[i].item.res = item.res =>
                                       item.rv < s.queue[i].item.rv,
           task' = [task EXCEPT ![t] = local], stream' = [stream EXCEPT ![t] = s],
           taken' = [taken EXCEPT ![item.res] = item.rv], UNCHANGED <<cluster, rev>>
    PROVE  OrderInv'
<1>1. \A u \in Tasks : /\ task'[u] = IF u = t THEN local ELSE task[u]
                       /\ stream'[u] = IF u = t THEN s ELSE stream[u]
  BY DEF TypeOK
<1>2. item.res \in Res /\ item.rv \in Int /\ taken \in [Res -> Int]
  BY ApiAssumption DEF Item, TypeOK
<1>3. /\ ListOrdered(local, taken', cluster, rev)
      /\ StreamOrdered(s, taken', cluster, rev)
  BY <1>2, ListTake, StreamTake
<1>4. ASSUME NEW u \in Tasks, u # t
      PROVE  /\ ListOrdered(task[u], taken', cluster, rev)
             /\ StreamOrdered(stream[u], taken', cluster, rev)
  <2>1. ~Serves(u, item.res)
    BY <1>2, <1>4, OneWatcherAssumption
  <2>2. task[u] \in Task /\ stream[u] \in Stream
    BY DEF TypeOK, Stream
  <2>3. /\ ListOrdered(task[u], taken, cluster, rev)
        /\ StreamOrdered(stream[u], taken, cluster, rev)
    BY OrderParts
  <2>4. /\ \A it \in task[u].pages \union task[u].items : it.res # item.res
        /\ \A it \in stream[u].backlog : it.res # item.res
        /\ \A i \in 1..Len(stream[u].queue) : stream[u].queue[i].item.res # item.res
    BY <2>1 DEF ScopeInv, StreamInScope, PagesInScope, InScope
  <2>5. DOMAIN stream[u].queue = 1..Len(stream[u].queue)
    BY <2>2, StreamItems
  <2>6. ListOrdered(task[u], [taken EXCEPT ![item.res] = item.rv], cluster, rev)
    BY <1>2, <2>2, <2>3, <2>4, ListTake
  <2>7. StreamOrdered(stream[u], [taken EXCEPT ![item.res] = item.rv], cluster, rev)
    BY <1>2, <2>2, <2>3, <2>4, <2>5, StreamTake
  <2> QED
    BY <2>6, <2>7
<1>5. TakenOrdered(taken', cluster, rev)
  <2>1. TakenOrdered(taken, cluster, rev)
    BY OrderParts
  <2>2. \A r \in Res : cluster[r] # None => cluster[r].rv <= rev
    BY <2>1 DEF TakenOrdered
  <2> QED
    BY <1>2, <2>1, <2>2 DEF TakenOrdered, InOrder
<1> QED
  BY <1>1, <1>3, <1>4, <1>5, OrderNextParts

(* What a call of a listing gathered, and the names still to be read. *)
LEMMA GatheredOrdered ==
    ASSUME NEW local \in Task, NEW got, NEW tk, NEW cl, NEW v,
           \A it \in local.pages \union got : InOrder(it, tk, cl, v),
           \A a, b \in local.pages \union got : a.res = b.res => a = b,
           local.pc = "names" => \A it \in got : NameOf[it.res] \notin local.names
    PROVE  ListOrdered(Gathered(local, got), tk, cl, v)
<1>1. /\ Gathered(local, got).pages = local.pages
      /\ Gathered(local, got).items = got
      /\ Gathered(local, got).names = local.names
      /\ Gathered(local, got).pc = "names" => local.pc = "names"
  BY DEF Gathered, Task
<1> HIDE DEF Gathered
<1> QED
  BY <1>1 DEF ListOrdered

(* The calls a listing makes, and the choice of what is stale. *)
LEMMA OrderList ==
    ASSUME TypeOK, ScopeInv, LocalInv, OrderInv, NEW t \in Tasks,
           BeginList(t) \/ ReadNamed(t) \/ ListPage(t) \/ BeginStale(t) \/ EndList(t)
    PROVE  OrderInv'
<1>1. task[t] \in Task /\ Settled(task[t]) /\ ListOrdered(task[t], taken, cluster, rev)
  BY OrderParts DEF TypeOK, LocalInv
<1>2. UNCHANGED <<stream, cluster, rev, taken>>
  BY DEF BeginList, ReadNamed, ListPage, BeginStale, EndList, maps
<1>3. CASE BeginList(t)
  <2>1. PICK local \in {[Fresh EXCEPT !.pc = "names", !.names = Chosen(t)],
                        [Fresh EXCEPT !.pc = "page", !.pages = Selected(t)]} :
          task' = [task EXCEPT ![t] = local]
    BY <1>3 DEF BeginList
  <2>2. /\ local.items = {} /\ local.pages \subseteq Selected(t)
        /\ local.pages \union local.items \subseteq Selected(t)
    BY <2>1 DEF Fresh
  <2>3. ListOrdered(local, taken, cluster, rev)
    BY <2>2, SelectedOrdered DEF ListOrdered, ScopeInv
  <2> QED
    BY <1>2, <2>1, <2>3, LocalOrder
<1>4. CASE ReadNamed(t)
  <2>1. PICK n \in task[t].names :
          task' = [task EXCEPT ![t] = Gathered([task[t] EXCEPT !.names = @ \ {n}],
                                               task[t].items \union Named(t, n))]
    BY <1>4 DEF ReadNamed
  <2> DEFINE local == [task[t] EXCEPT !.names = @ \ {n}]
             got == task[t].items \union Named(t, n)
  <2>2. task[t].pc = "names" /\ task[t].pages = {}
    BY <1>1, <1>4 DEF ReadNamed, Settled
  <2>3. local \in Task /\ local.pages = {} /\ local.names = task[t].names \ {n}
    BY <1>1, <2>2 DEF Task
  <2>4. \A it \in got : InOrder(it, taken, cluster, rev)
    BY <1>1, SelectedOrdered DEF ListOrdered, ScopeInv
  <2>5. \A a \in task[t].items : NameOf[a.res] \notin task[t].names
    BY <1>1, <2>2 DEF ListOrdered
  <2>6. \A b \in Named(t, n) : NameOf[b.res] = n
    BY SelectedOrdered DEF ScopeInv
  <2>7. \A a, b \in task[t].items : a.res = b.res => a = b
    BY <1>1 DEF ListOrdered
  <2>8. \A a, b \in Named(t, n) : a.res = b.res => a = b
    BY SelectedOrdered DEF ScopeInv
  <2>9. \A a \in task[t].items : \A b \in Named(t, n) : a.res # b.res
    BY <2>1, <2>5, <2>6
  <2>10. \A a, b \in got : a.res = b.res => a = b
    BY <2>7, <2>8, <2>9
  <2>11. \A it \in got : NameOf[it.res] \notin local.names
    BY <2>3, <2>5, <2>6
  <2>12. task' = [task EXCEPT ![t] = Gathered(local, got)]
    BY <2>1
  <2> HIDE DEF local, got
  <2>13. ListOrdered(Gathered(local, got), taken, cluster, rev)
    BY <2>3, <2>4, <2>10, <2>11, GatheredOrdered
  <2> QED
    BY <1>2, <2>12, <2>13, LocalOrder
<1>5. CASE ListPage(t)
  <2>1. PICK page \in SUBSET task[t].pages :
          task' = [task EXCEPT ![t] = Gathered([task[t] EXCEPT !.pages = @ \ page],
                                               task[t].items \union page)]
    BY <1>5 DEF ListPage
  <2> DEFINE local == [task[t] EXCEPT !.pages = @ \ page]
             got == task[t].items \union page
  <2>2. local \in Task /\ local.pages = task[t].pages \ page /\ local.pc = "page"
    BY <1>1, <1>5 DEF Task, ListPage
  <2>3. local.pages \union got \subseteq task[t].pages \union task[t].items
    BY <2>1, <2>2
  <2>4. task' = [task EXCEPT ![t] = Gathered(local, got)]
    BY <2>1
  <2> HIDE DEF local, got
  <2>5. ListOrdered(Gathered(local, got), taken, cluster, rev)
    BY <1>1, <2>2, <2>3, GatheredOrdered DEF ListOrdered
  <2> QED
    BY <1>2, <2>4, <2>5, LocalOrder
<1>6. CASE BeginStale(t)
  <2>1. task' = [task EXCEPT ![t] = [task[t] EXCEPT !.pc = "stale", !.via = "stale",
                                            !.stale = Stale(t), !.exist = {}]]
    BY <1>6 DEF BeginStale, TypeOK
  <2> DEFINE next == [task[t] EXCEPT !.pc = "stale", !.via = "stale",
                                     !.stale = Stale(t), !.exist = {}]
  <2>2. next.pages = task[t].pages /\ next.items = task[t].items /\ next.pc # "names"
    BY <1>1 DEF Task
  <2> HIDE DEF next
  <2>3. ListOrdered(next, taken, cluster, rev)
    BY <1>1, <2>2, FewerOrdered
  <2> QED
    BY <1>2, <2>1, <2>3, LocalOrder DEF next
<1>7. CASE EndList(t)
  <2>1. Notify(t, task[t]).pages = {} /\ Notify(t, task[t]).items = {}
    BY DEF Notify, Resting, Fresh
  <2> QED
    BY <1>2, <1>7, <2>1, NothingOrdered, LocalOrder DEF EndList
<1> QED
  BY <1>3, <1>4, <1>5, <1>6, <1>7

(* The processing of a listed object: what its list page said of it is taken. *)
LEMMA OrderItem ==
    ASSUME TypeOK, TypeOK', ScopeInv, LocalInv, PhaseInv, OrderInv,
           proc \in {"boot", "run"}, NEW t \in Tasks, ListItem(t)
    PROVE  OrderInv'
<1>1. task[t] \in Task /\ Settled(task[t]) /\ ListOrdered(task[t], taken, cluster, rev)
  BY OrderParts DEF TypeOK, LocalInv
<1>2. task[t].pc = "items" /\ UNCHANGED <<stream, cluster, rev>>
  BY DEF ListItem
<1>3. stream[t] = NoStream /\ task[t].pages = {}
  BY <1>1, <1>2 DEF PhaseInv, Lists, Settled
<1>4. PICK it \in task[t].items : \E ops :
        \/ /\ task' = [task EXCEPT ![t] = [task[t] EXCEPT !.items = @ \ {it}, !.via = "list"]]
           /\ UNCHANGED taken
        \/ /\ task' = [task EXCEPT ![t] = [[task[t] EXCEPT !.items = @ \ {it}, !.via = "list"]
                                             EXCEPT !.pc = "file", !.ops = ops]]
           /\ taken' = [taken EXCEPT ![it.res] = it.rv]
  BY DEF ListItem, Store, maps
<1> DEFINE rest == [task[t] EXCEPT !.items = @ \ {it}, !.via = "list"]
           next(ops) == [rest EXCEPT !.pc = "file", !.ops = ops]
<1>5. /\ rest.pages = {} /\ rest.items = task[t].items \ {it} /\ rest.pc = "items"
      /\ \A ops : next(ops).pages = {} /\ next(ops).items = task[t].items \ {it}
                  /\ next(ops).pc = "file"
  BY <1>1, <1>2, <1>3 DEF Task
<1>6. \E ops : \/ task' = [task EXCEPT ![t] = rest] /\ UNCHANGED taken
               \/ /\ task' = [task EXCEPT ![t] = next(ops)]
                  /\ taken' = [taken EXCEPT ![it.res] = it.rv]
  BY <1>4
<1> HIDE DEF rest, next
<1>7. CASE task' = [task EXCEPT ![t] = rest] /\ UNCHANGED taken
  <2>1. ListOrdered(rest, taken, cluster, rev)
    BY <1>1, <1>3, <1>5, FewerOrdered
  <2> QED
    BY <1>2, <1>7, <2>1, LocalOrder
<1>8. ASSUME NEW ops, task' = [task EXCEPT ![t] = next(ops)],
             taken' = [taken EXCEPT ![it.res] = it.rv]
      PROVE  OrderInv'
  <2>1. next(ops) = task'[t] /\ next(ops) \in Task
    BY <1>8 DEF TypeOK
  <2>2. ListOrdered(next(ops), taken, cluster, rev)
    BY <1>1, <1>3, <1>5, FewerOrdered
  <2>3. it \in Item /\ Serves(t, it.res) /\ InOrder(it, taken, cluster, rev)
    BY <1>1, <1>4 DEF ScopeInv, InScope, ListOrdered, Task
  <2>4. \A a \in next(ops).pages \union next(ops).items : a.res # it.res
    BY <1>1, <1>4, <1>5 DEF ListOrdered
  <2>5. stream' = [stream EXCEPT ![t] = NoStream]
    BY <1>2, <1>3 DEF TypeOK
  <2>6. /\ NoStream \in Stream /\ NoStream.backlog = {} /\ DOMAIN NoStream.queue = {}
        /\ StreamOrdered(NoStream, taken, cluster, rev)
    BY NothingOrdered DEF NoStream, Stream
  <2> QED
    BY <1>2, <1>8, <2>1, <2>2, <2>3, <2>4, <2>5, <2>6, TakeOrder
<1> QED
  BY <1>6, <1>7, <1>8

(* The removal of a stale object and the calls of update_file: nothing new. *)
LEMMA OrderFile ==
    ASSUME TypeOK, OrderInv, NEW t \in Tasks,
           RemoveStale(t) \/ UpdateFile(t) \/ FetchUrl(t) \/ UpdateFetched(t) \/ FinishItem(t)
    PROVE  OrderInv'
<1>1. task[t] \in Task /\ ListOrdered(task[t], taken, cluster, rev)
  BY OrderParts DEF TypeOK
<1>2. UNCHANGED <<stream, cluster, rev, taken>>
  BY DEF RemoveStale, Forget, UpdateFile, FetchUrl, UpdateFetched, FinishItem, maps
<1>3. ASSUME NEW next, task' = [task EXCEPT ![t] = next], next.pc # "names",
             next.pages \union next.items \subseteq task[t].pages \union task[t].items
      PROVE  OrderInv'
  BY <1>1, <1>2, <1>3, FewerOrdered, LocalOrder
<1>4. CASE RemoveStale(t)
  <2>1. PICK c \in task[t].stale : \E ops :
         task' = [task EXCEPT ![t] = [[task[t] EXCEPT !.stale = @ \ {c}]
                                        EXCEPT !.pc = "file", !.ops = ops]]
    BY <1>4 DEF RemoveStale, Forget
  <2> DEFINE next(ops) == [[task[t] EXCEPT !.stale = @ \ {c}] EXCEPT !.pc = "file", !.ops = ops]
  <2>2. \A ops : next(ops).pc = "file" /\ next(ops).pages = task[t].pages
                 /\ next(ops).items = task[t].items
    BY <1>1 DEF Task
  <2>3. \E ops : task' = [task EXCEPT ![t] = next(ops)]
    BY <2>1
  <2> HIDE DEF next
  <2> QED
    BY <1>3, <2>2, <2>3
<1>5. CASE UpdateFile(t) \/ UpdateFetched(t)
  <2>1. PICK op, changed :
          task' = [task EXCEPT ![t].pc = "file", ![t].ops = @ \ {op}, ![t].changed = changed]
    BY <1>5 DEF UpdateFile, UpdateFetched, Perform
  <2> DEFINE next == [task[t] EXCEPT !.pc = "file", !.ops = @ \ {op}, !.changed = changed]
  <2>2. next.pc = "file" /\ next.pages = task[t].pages /\ next.items = task[t].items
    BY <1>1 DEF Task
  <2>3. task' = [task EXCEPT ![t] = next]
    BY <2>1 DEF TypeOK
  <2> HIDE DEF next
  <2> QED
    BY <1>3, <2>2, <2>3
<1>6. CASE FetchUrl(t)
  <2> DEFINE next == [task[t] EXCEPT !.pc = "fetch"]
  <2>1. next.pc = "fetch" /\ next.pages = task[t].pages /\ next.items = task[t].items
    BY <1>1 DEF Task
  <2>2. task' = [task EXCEPT ![t] = next]
    BY <1>6 DEF FetchUrl, TypeOK
  <2> HIDE DEF next
  <2> QED
    BY <1>3, <2>1, <2>2
<1>7. CASE FinishItem(t)
  <2>1. task[t].via \in {"list", "stale", "event"} /\ task[t].pc = "file"
    BY <1>1, <1>7 DEF Task, FinishItem
  <2>2. PICK next \in {[task[t] EXCEPT !.pc = "items"], [task[t] EXCEPT !.pc = "stale"],
                       Notify(t, task[t])} :
          task' = [task EXCEPT ![t] = next]
    BY <1>7, <2>1 DEF FinishItem
  <2>3. /\ Notify(t, task[t]).pc # "names" /\ Notify(t, task[t]).pages = {}
        /\ Notify(t, task[t]).items = {}
    BY DEF Notify, Resting, Fresh
  <2>4. \A pc \in {"items", "stale"} : /\ [task[t] EXCEPT !.pc = pc].pc # "names"
                                       /\ [task[t] EXCEPT !.pc = pc].pages = task[t].pages
                                       /\ [task[t] EXCEPT !.pc = pc].items = task[t].items
    BY <1>1 DEF Task
  <2>5. next.pc # "names" /\ next.pages \union next.items \subseteq task[t].pages \union task[t].items
    BY <2>2, <2>3, <2>4
  <2> QED
    BY <1>3, <2>2, <2>5
<1> QED
  BY <1>4, <1>5, <1>6, <1>7

(* The end of a process: nothing is at hand any more. *)
LEMMA ExitOrder ==
    ASSUME OrderInv, NEW status, Exit(status)
    PROVE  OrderInv'
<1>1. \A t \in Tasks : task'[t] = Fresh /\ stream'[t] = NoStream
  BY DEF Exit
<1>2. \A t \in Tasks : /\ ListOrdered(task'[t], taken', cluster', rev')
                       /\ StreamOrdered(stream'[t], taken', cluster', rev')
  BY <1>1, NothingOrdered DEF Fresh
<1>3. TakenOrdered(taken', cluster', rev')
  BY OrderParts DEF Exit
<1> QED
  BY <1>2, <1>3, OrderNextParts

(* The hooks and the failures. *)
LEMMA OrderHook ==
    ASSUME TypeOK, OrderInv, NEW t \in Tasks,
           RunScript(t) \/ SendRequest(t) \/ Wake(t) \/ ScriptFails(t) \/ ApiFails(t)
    PROVE  OrderInv'
<1>1. task[t] \in Task /\ ListOrdered(task[t], taken, cluster, rev)
  BY OrderParts DEF TypeOK
<1>2. CASE RunScript(t) \/ SendRequest(t) \/ Wake(t)
  <2>1. PICK next \in {[task[t] EXCEPT !.pc = "request"], [task[t] EXCEPT !.pc = "loop"],
                       Resting(t, task[t])} :
          task' = [task EXCEPT ![t] = next]
    BY <1>2 DEF RunScript, SendRequest, Wake, TypeOK
  <2>2. /\ Resting(t, task[t]).pc # "names" /\ Resting(t, task[t]).pages = {}
        /\ Resting(t, task[t]).items = {}
    BY DEF Resting, Fresh
  <2>3. \A pc \in {"request", "loop"} : /\ [task[t] EXCEPT !.pc = pc].pc # "names"
                                        /\ [task[t] EXCEPT !.pc = pc].pages = task[t].pages
                                        /\ [task[t] EXCEPT !.pc = pc].items = task[t].items
    BY <1>1 DEF Task
  <2>4. next.pc # "names" /\ next.pages \union next.items \subseteq task[t].pages \union task[t].items
    BY <2>1, <2>2, <2>3
  <2>5. UNCHANGED <<stream, cluster, rev, taken>>
    BY <1>2 DEF RunScript, SendRequest, Wake, maps
  <2> QED
    BY <1>1, <2>1, <2>4, <2>5, FewerOrdered, LocalOrder
<1>3. ASSUME NEW pc \in {"dead", "throttle"}, Throw(t, pc)
      PROVE  OrderInv'
  <2>1. CASE proc = "boot"
    BY <1>3, <2>1, ExitOrder DEF Throw
  <2>2. CASE proc # "boot"
    <3>1. [Fresh EXCEPT !.pc = pc].pages = {} /\ [Fresh EXCEPT !.pc = pc].items = {}
      BY DEF Fresh
    <3> QED
      BY <1>3, <2>2, <3>1, NothingOrdered, StepOrder DEF Throw, maps
  <2> QED
    BY <2>1, <2>2
<1>4. CASE ScriptFails(t) \/ ApiFails(t)
  BY <1>3, <1>4 DEF ScriptFails, ApiFails
<1> QED
  BY <1>2, <1>4

(* A connection is opened, closed by the server, or at its end. *)
LEMMA OrderWatch ==
    ASSUME TypeOK, ScopeInv, OrderInv, NEW t \in Tasks,
           Connect(t) \/ StreamEnds(t) \/ Close(t)
    PROVE  OrderInv'
<1>1. /\ task[t] \in Task /\ ListOrdered(task[t], taken, cluster, rev)
      /\ stream[t] \in Stream /\ StreamOrdered(stream[t], taken, cluster, rev)
  BY OrderParts DEF TypeOK, Stream
<1>2. \A pc \in {"watch", "loop"} : ListOrdered([task[t] EXCEPT !.pc = pc], taken, cluster, rev)
  <2> TAKE pc \in {"watch", "loop"}
  <2> DEFINE next == [task[t] EXCEPT !.pc = pc]
  <2>1. next.pc # "names" /\ next.pages = task[t].pages /\ next.items = task[t].items
    BY <1>1 DEF Task
  <2> HIDE DEF next
  <2>2. ListOrdered(next, taken, cluster, rev)
    BY <1>1, <2>1, FewerOrdered
  <2> QED
    BY <2>2 DEF next
<1>3. CASE Connect(t)
  <2>1. /\ task' = [task EXCEPT ![t] = [task[t] EXCEPT !.pc = "watch"]]
        /\ stream' = [stream EXCEPT ![t] = OpenStream(t)]
        /\ UNCHANGED <<cluster, rev, taken>>
    BY <1>3 DEF Connect, TypeOK, maps
  <2>2. OpenStream(t).backlog = Selected(t) /\ DOMAIN OpenStream(t).queue = {}
    BY DEF OpenStream
  <2>3. StreamOrdered(OpenStream(t), taken, cluster, rev)
    BY <2>2, SelectedOrdered DEF StreamOrdered, ScopeInv
  <2> QED
    BY <1>2, <2>1, <2>3, StepOrder
<1>4. CASE StreamEnds(t)
  <2>1. /\ task' = [task EXCEPT ![t] = [task[t] EXCEPT !.pc = "loop"]]
        /\ UNCHANGED <<stream, cluster, rev, taken>>
    BY <1>4 DEF StreamEnds, TypeOK, maps
  <2> QED
    BY <1>2, <2>1, LocalOrder
<1>5. CASE Close(t)
  <2> DEFINE s == [stream[t] EXCEPT !.live = FALSE]
  <2>1. /\ stream' = [stream EXCEPT ![t] = s] /\ task' = [task EXCEPT ![t] = task[t]]
        /\ UNCHANGED <<cluster, rev, taken>>
    BY <1>5 DEF Close, ServerClose, TypeOK, maps
  <2>2. s.backlog = stream[t].backlog /\ s.queue = stream[t].queue
    BY <1>1 DEF Stream
  <2> HIDE DEF s
  <2>3. StreamOrdered(s, taken, cluster, rev)
    BY <1>1, <2>2 DEF StreamOrdered
  <2> QED
    BY <1>1, <2>1, <2>3, StepOrder
<1> QED
  BY <1>3, <1>4, <1>5

(* What is left of a stream is newer than what was read from it. *)
LEMMA DeliveryOrdered ==
    ASSUME TypeOK, OrderInv, NEW t \in Tasks, NEW d \in Delivery(t)
    PROVE  /\ InOrder(d[1].item, taken, cluster, rev)
           /\ StreamOrdered(d[2], taken, cluster, rev)
           /\ \A it \in d[2].backlog : it.res # d[1].item.res
           /\ \A i \in DOMAIN d[2].queue : d[2].queue[i].item.res = d[1].item.res =>
                                             d[1].item.rv < d[2].queue[i].item.rv
<1> DEFINE s == stream[t]
           q == stream[t].queue
<1>1. s \in Stream /\ StreamOrdered(s, taken, cluster, rev)
  BY OrderParts DEF TypeOK, Stream
<1>2. /\ q \in Seq(Event) /\ DOMAIN q = 1..Len(q) /\ Len(q) \in Nat
  BY <1>1, StreamItems
<1>3. CASE \E it \in s.backlog :
             d = <<[gone |-> FALSE, item |-> it], [s EXCEPT !.backlog = @ \ {it}]>>
  <2>1. PICK it \in s.backlog :
             d = <<[gone |-> FALSE, item |-> it], [s EXCEPT !.backlog = @ \ {it}]>>
    BY <1>3
  <2>2. d[1].item = it /\ d[2].backlog = s.backlog \ {it} /\ d[2].queue = q
    BY <1>1, <2>1 DEF Stream
  <2>3. StreamOrdered(d[2], taken, cluster, rev)
    BY <1>1, <2>2 DEF StreamOrdered
  <2>4. InOrder(it, taken, cluster, rev)
    BY <1>1 DEF StreamOrdered
  <2>5. InOrder(d[1].item, taken, cluster, rev)
    BY <2>2, <2>4
  <2>6. \A a \in d[2].backlog : a.res # d[1].item.res
    BY <1>1, <2>1, <2>2 DEF StreamOrdered
  <2>7. \A i \in DOMAIN q : q[i].item.res = it.res => it.rv < q[i].item.rv
    BY <1>1, <2>1 DEF StreamOrdered
  <2>8. \A i \in DOMAIN d[2].queue : d[2].queue[i].item.res = d[1].item.res =>
                                       d[1].item.rv < d[2].queue[i].item.rv
    BY <2>2, <2>7
  <2> QED
    BY <2>3, <2>5, <2>6, <2>8
<1>4. CASE s.backlog = {} /\ q # <<>> /\ d = <<Head(q), [s EXCEPT !.queue = Tail(@)]>>
  <2>1. d[1] = Head(q) /\ d[2].backlog = {} /\ d[2].queue = Tail(q)
    BY <1>1, <1>4 DEF Stream
  <2>2. /\ Head(q) = q[1] /\ 1 \in DOMAIN q
        /\ DOMAIN Tail(q) = 1..(Len(q) - 1)
        /\ \A i \in 1..(Len(q) - 1) : Tail(q)[i] = q[i + 1] /\ i + 1 \in DOMAIN q
    BY <1>2, <1>4
  <2>3. ASSUME NEW i \in 1..(Len(q) - 1)
        PROVE  /\ InOrder(Tail(q)[i].item, taken, cluster, rev)
               /\ taken[Tail(q)[i].item.res] < Tail(q)[i].item.rv
               /\ Tail(q)[i].item.res = q[1].item.res => q[1].item.rv < Tail(q)[i].item.rv
               /\ \A j \in 1..(i - 1) : Tail(q)[j].item.res = Tail(q)[i].item.res =>
                                          Tail(q)[j].item.rv < Tail(q)[i].item.rv
    <3>1. /\ InOrder(q[i + 1].item, taken, cluster, rev)
          /\ taken[q[i + 1].item.res] < q[i + 1].item.rv
          /\ \A j \in 1..i : q[j].item.res = q[i + 1].item.res =>
                               q[j].item.rv < q[i + 1].item.rv
      BY <1>1, <2>2, <2>3 DEF StreamOrdered
    <3>2. \A j \in 1..(i - 1) : j + 1 \in 1..i /\ Tail(q)[j] = q[j + 1]
      BY <1>2, <2>2, <2>3
    <3>3. 1 \in 1..i /\ Tail(q)[i] = q[i + 1]
      BY <1>2, <2>2, <2>3
    <3> QED
      BY <3>1, <3>2, <3>3
  <2>4. StreamOrdered(d[2], taken, cluster, rev)
    BY <2>1, <2>2, <2>3 DEF StreamOrdered
  <2>5. InOrder(q[1].item, taken, cluster, rev)
    BY <1>1, <2>2 DEF StreamOrdered
  <2> HIDE DEF q
  <2> QED
    BY <2>1, <2>2, <2>3, <2>4, <2>5
<1> QED
  BY <1>3, <1>4 DEF Delivery

(* The processing of an event: what it says of its object is taken, and its    *)
(* one watcher has nothing of the object but later events.                     *)
LEMMA OrderEvent ==
    ASSUME TypeOK, TypeOK', ScopeInv, LocalInv, OrderInv, NEW t \in Tasks, HandleEvent(t)
    PROVE  OrderInv'
<1>1. task[t] \in Task /\ task[t].pages = {} /\ task[t].items = {}
  BY DEF TypeOK, LocalInv, Settled, HandleEvent, InPass
<1>2. PICK d \in Delivery(t) : \E ops :
        /\ stream' = [stream EXCEPT ![t] = d[2]]
        /\ \/ UNCHANGED <<task, taken>>
           \/ /\ task' = [task EXCEPT ![t] = [[Fresh EXCEPT !.via = "event"]
                                                EXCEPT !.pc = "file", !.ops = ops]]
              /\ \/ UNCHANGED taken
                 \/ taken' = [taken EXCEPT ![d[1].item.res] = d[1].item.rv]
  BY DEF HandleEvent, Store, Forget
<1> DEFINE next(ops) == [[Fresh EXCEPT !.via = "event"] EXCEPT !.pc = "file", !.ops = ops]
           item == d[1].item
           s == d[2]
<1>3. \A ops : next(ops).pages = {} /\ next(ops).items = {}
  BY DEF Fresh
<1>4. /\ StreamOrdered(s, taken, cluster, rev)
      /\ InOrder(item, taken, cluster, rev)
      /\ \A it \in s.backlog : it.res # item.res
      /\ \A i \in DOMAIN s.queue : s.queue[i].item.res = item.res => item.rv < s.queue[i].item.rv
  BY DeliveryOrdered
<1>5. s \in Stream /\ item \in Item /\ Serves(t, item.res)
  BY DeliveryType, DeliveryScope DEF ScopeInv, Event
<1>6. \A ops : ListOrdered(next(ops), taken, cluster, rev)
  <2> HIDE DEF next
  <2> QED
    BY <1>3, NothingOrdered
<1>7. PICK ops :
        /\ stream' = [stream EXCEPT ![t] = s]
        /\ \/ UNCHANGED <<task, taken>>
           \/ /\ task' = [task EXCEPT ![t] = next(ops)]
              /\ \/ UNCHANGED taken
                 \/ taken' = [taken EXCEPT ![item.res] = item.rv]
  BY <1>2
<1>8. UNCHANGED <<cluster, rev>>
  BY DEF HandleEvent
<1> HIDE DEF next, item, s
<1>9. CASE UNCHANGED <<task, taken>>
  <2>1. task' = [task EXCEPT ![t] = task[t]]
    BY <1>9 DEF TypeOK
  <2>2. ListOrdered(task[t], taken, cluster, rev)
    BY <1>1, NothingOrdered
  <2> QED
    BY <1>4, <1>7, <1>8, <1>9, <2>1, <2>2, StepOrder
<1>10. CASE task' = [task EXCEPT ![t] = next(ops)] /\ UNCHANGED taken
  BY <1>4, <1>6, <1>7, <1>8, <1>10, StepOrder
<1>11. CASE /\ task' = [task EXCEPT ![t] = next(ops)]
            /\ taken' = [taken EXCEPT ![item.res] = item.rv]
  <2>1. next(ops) = task'[t] /\ next(ops) \in Task
    BY <1>11 DEF TypeOK
  <2>2. next(ops).pages \union next(ops).items = {}
    BY <1>3
  <2> QED
    BY <1>4, <1>5, <1>6, <1>7, <1>8, <1>11, <2>1, <2>2, TakeOrder
<1> QED
  BY <1>7, <1>9, <1>10, <1>11

(* What a user's step does: one object gets the next version, or goes, and    *)
(* its watchers get at most one event, of that version.                       *)
LEMMA UserChange ==
    ASSUME TypeOK, ClusterNamed, User
    PROVE  \E r \in Res : \E new :
             /\ cluster' = [cluster EXCEPT ![r] = new] /\ rev' = rev + 1
             /\ new # None => new.rv = rev + 1
             /\ \/ UNCHANGED stream
                \/ \E ev \in Event : ev.item.res = r /\ ev.item.rv = rev + 1 /\ Broadcast(r, ev)
<1>1. PICK r \in Res : Apply(r) \/ Delete(r)
  BY DEF User
<1>2. rev + 1 \in 0..MaxRev
  BY <1>1, ApiAssumption DEF Apply, Delete, TypeOK
<1>3. ASSUME cluster[r] # None
      PROVE  \E ev \in Event : /\ ev = [gone |-> TRUE, item |-> [cluster[r] EXCEPT !.rv = rev + 1]]
                               /\ ev.item.res = r /\ ev.item.rv = rev + 1
  <2>1. cluster[r] \in Item /\ cluster[r].res = r
    BY <1>3 DEF TypeOK, ClusterNamed
  <2> DEFINE item == [cluster[r] EXCEPT !.rv = rev + 1]
  <2>2. item \in Item /\ item.res = r /\ item.rv = rev + 1
    BY <1>2, <2>1 DEF Item
  <2> HIDE DEF item
  <2>3. [gone |-> TRUE, item |-> item] \in Event
    BY <2>2 DEF Event
  <2> QED
    BY <2>2, <2>3 DEF item
<1>4. CASE Apply(r)
  <2>1. PICK s \in Shapes[r] :
          /\ cluster' = [cluster EXCEPT ![r] = MakeItem(r, rev + 1, s)] /\ rev' = rev + 1
          /\ \/ Broadcast(r, [gone |-> FALSE, item |-> MakeItem(r, rev + 1, s)])
             \/ /\ cluster[r] # None
                /\ Broadcast(r, [gone |-> TRUE, item |-> [cluster[r] EXCEPT !.rv = rev + 1]])
             \/ UNCHANGED stream
    BY <1>4 DEF Apply
  <2> DEFINE new == MakeItem(r, rev + 1, s)
  <2>2. new \in Item /\ new.res = r /\ new.rv = rev + 1
    BY <1>2, ApiAssumption DEF MakeItem, Item, Shape
  <2> HIDE DEF new
  <2>3. [gone |-> FALSE, item |-> new] \in Event
    BY <2>2 DEF Event
  <2>4. \/ UNCHANGED stream
        \/ \E ev \in Event : ev.item.res = r /\ ev.item.rv = rev + 1 /\ Broadcast(r, ev)
    BY <1>3, <2>1, <2>2, <2>3 DEF new
  <2>5. cluster' = [cluster EXCEPT ![r] = new] /\ rev' = rev + 1
    BY <2>1 DEF new
  <2> QED
    BY <2>2, <2>4, <2>5
<1>5. CASE Delete(r)
  <2>1. /\ cluster' = [cluster EXCEPT ![r] = None] /\ rev' = rev + 1
        /\ \/ UNCHANGED stream
           \/ \E ev \in Event : ev.item.res = r /\ ev.item.rv = rev + 1 /\ Broadcast(r, ev)
    BY <1>3, <1>5 DEF Delete
  <2> QED
    BY <2>1
<1> QED
  BY <1>1, <1>4, <1>5

(* A user gives an object a version newer than all there are. *)
LEMMA OrderUser ==
    ASSUME TypeOK, ClusterNamed, OrderInv, User
    PROVE  OrderInv'
<1>1. PICK r \in Res : \E new :
             /\ cluster' = [cluster EXCEPT ![r] = new] /\ rev' = rev + 1
             /\ new # None => new.rv = rev + 1
             /\ \/ UNCHANGED stream
                \/ \E ev \in Event : ev.item.res = r /\ ev.item.rv = rev + 1 /\ Broadcast(r, ev)
  BY UserChange
<1>2. PICK new :
             /\ cluster' = [cluster EXCEPT ![r] = new] /\ rev' = rev + 1
             /\ new # None => new.rv = rev + 1
             /\ \/ UNCHANGED stream
                \/ \E ev \in Event : ev.item.res = r /\ ev.item.rv = rev + 1 /\ Broadcast(r, ev)
  BY <1>1
<1>3. UNCHANGED <<task, taken>>
  BY DEF User, maps
<1>4. /\ taken \in [Res -> Int] /\ cluster \in [Res -> Item \union {None}] /\ rev \in Nat
      /\ \A t \in Tasks : task[t] \in Task /\ stream[t] \in Stream
  BY ApiAssumption DEF TypeOK, Stream
<1>5. /\ TakenOrdered(taken, cluster, rev)
      /\ \A t \in Tasks : /\ ListOrdered(task[t], taken, cluster, rev)
                          /\ StreamOrdered(stream[t], taken, cluster, rev)
  BY OrderParts
<1> DEFINE cl == [cluster EXCEPT ![r] = new]
<1>6. TakenOrdered(taken, cl, rev + 1)
  <2>1. \A x \in Res : cl[x] = IF x = r THEN new ELSE cluster[x]
    BY <1>4
  <2>2. \A x \in Res : taken[x] <= rev /\ taken[x] \in Int
    BY <1>4, <1>5 DEF TakenOrdered
  <2>3. \A x \in Res : cluster[x] # None =>
           taken[x] <= cluster[x].rv /\ cluster[x].rv <= rev /\ cluster[x].rv \in Int
    BY <1>4, <1>5, ApiAssumption DEF TakenOrdered, Item
  <2> HIDE DEF cl
  <2> QED
    BY <1>2, <1>4, <2>1, <2>2, <2>3 DEF TakenOrdered
<1>7. \A t \in Tasks : ListOrdered(task[t], taken, cl, rev + 1)
  BY <1>2, <1>4, <1>5, ListChange
<1>8. \A t \in Tasks : StreamOrdered(stream[t], taken, cl, rev + 1)
  BY <1>2, <1>4, <1>5, StreamChange
<1>9. \A t \in Tasks : \A ev \in Event : ev.item.res = r /\ ev.item.rv = rev + 1 =>
          StreamOrdered([stream[t] EXCEPT !.queue = Append(@, ev)], taken, cl, rev + 1)
  BY <1>2, <1>4, <1>5, StreamAppend
<1> HIDE DEF cl
<1>10. \A t \in Tasks : StreamOrdered(stream'[t], taken, cl, rev + 1)
  <2>1. CASE UNCHANGED stream
    BY <1>8, <2>1
  <2>2. ASSUME NEW ev \in Event, ev.item.res = r, ev.item.rv = rev + 1, Broadcast(r, ev)
        PROVE  \A t \in Tasks : StreamOrdered(stream'[t], taken, cl, rev + 1)
    <3>1. \A t \in Tasks : \/ stream'[t] = stream[t]
                           \/ stream'[t] = [stream[t] EXCEPT !.queue = Append(@, ev)]
      BY <2>2 DEF Broadcast
    <3> QED
      BY <1>8, <1>9, <2>2, <3>1
  <2> QED
    BY <1>2, <2>1, <2>2
<1>11. cluster' = cl /\ rev' = rev + 1
  BY <1>2 DEF cl
<1>12. TakenOrdered(taken', cluster', rev')
  BY <1>3, <1>6, <1>11
<1>13. \A t \in Tasks : /\ ListOrdered(task'[t], taken', cluster', rev')
                        /\ StreamOrdered(stream'[t], taken', cluster', rev')
  BY <1>3, <1>7, <1>10, <1>11
<1> QED
  BY <1>12, <1>13, OrderNextParts

(* The steps of main, the end of the process and its restart. *)
LEMMA OrderMain ==
    ASSUME TypeOK, OrderInv, EndBoot \/ Monitor \/ Crash \/ Restart
    PROVE  OrderInv'
<1>1. CASE EndBoot /\ Mode # "LIST"
  <2>1. /\ \A t \in Tasks : task'[t] = [Fresh EXCEPT !.pc = "loop"]
        /\ UNCHANGED <<stream, cluster, rev, taken>>
    BY <1>1 DEF EndBoot, maps
  <2>2. \A t \in Tasks : ListOrdered(task'[t], taken, cluster, rev)
    BY <2>1, NothingOrdered DEF Fresh
  <2>3. TakenOrdered(taken, cluster, rev)
        /\ \A t \in Tasks : StreamOrdered(stream[t], taken, cluster, rev)
    BY OrderParts
  <2>4. TakenOrdered(taken', cluster', rev')
    BY <2>1, <2>3
  <2>5. \A t \in Tasks : /\ ListOrdered(task'[t], taken', cluster', rev')
                         /\ StreamOrdered(stream'[t], taken', cluster', rev')
    BY <2>1, <2>2, <2>3
  <2> QED
    BY <2>4, <2>5, OrderNextParts
<1>2. CASE Restart
  BY <1>2, StillOrder DEF Restart, maps
<1>3. CASE (EndBoot /\ Mode = "LIST") \/ Monitor \/ Crash
  BY <1>3, ExitOrder DEF EndBoot, Monitor, Crash
<1> QED
  BY <1>1, <1>2, <1>3

(* Initially nothing was taken, and nothing is at hand. *)
LEMMA OrderInit == Init => OrderInv
<1> SUFFICES ASSUME Init PROVE OrderInv
  OBVIOUS
<1>1. \A t \in Tasks : task[t] = Fresh /\ stream[t] = NoStream
  BY DEF Init, ApiInit
<1>2. \A t \in Tasks : /\ ListOrdered(task[t], taken, cluster, rev)
                       /\ StreamOrdered(stream[t], taken, cluster, rev)
  BY <1>1, NothingOrdered DEF Fresh
<1>3. TakenOrdered(taken, cluster, rev)
  <2>1. \A r \in Res : cluster[r] # None => cluster[r].rv = 0
    BY DEF Init, ApiInit, Initial, MakeItem
  <2>2. rev = 0 /\ \A r \in Res : taken[r] = -1
    BY DEF Init, ApiInit
  <2> QED
    BY <2>1, <2>2 DEF TakenOrdered
<1> QED
  BY <1>2, <1>3, OrderParts

(* Every step keeps the versions in order. *)
LEMMA OrderNext ==
    TypeOK /\ TypeOK' /\ ScopeInv /\ LocalInv /\ PhaseInv /\ OrderInv /\ [Next]_vars => OrderInv'
<1> SUFFICES ASSUME TypeOK, TypeOK', ScopeInv, LocalInv, PhaseInv, OrderInv, [Next]_vars
             PROVE  OrderInv'
  OBVIOUS
<1>1. CASE UNCHANGED vars
  BY <1>1, StillOrder DEF vars, maps
<1>2. ASSUME NEW t \in Tasks, Step(t) PROVE OrderInv'
  BY <1>2, OrderList, OrderItem, OrderFile, OrderHook, OrderWatch, OrderEvent DEF Step
<1>3. ASSUME NEW t \in Tasks, Fails(t) \/ Close(t) PROVE OrderInv'
  BY <1>3, OrderHook, OrderWatch DEF Fails
<1>4. CASE User
  BY <1>4, OrderUser DEF ScopeInv
<1>5. CASE EndBoot \/ Monitor \/ Crash \/ Restart
  BY <1>5, OrderMain
<1> QED
  BY <1>1, <1>2, <1>3, <1>4, <1>5 DEF Next

(* No task has a stream while it lists, none is read before the initial sync   *)
(* is over, and nothing outlives the process.                                  *)
THEOREM PhaseCorrect == Spec => []PhaseInv
BY TypeInit, TypeNext, LocalInit, LocalNext, PhaseInit, PhaseNext, PTL DEF Spec

(* In every reachable state, what is listed or queued of an object is no older *)
(* than what was stored of it, and the events of an object get newer.          *)
THEOREM OrderCorrect == Spec => []OrderInv
BY TypeInit, TypeNext, ScopeInit, ScopeNext, LocalInit, LocalNext, PhaseInit, PhaseNext,
   OrderInit, OrderNext, PTL DEF Spec

-----------------------------------------------------------------------------
(* The action behind VersionsForward. *)
NeverBack == \A r \in Res : taken'[r] >= taken[r]

(* What a listing or a stream hands over is no older than what was taken. *)
LEMMA TakeForward ==
    ASSUME TypeOK, NEW item, InOrder(item, taken, cluster, rev), item.rv \in Int,
           taken' = [taken EXCEPT ![item.res] = item.rv]
    PROVE  NeverBack
<1>1. \A r \in Res : taken[r] \in Int /\ taken'[r] = IF r = item.res THEN item.rv ELSE taken[r]
  BY ApiAssumption DEF TypeOK
<1> QED
  BY <1>1 DEF NeverBack, InOrder

(* Only a listed object and an event are taken. *)
LEMMA ForwardNext == TypeOK /\ OrderInv /\ [Next]_vars => NeverBack
<1> SUFFICES ASSUME TypeOK, OrderInv, [Next]_vars PROVE NeverBack
  OBVIOUS
<1>1. CASE UNCHANGED taken
  <2>1. \A r \in Res : taken[r] \in Int
    BY ApiAssumption DEF TypeOK
  <2> QED
    BY <1>1, <2>1 DEF NeverBack
<1>2. ASSUME NEW t \in Tasks, ListItem(t) PROVE NeverBack
  <2>1. PICK it \in task[t].items :
          UNCHANGED taken \/ taken' = [taken EXCEPT ![it.res] = it.rv]
    BY <1>2 DEF ListItem, Store, maps
  <2>2. it.rv \in Int
    BY ApiAssumption DEF TypeOK, Task, Item
  <2>3. InOrder(it, taken, cluster, rev)
    BY OrderParts DEF ListOrdered
  <2> QED
    BY <1>1, <2>1, <2>2, <2>3, TakeForward
<1>3. ASSUME NEW t \in Tasks, HandleEvent(t) PROVE NeverBack
  <2>1. PICK d \in Delivery(t) :
          UNCHANGED taken \/ taken' = [taken EXCEPT ![d[1].item.res] = d[1].item.rv]
    BY <1>3 DEF HandleEvent, Store, Forget
  <2>2. d[1].item.rv \in Int
    BY DeliveryType, ApiAssumption DEF Event, Item
  <2>3. InOrder(d[1].item, taken, cluster, rev)
    BY DeliveryOrdered
  <2> QED
    BY <1>1, <2>1, <2>2, <2>3, TakeForward
<1>4. ASSUME NEW t \in Tasks, Step(t), ~ListItem(t), ~HandleEvent(t)
      PROVE  UNCHANGED taken
  BY <1>4 DEF Step, BeginList, ReadNamed, ListPage, BeginStale, RemoveStale, Forget, EndList,
       UpdateFile, FetchUrl, UpdateFetched, FinishItem, RunScript, SendRequest, Wake, Connect,
       StreamEnds, maps
<1>5. ASSUME NEW t \in Tasks, Fails(t) \/ Close(t) PROVE UNCHANGED taken
  BY <1>5 DEF Fails, ScriptFails, ApiFails, Throw, Exit, Close, maps
<1>6. CASE User \/ EndBoot \/ Monitor \/ Crash \/ Restart
  BY <1>1, <1>6 DEF User, EndBoot, Monitor, Crash, Restart, Exit, maps
<1>7. CASE UNCHANGED vars
  BY <1>1, <1>7 DEF vars, maps
<1> QED
  BY <1>1, <1>2, <1>3, <1>4, <1>5, <1>6, <1>7 DEF Next

(* The versions of an object are stored in order, whatever mix of listings,    *)
(* streams, reconnects, failures and restarts they come through.               *)
THEOREM VersionsForwardCorrect == Spec => VersionsForward
<1>1. TypeOK /\ OrderInv /\ [Next]_vars => [NeverBack]_vars
  BY ForwardNext
<1> QED
  BY <1>1, TypeCorrect, OrderCorrect, PTL DEF Spec, VersionsForward, NeverBack
=============================================================================

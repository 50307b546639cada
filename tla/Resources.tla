----------------------------- MODULE Resources -----------------------------
(***************************************************************************)
(* src/src/resources.rs and the part of main.rs that drives it: the        *)
(* initial list-based sync, one watcher task per (kind, namespace), the    *)
(* maps they share, the files they write and remove, and the hooks         *)
(* (SCRIPT, REQ_URL) they fire when a file changed.                        *)
(*                                                                         *)
(* The runtime is single-threaded (current_thread): a task runs until its  *)
(* next await that really suspends.  The pc values in Running are points   *)
(* inside such a stretch, every other one is an await, and a task resumes  *)
(* from an await only when no other task is inside a stretch.              *)
(***************************************************************************)
EXTENDS KubeApi

CONSTANTS
    Empty,            \* the contents of an empty file (a failed URL fetch)
    KeyOf,            \* KeyOf[r]: namespace and name concatenated, Item::key
    UrlKeys,          \* the keys with the suffix ".url"
    FileOf,           \* FileOf[k]: the file name of key k, ".url" stripped
    KeyRank,          \* the order of keys in a BTreeMap
    TargetFolder,     \* FOLDER, a path
    UniqueFilenames,  \* UNIQUE_FILENAMES
    TaskRank,         \* the order of main's loops over kinds and namespaces
    Mode,             \* METHOD: "WATCH", "SLEEP" or "LIST"
    ResourceNames,    \* RESOURCE_NAME, each entry split at "/"
    Hooks,            \* those of "script", "request" that are configured
    SkipInit,         \* REQ_SKIP_INIT
    IgnoreModes,      \* the values IGNORE_ALREADY_PROCESSED may have
    PageSize,         \* objects per list page
    FaultKinds,       \* what may fail: "api", "fs", "fetch", "script", "crash"
    MaxFaults         \* bound on the number of failures

VARIABLES
    files,            \* the volume: survives a restart of the process
    proc,             \* what main is doing, or how the process ended
    ignore,           \* ignore_already_processed of the watchers
    task,             \* the local state of each watcher
    version,          \* Maps.version, Maps.object, Maps.dest
    object,
    dest,
    taken,            \* auxiliary: the last version of each object that was stored
    told,             \* auxiliary: the files when a hook last completed
    inherited,        \* auxiliary: files of an earlier process not touched since
    faults            \* the failures so far

maps == <<version, object, dest, taken>>
volume == <<files, inherited>>
vars == <<cluster, rev, stream, volume, proc, ignore, task, maps, told, faults>>

F == INSTANCE Files

ASSUME ConfigAssumption ==
    /\ IgnoreModes \subseteq BOOLEAN
    /\ Mode \in {"WATCH", "SLEEP", "LIST"}
    /\ PageSize \in Nat \ {0}
    /\ MaxFaults \in Nat
    /\ Hooks \subseteq {"script", "request"}
-----------------------------------------------------------------------------
Body(v) == <<"body", v>>                      \* what the URL v serves
Contents == Vals \union {Body(v) : v \in Vals} \union {Empty}

FileShared(r, k) == FileOf[k]                  \* mutant: UNIQUE_FILENAMES is not looked at
FileName(r, k) == IF UniqueFilenames
                  THEN F!UniqueFilename(FileOf[k], NsOf[r], KindOf[r], NameOf[r])
                  ELSE FileOf[k]

(* An absolute annotation replaces FOLDER, a relative one is joined to it. *)
get_destination_folder(ann) ==
    IF ann = None THEN TargetFolder
    ELSE IF ann # <<>> /\ Head(ann) = "/" THEN ann
    ELSE IF TargetFolder # <<>> /\ TargetFolder[Len(TargetFolder)] = "/"
    THEN TargetFolder \o ann
    ELSE TargetFolder \o <<"/">> \o ann

NoPath == <<>>                                \* unwrap_or_default()
Paths == {get_destination_folder(a) : a \in Anns \union {None}} \union {NoPath}
Slot(path, r, k) == <<F!Resolve(path), FileName(r, k)>>
Slots == {Slot(p, r, k) : p \in Paths, r \in Res, k \in Keys}

MapKey(r) == <<KindOf[r], KeyOf[r]>>
MapKeys == {MapKey(r) : r \in Res}

(* CachedItem: which keys an object had, and in which section.  The values   *)
(* are elided; that of a ".url" key is kept only to be fetched and dropped.  *)
SectionsOf(item) == [k \in Keys |-> IF item.data[k] = None THEN None ELSE item.data[k].sec]
CachedItem(item) == [res |-> item.res, sec |-> SectionsOf(item)]
Cached == [res: Res, sec: [Keys -> Sections \union {None}]]

ListedNames == {e[Len(e)] : e \in ResourceNames}

(* One call of update_file: its place in process_resource (text, leftover    *)
(* text, binary, leftover binary), the object it is for, and what to put.    *)
Op == [phase: 1..4, res: Res, key: Keys, path: Paths, put: Vals \union {None}]
Task == [pc: {"start", "ready", "loop", "names", "page", "items", "stale", "file",
              "fetch", "script", "request", "sleep", "watch", "throttle", "dead"},
         via: {"list", "stale", "event"},
         names: SUBSET ListedNames, pages: SUBSET Item, items: SUBSET Item,
         exist: SUBSET {KeyOf[r] : r \in Res}, stale: SUBSET Cached, ops: SUBSET Op,
         changed: BOOLEAN]

Running == {"items", "stale", "file"}
ExecutorFree == \A t \in Tasks : task[t].pc \notin Running

Fresh == [pc |-> "start", via |-> "list", names |-> {}, pages |-> {}, items |-> {},
          exist |-> {}, stale |-> {}, ops |-> {}, changed |-> FALSE]

(* A failure is possible while the bound lasts. *)
Spend(kind) == kind \in FaultKinds /\ faults < MaxFaults /\ faults' = faults + 1

(* The process is gone: its tasks, maps and connections with it. *)
Exit(status) ==
    /\ proc' = status
    /\ task' = [t \in Tasks |-> Fresh]
    /\ stream' = [t \in Tasks |-> NoStream]
    /\ version' = [m \in MapKeys |-> None]
    /\ object' = [m \in MapKeys |-> None]
    /\ dest' = [m \in MapKeys |-> None]
    /\ inherited' = {s \in Slots : files[s] # None}
    /\ UNCHANGED <<cluster, rev, files, ignore, taken, told>>
-----------------------------------------------------------------------------
(***************************************************************************)
(* Which objects a task lists                                              *)
(***************************************************************************)
(* RESOURCE_NAME: three parts are checked for the namespace only, two for    *)
(* the kind only.  An object that several entries name is read once here,    *)
(* by the code once per entry.                                               *)
Chosen(t) == {e[Len(e)] : e \in {x \in ResourceNames :
                /\ Len(x) = 3 => x[1] = TaskNs[t]
                /\ Len(x) = 2 => x[1] = TaskKind[t]}}

LabelOnly(t) == FALSE                          \* mutant: RESOURCE_NAME is not looked at
ByName(t) == TaskNs[t] # "ALL" /\ Chosen(t) # {}
SleepMode(t) == Mode = "SLEEP" \/ (TaskNs[t] # "ALL" /\ ResourceNames # {})

(* The ends of a pass or an event: back to the stream, to sleep, or to main. *)
Resting(t, local) ==
    [Fresh EXCEPT !.pc = IF local.via = "event" THEN "watch"
                         ELSE IF proc = "boot" THEN "ready" ELSE "sleep"]

(* The hooks of this pass: the initial sync may skip the request. *)
HooksNow == IF proc = "boot" /\ SkipInit /\ Mode # "LIST" THEN Hooks \ {"request"} ELSE Hooks

(* files_changed gates SCRIPT, then REQ_URL. *)
Notify(t, local) ==
    IF local.changed /\ "script" \in HooksNow
    THEN [Fresh EXCEPT !.pc = "script", !.via = local.via]
    ELSE IF local.changed /\ "request" \in HooksNow
    THEN [Fresh EXCEPT !.pc = "request", !.via = local.via]
    ELSE Resting(t, local)

-----------------------------------------------------------------------------
(***************************************************************************)
(* process_resource: the map update and the calls of update_file it makes  *)
(***************************************************************************)
Writes(item, path) ==
    {[phase |-> IF item.data[k].sec = "text" THEN 1 ELSE 3,
      res |-> item.res, key |-> k, path |-> path, put |-> item.data[k].val] :
        k \in {j \in Keys : item.data[j] # None}}

(* Mutant: keys the new object still has are not kept. *)
minus_nothing(old, new) == {k \in Keys : old[k] # None}

(* minus_common: the old keys of a section that the same section of the new  *)
(* object no longer has.                                                     *)
minus_common(old, new) == {k \in Keys : old[k] # None /\ new[k] # old[k]}

(* Mutants: a move leaves the kept keys behind; leftovers go from the new folder. *)
LeftoversNoMove(old, new, from, to) ==
    {[phase |-> IF old.sec[k] = "text" THEN 2 ELSE 4,
      res |-> old.res, key |-> k, path |-> from, put |-> None] :
        k \in minus_common(old.sec, new.sec)}
LeftoversInNewFolder(old, new, from, to) ==
    {[phase |-> IF old.sec[k] = "text" THEN 2 ELSE 4,
      res |-> old.res, key |-> k, path |-> to, put |-> None] :
        k \in IF from = to THEN minus_common(old.sec, new.sec)
              ELSE {j \in Keys : old.sec[j] # None}}

(* Every old key when the folder moved (old_dest == dest compares strings).  *)
Leftovers(old, new, from, to) ==
    {[phase |-> IF old.sec[k] = "text" THEN 2 ELSE 4,
      res |-> old.res, key |-> k, path |-> from, put |-> None] :
        k \in IF from = to THEN minus_common(old.sec, new.sec)
              ELSE {j \in Keys : old.sec[j] # None}}

(* Mutant: binary keys are not removed. *)
RemovalsOfText(old, path) ==
    {[phase |-> 1, res |-> old.res, key |-> k, path |-> path, put |-> None] :
        k \in {j \in Keys : old.sec[j] = "text"}}

Removals(old, path) ==
    {[phase |-> IF old.sec[k] = "text" THEN 1 ELSE 3,
      res |-> old.res, key |-> k, path |-> path, put |-> None] :
        k \in {j \in Keys : old.sec[j] # None}}

OldDestForgotten(m, to) == to                  \* mutant: the dest map is not read
OldDestUnset(m, to) == dest[m]                 \* mutant: no or_else
OldDest(m, to) == IF dest[m] # None THEN dest[m] ELSE to

(* process_resource with is_removed = false. *)
Store(t, local, item, to) ==
    LET m == MapKey(item.res)
        new == CachedItem(item)
        old == IF object[m] # None THEN object[m] ELSE new
    IN  /\ object' = [object EXCEPT ![m] = new]
        /\ dest' = [dest EXCEPT ![m] = to]
        /\ taken' = [taken EXCEPT ![item.res] = item.rv]
        /\ task' = [task EXCEPT ![t] =
             [local EXCEPT !.pc = "file",
                           !.ops = Writes(item, to) \union Leftovers(old, new, OldDest(m, to), to)]]

(* process_resource with is_removed = true: the dest entry stays. *)
Forget(t, local, gone, to) ==
    LET m == MapKey(gone.res)
    IN  /\ object' = [object EXCEPT ![m] = None]
        /\ task' = [task EXCEPT ![t] =
             [local EXCEPT !.pc = "file", !.ops = Removals(gone, OldDest(m, to))]]
        /\ UNCHANGED <<dest, taken>>
-----------------------------------------------------------------------------
(***************************************************************************)
(* update_file, one call per step                                          *)
(***************************************************************************)
Precedes(a, b) == a.phase < b.phase
                  \/ (a.phase = b.phase /\ KeyRank[a.key] <= KeyRank[b.key])

NextOp(t, op) == op \in task[t].ops /\ \A o \in task[t].ops : Precedes(op, o)

(* Mutant: changed = instead of changed |=. *)
PerformLastCounts(t, op, data, fails) ==
    LET slot == Slot(op.path, op.res, op.key)
    IN  \E out \in IF op.put = None
                   THEN F!RemoveFile(files[slot], fails)
                   ELSE F!WriteDataToFile(files[slot], data, fails) :
          /\ files' = [files EXCEPT ![slot] = out.now]
          /\ inherited' = inherited \ {slot}
          /\ task' = [task EXCEPT ![t].pc = "file",
                                  ![t].ops = @ \ {op},
                                  ![t].changed = out.changed]

(* The file operation itself; a failure is logged and counts as no change. *)
Perform(t, op, data, fails) ==
    LET slot == Slot(op.path, op.res, op.key)
    IN  \E out \in IF op.put = None
                   THEN F!RemoveFile(files[slot], fails)
                   ELSE F!WriteDataToFile(files[slot], data, fails) :
          /\ files' = [files EXCEPT ![slot] = out.now]
          /\ inherited' = inherited \ {slot}
          /\ task' = [task EXCEPT ![t].pc = "file",
                                  ![t].ops = @ \ {op},
                                  ![t].changed = @ \/ out.changed]

UpdateFile(t) ==
    /\ task[t].pc = "file"
    /\ \E op \in task[t].ops :
         /\ NextOp(t, op)
         /\ op.key \notin UrlKeys
         /\ \/ Perform(t, op, op.put, FALSE) /\ UNCHANGED faults
            \/ Spend("fs") /\ Perform(t, op, op.put, TRUE)
    /\ UNCHANGED <<cluster, rev, stream, proc, ignore, maps, told>>

(* A ".url" key is fetched first, on the removal path too. *)
FetchUrl(t) ==
    /\ task[t].pc = "file"
    /\ \E op \in task[t].ops : NextOp(t, op) /\ op.key \in UrlKeys
    /\ task' = [task EXCEPT ![t].pc = "fetch"]
    /\ UNCHANGED <<cluster, rev, stream, volume, proc, ignore, maps, told, faults>>

(* A fetch that fails yields an empty body (body_if_ok). *)
UpdateFetched(t) ==
    /\ task[t].pc = "fetch"
    /\ ExecutorFree
    /\ \E op \in task[t].ops :
         /\ NextOp(t, op)
         /\ op.key \in UrlKeys
         /\ \/ Perform(t, op, Body(op.put), FALSE) /\ UNCHANGED faults
            \/ Spend("fetch") /\ Perform(t, op, Empty, FALSE)
            \/ Spend("fs") /\ Perform(t, op, Body(op.put), TRUE)
    /\ UNCHANGED <<cluster, rev, stream, proc, ignore, maps, told>>

(* process_resource returns files_changed. *)
FinishItem(t) ==
    /\ task[t].pc = "file"
    /\ task[t].ops = {}
    /\ task' = [task EXCEPT ![t] = CASE @.via = "list"  -> [@ EXCEPT !.pc = "items"]
                                     [] @.via = "stale" -> [@ EXCEPT !.pc = "stale"]
                                     [] @.via = "event" -> Notify(t, @)]
    /\ UNCHANGED <<cluster, rev, stream, volume, proc, ignore, maps, told, faults>>
-----------------------------------------------------------------------------
(***************************************************************************)
(* list_resources                                                          *)
(***************************************************************************)
(* main lists the (kind, namespace) pairs one after the other. *)
MainsTurn(t) == /\ proc = "boot"
                /\ task[t].pc = "start"
                /\ \A u \in Tasks : task[u].pc \in {"start", "ready"}
                /\ \A u \in Tasks : task[u].pc = "start" => TaskRank[t] <= TaskRank[u]

Ignoring == ignore \/ (proc = "boot" /\ Mode # "LIST")

(* The pages of one listing come from the snapshot of its first page. *)
BeginList(t) ==
    /\ ExecutorFree
    /\ MainsTurn(t) \/ (task[t].pc = "loop" /\ SleepMode(t))
    /\ task' = [task EXCEPT ![t] =
         IF ByName(t) THEN [Fresh EXCEPT !.pc = "names", !.names = Chosen(t)]
                      ELSE [Fresh EXCEPT !.pc = "page", !.pages = Selected(t)]]
    /\ UNCHANGED <<cluster, rev, stream, volume, proc, ignore, maps, told, faults>>

Gathered(local, got) ==
    IF local.names = {} /\ local.pages = {}
    THEN [local EXCEPT !.pc = "items", !.items = got,
                       !.exist = {KeyOf[it.res] : it \in got}]
    ELSE [local EXCEPT !.items = got]

ReadNamed(t) ==
    /\ task[t].pc = "names"
    /\ ExecutorFree
    /\ \E n \in task[t].names :
         task' = [task EXCEPT ![t] = Gathered([task[t] EXCEPT !.names = @ \ {n}],
                                              task[t].items \union Named(t, n))]
    /\ UNCHANGED <<cluster, rev, stream, volume, proc, ignore, maps, told, faults>>

ListPage(t) ==
    /\ task[t].pc = "page"
    /\ ExecutorFree
    /\ \E page \in SUBSET task[t].pages :
         /\ Cardinality(page) = PageSize \/ page = task[t].pages
         /\ Cardinality(page) <= PageSize
         /\ task' = [task EXCEPT ![t] = Gathered([task[t] EXCEPT !.pages = @ \ page],
                                                 task[t].items \union page)]
    /\ UNCHANGED <<cluster, rev, stream, volume, proc, ignore, maps, told, faults>>

(* The version is recorded before the object is worked on. *)
ListItem(t) ==
    /\ task[t].pc = "items"
    /\ \E it \in task[t].items :
         LET m == MapKey(it.res)
             rest == [task[t] EXCEPT !.items = @ \ {it}, !.via = "list"]
         IN  IF Ignoring /\ version[m] = it.rv
             THEN task' = [task EXCEPT ![t] = rest] /\ UNCHANGED maps
             ELSE /\ version' = IF Ignoring THEN [version EXCEPT ![m] = it.rv] ELSE version
                  /\ Store(t, rest, it, get_destination_folder(it.ann))
    /\ UNCHANGED <<cluster, rev, stream, volume, proc, ignore, told, faults>>

(* Mutants: the cleanup is not scoped to the namespace; there is none. *)
StaleUnscoped(t) == {object[m] : m \in {k \in MapKeys :
               /\ object[k] # None
               /\ k[1] = TaskKind[t]
               /\ k[2] \notin task[t].exist}}
StaleNothing(t) == {}

(* Stale cleanup, scoped to the task's kind and namespace. *)
Stale(t) == {object[m] : m \in {k \in MapKeys :
               /\ object[k] # None
               /\ k[1] = TaskKind[t]
               /\ TaskNs[t] \in {"ALL", NsOf[object[k].res]}
               /\ k[2] \notin task[t].exist}}

BeginStale(t) ==
    /\ task[t].pc = "items"
    /\ task[t].items = {}
    /\ task' = [task EXCEPT ![t].pc = "stale", ![t].via = "stale", ![t].stale = Stale(t),
                            ![t].exist = {}]
    /\ UNCHANGED <<cluster, rev, stream, volume, proc, ignore, maps, told, faults>>

RemoveStale(t) ==
    /\ task[t].pc = "stale"
    /\ \E c \in task[t].stale :
         Forget(t, [task[t] EXCEPT !.stale = @ \ {c}], c, NoPath)
    /\ UNCHANGED <<cluster, rev, stream, volume, proc, ignore, version, told, faults>>

EndList(t) ==
    /\ task[t].pc = "stale"
    /\ task[t].stale = {}
    /\ task' = [task EXCEPT ![t] = Notify(t, @)]
    /\ UNCHANGED <<cluster, rev, stream, volume, proc, ignore, maps, told, faults>>
-----------------------------------------------------------------------------
(***************************************************************************)
(* Hooks and failures                                                      *)
(***************************************************************************)
(* A script that exits non-zero is logged; only a failure to start it is an  *)
(* error.                                                                    *)
RunScript(t) ==
    /\ task[t].pc = "script"
    /\ ExecutorFree
    /\ told' = files
    /\ task' = [task EXCEPT ![t] = IF "request" \in HooksNow
                                   THEN [@ EXCEPT !.pc = "request"]
                                   ELSE Resting(t, @)]
    /\ UNCHANGED <<cluster, rev, stream, volume, proc, ignore, maps, faults>>

(* The outcome of the request is not looked at. *)
SendRequest(t) ==
    /\ task[t].pc = "request"
    /\ ExecutorFree
    /\ told' = files
    /\ task' = [task EXCEPT ![t] = Resting(t, @)]
    /\ UNCHANGED <<cluster, rev, stream, volume, proc, ignore, maps, faults>>

(* An error of the pass: main exits on one of the initial sync; a watcher    *)
(* dies of an API error 500 and otherwise throttles and starts over.         *)
Throw(t, pc) ==
    IF proc = "boot" THEN Exit("exit1")
    ELSE /\ task' = [task EXCEPT ![t] = [Fresh EXCEPT !.pc = pc]]
         /\ stream' = [stream EXCEPT ![t] = NoStream]
         /\ UNCHANGED <<cluster, rev, volume, proc, ignore, maps, told>>

ScriptFails(t) ==
    /\ task[t].pc = "script"
    /\ ExecutorFree
    /\ Spend("script")
    /\ Throw(t, "throttle")

(* A list page, a read, a connection attempt or an open stream fails. *)
ApiFails(t) ==
    /\ \/ task[t].pc \in {"names", "page", "watch"}
       \/ task[t].pc = "loop" /\ ~SleepMode(t)
    /\ ExecutorFree
    /\ Spend("api")
    /\ \E pc \in {"dead", "throttle"} : Throw(t, pc)

(* Mutant: a throttled watcher does not start over. *)
WakeSleeper(t) ==
    /\ task[t].pc = "sleep"
    /\ ExecutorFree
    /\ task' = [task EXCEPT ![t].pc = "loop"]
    /\ UNCHANGED <<cluster, rev, stream, volume, proc, ignore, maps, told, faults>>

(* The end of the throttle, or of SLEEP_TIME. *)
Wake(t) ==
    /\ task[t].pc \in {"sleep", "throttle"}
    /\ ExecutorFree
    /\ task' = [task EXCEPT ![t].pc = "loop"]
    /\ UNCHANGED <<cluster, rev, stream, volume, proc, ignore, maps, told, faults>>
-----------------------------------------------------------------------------
(***************************************************************************)
(* watch_resource_iterator                                                 *)
(***************************************************************************)
Connect(t) ==
    /\ task[t].pc = "loop"
    /\ ~SleepMode(t)
    /\ ExecutorFree
    /\ stream' = [stream EXCEPT ![t] = OpenStream(t)]
    /\ task' = [task EXCEPT ![t].pc = "watch"]
    /\ UNCHANGED <<cluster, rev, volume, proc, ignore, maps, told, faults>>

(* The version check of an event: what is skipped, what is recorded. *)
Skips(ev) == ignore /\ version[MapKey(ev.item.res)] = ev.item.rv /\ ~ev.gone

Recorded(ev) ==
    LET m == MapKey(ev.item.res)
    IN  IF ~ignore THEN version
        ELSE IF ~ev.gone THEN [version EXCEPT ![m] = ev.item.rv]
        ELSE IF version[m] = ev.item.rv THEN [version EXCEPT ![m] = None]
        ELSE version

HandleEvent(t) ==
    /\ task[t].pc = "watch"
    /\ ExecutorFree
    /\ \E d \in Delivery(t) :
         LET ev == d[1]
             local == [Fresh EXCEPT !.via = "event"]
             to == get_destination_folder(ev.item.ann)
         IN  /\ stream' = [stream EXCEPT ![t] = d[2]]
             /\ version' = Recorded(ev)
             /\ IF Skips(ev) THEN UNCHANGED <<task, object, dest, taken>>
                ELSE IF ev.gone THEN Forget(t, local, CachedItem(ev.item), to)
                ELSE Store(t, local, ev.item, to)
    /\ UNCHANGED <<cluster, rev, volume, proc, ignore, told, faults>>

(* The server closed the stream and everything in it was read. *)
StreamEnds(t) ==
    /\ task[t].pc = "watch"
    /\ ExecutorFree
    /\ ~stream[t].live
    /\ Drained(t)
    /\ task' = [task EXCEPT ![t].pc = "loop"]
    /\ UNCHANGED <<cluster, rev, stream, volume, proc, ignore, maps, told, faults>>
-----------------------------------------------------------------------------
(***************************************************************************)
(* main: spawning, monitoring, the end of the process, its restart         *)
(***************************************************************************)
(* METHOD=LIST returns after one pass, otherwise the watchers start. *)
EndBoot ==
    /\ proc = "boot"
    /\ \A t \in Tasks : task[t].pc = "ready"
    /\ IF Mode = "LIST" THEN Exit("exit0")
       ELSE /\ proc' = "run"
            /\ task' = [t \in Tasks |-> [Fresh EXCEPT !.pc = "loop"]]
            /\ UNCHANGED <<cluster, rev, stream, volume, ignore, maps, told>>
    /\ UNCHANGED faults

(* Mutant: main goes on while one watcher is left. *)
MonitorAll ==
    /\ proc = "run"
    /\ ExecutorFree
    /\ \A t \in Tasks : task[t].pc = "dead"
    /\ Exit("exit1")
    /\ UNCHANGED faults

(* The monitor loop finds a finished watcher and exits. *)
Monitor ==
    /\ proc = "run"
    /\ ExecutorFree
    /\ \E t \in Tasks : task[t].pc = "dead"
    /\ Exit("exit1")
    /\ UNCHANGED faults

(* SIGKILL, an OOM kill, or SIGTERM between two awaits. *)
Crash ==
    /\ proc \in {"boot", "run"}
    /\ Spend("crash")
    /\ Exit("killed")

(* The kubelet restarts the container on the same volume.  Each start asks   *)
(* the server's version anew: IGNORE_ALREADY_PROCESSED needs 1.19.           *)
Restart ==
    /\ proc \in {"exit0", "exit1", "killed"}
    /\ proc' = "boot"
    /\ ignore' \in IgnoreModes
    /\ UNCHANGED <<cluster, rev, stream, volume, task, maps, told, faults>>
-----------------------------------------------------------------------------
Init ==
    /\ ApiInit
    /\ files = [s \in Slots |-> None]
    /\ proc = "boot"
    /\ ignore \in IgnoreModes
    /\ task = [t \in Tasks |-> Fresh]
    /\ version = [m \in MapKeys |-> None]
    /\ object = [m \in MapKeys |-> None]
    /\ dest = [m \in MapKeys |-> None]
    /\ taken = [r \in Res |-> -1]
    /\ told = files
    /\ inherited = {}
    /\ faults = 0

(* What a task does when its calls succeed. *)
Step(t) ==
    /\ proc \in {"boot", "run"}
    /\ \/ BeginList(t) \/ ReadNamed(t) \/ ListPage(t) \/ ListItem(t)
       \/ BeginStale(t) \/ RemoveStale(t) \/ EndList(t)
       \/ UpdateFile(t) \/ FetchUrl(t) \/ UpdateFetched(t) \/ FinishItem(t)
       \/ RunScript(t) \/ SendRequest(t) \/ Wake(t)
       \/ Connect(t) \/ HandleEvent(t) \/ StreamEnds(t)

Fails(t) == ScriptFails(t) \/ ApiFails(t)

User == /\ \E r \in Res : Apply(r) \/ Delete(r)
        /\ UNCHANGED <<volume, proc, ignore, task, maps, told, faults>>

Close(t) == ServerClose(t) /\ UNCHANGED <<volume, proc, ignore, task, maps, told, faults>>

Next == \/ \E t \in Tasks : Step(t) \/ Fails(t) \/ Close(t)
        \/ User
        \/ EndBoot \/ Monitor \/ Crash \/ Restart

(* Fairness.  The runtime polls every woken task, calls answer and hooks     *)
(* return: a task that can step again and again does (strong, because others *)
(* hold the executor in between).  The server ends each watch; the monitor   *)
(* and the kubelet do their part.  Users and failures owe nothing.           *)
Fairness == /\ \A t \in Tasks : SF_vars(Step(t))
            /\ \A t \in Tasks : WF_vars(Close(t))
            /\ WF_vars(EndBoot)
            /\ SF_vars(Monitor)
            /\ WF_vars(Restart)

Spec == Init /\ [][Next]_vars
FairSpec == Spec /\ Fairness
=============================================================================

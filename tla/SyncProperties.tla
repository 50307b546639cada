--------------------------- MODULE SyncProperties ---------------------------
(***************************************************************************)
(* What the synchronisation promises.  The module adds no behaviour; each  *)
(* property says which part of src/src it is about.                        *)
(***************************************************************************)
EXTENDS Resources

(* The variables have their types. *)
TypeOK ==
    /\ cluster \in [Res -> Item \union {None}]
    /\ rev \in 0..MaxRev
    /\ stream \in [Tasks -> [live: BOOLEAN, backlog: SUBSET Item, queue: Seq(Event)]]
    /\ files \in [Slots -> Contents \union {None}]
    /\ proc \in {"boot", "run", "exit0", "exit1", "killed"}
    /\ ignore \in BOOLEAN
    /\ task \in [Tasks -> Task]
    /\ version \in [MapKeys -> 0..MaxRev \union {None}]
    /\ object \in [MapKeys -> Cached \union {None}]
    /\ dest \in [MapKeys -> Paths \union {None}]
    /\ taken \in [Res -> -1..MaxRev]
    /\ told \in [Slots -> Contents \union {None}]
    /\ inherited \in SUBSET Slots
    /\ faults \in 0..MaxFaults

(* Some task is between the map update for r and the last file of r. *)
InFlight(r) == \E t \in Tasks : \E op \in task[t].ops : op.res = r

(* The file of key k holds what the stored object r says. *)
Expected(k, v) == IF k \in UrlKeys THEN Body(v) ELSE v
Shown(r) == \A k \in Keys : cluster[r].data[k] # None =>
              files[Slot(get_destination_folder(cluster[r].ann), r, k)]
                = Expected(k, cluster[r].data[k].val)

Live(r) == cluster[r] # None /\ cluster[r].lab

(* A task that is reading its stream and has read all the server sent. *)
UpToDate(t) == task[t].pc = "watch" /\ stream[t].live /\ Drained(t)

Quiet == proc = "run" /\ \A t \in Tasks : task[t].pc = "sleep" \/ UpToDate(t)
-----------------------------------------------------------------------------
(* No task ever works on an object outside its own kind and namespace, be it  *)
(* listed, delivered, swept as stale, or the old owner of a map entry: the    *)
(* maps are shared, and only scoping keeps one task off another's files       *)
(* (resources.rs:512-526).                                                    *)
InScope == \A t \in Tasks :
    /\ \A it \in task[t].items : Serves(t, it.res)
    /\ \A c \in task[t].stale : Serves(t, c.res)
    /\ \A op \in task[t].ops : Serves(t, op.res)

(* unwrap_or_default never yields the empty folder: an object that is removed *)
(* has been stored, so its folder is known (resources.rs:281-286).            *)
FolderKnown == \A t \in Tasks : \A op \in task[t].ops : op.path # NoPath

(* The cache does not claim files that are not there: when nobody is working  *)
(* on an object, every key it is remembered with has a file in its folder, so *)
(* neither the leftover removal nor another object's removal hit a live file  *)
(* (process_resource, resources.rs:303-408).                                  *)
CacheOnDisk == \A m \in MapKeys : object[m] # None /\ ~InFlight(object[m].res) =>
    \A k \in Keys : object[m].sec[k] # None => files[Slot(dest[m], object[m].res, k)] # None

(* Every file on the volume is accounted for: it belongs to a remembered      *)
(* object, or an operation on it is still to be performed, or an earlier      *)
(* process left it.  Any other file would never be removed.                   *)
NoOrphans == \A s \in Slots : files[s] # None =>
    \/ \E m \in MapKeys : /\ object[m] # None
                          /\ \E k \in Keys : /\ object[m].sec[k] # None
                                             /\ Slot(dest[m], object[m].res, k) = s
    \/ \E t \in Tasks : \E op \in task[t].ops : Slot(op.path, op.res, op.key) = s
    \/ s \in inherited

(* A recorded version may be skipped later, so it must mean that the files    *)
(* are right: an object whose current version is recorded is on the volume,   *)
(* or being put there (resources.rs:479-499, 599-626).                        *)
UpToDateVersion(r) == cluster[r] # None /\ version[MapKey(r)] = cluster[r].rv
SkipIsSafe == \A r \in Res : UpToDateVersion(r) /\ ~InFlight(r) => Shown(r)

(* A watcher that has read everything its open stream delivered shows every   *)
(* live object of its scope with its current contents, whatever happened to   *)
(* the stream before (resources.rs:556-656).                                  *)
CaughtUp == \A t \in Tasks : UpToDate(t) =>
    \A r \in Res : Serves(t, r) /\ Live(r) => Shown(r)

(* When all tasks rest, the hooks have run after the last change of a file    *)
(* (files_changed, resources.rs:537-550, 640-653).                            *)
HooksSawLastChange == Quiet /\ Hooks # {} => told = files

(* With RESOURCE_NAME set, nothing but the objects it names is synced         *)
(* (resources.rs:433-457; NOTES.md:147-149).                                  *)
NamedOnly == ResourceNames # {} =>
    \A t \in Tasks : \A op \in task[t].ops : NameOf[op.res] \in ListedNames

(* A file changes only by the hand of a task that serves the object it is for. *)
OnlyOwnFiles ==
    [][\A s \in Slots : files'[s] # files[s] =>
         \E t \in Tasks : \E op \in task[t].ops :
            Serves(t, op.res) /\ Slot(op.path, op.res, op.key) = s]_vars

(* No older version of an object is stored after a newer one: not when a relist *)
(* follows a stream, a reconnect delivers the current state again, or a restart *)
(* lists everything anew (resources.rs:476-534, 590-637).                       *)
VersionsForward == [][\A r \in Res : taken'[r] >= taken[r]]_vars
-----------------------------------------------------------------------------
(* What a task is to sync: the objects RESOURCE_NAME selects, or the labelled. *)
NamedOnes == {r \in Res : \E t \in Tasks :
                Serves(t, r) /\ ByName(t) /\ NameOf[r] \in Chosen(t)}
IfLabelled == {r \in Res : \E t \in Tasks : Serves(t, r) /\ ~ByName(t)}
Wanted(r) == /\ cluster[r] # None
             /\ r \in NamedOnes \/ (r \in IfLabelled /\ cluster[r].lab)

(* Once users stop, the wanted objects get onto the volume and stay: after    *)
(* reconnects, failed calls, and the restart that follows an API error 500.   *)
AllShown == \A r \in Res : Wanted(r) => Shown(r)
EventuallyShown == <>[]AllShown

(* ... and the volume holds nothing else but what an earlier process left:    *)
(* with polling both, with watching the second fails (see the README).        *)
OnlyWantedFiles == \A s \in Slots \ inherited : files[s] # None =>
    \E r \in Res : /\ Wanted(r)
                   /\ \E k \in Keys : /\ cluster[r].data[k] # None
                                      /\ Slot(get_destination_folder(cluster[r].ann), r, k) = s
EventuallyClean == <>[]OnlyWantedFiles
EventuallyExact == <>[](AllShown /\ OnlyWantedFiles)

(* Reconnects and polls that deliver nothing new fire no hook: no webhook     *)
(* storm (NOTES.md:60-62).                                                    *)
NoHookRuns == \A t \in Tasks : task[t].pc \notin {"script", "request"}
HooksFallSilent == <>[]NoHookRuns

(* A dead watcher takes the process down (resources.rs:734, main.rs:331-345). *)
DeadWatcherExits == (\E t \in Tasks : task[t].pc = "dead") ~> proc # "run"
-----------------------------------------------------------------------------
(* The detailed specification implements the promise of Mirror: through lists, *)
(* streams, reconnects, sweeps, errors and restarts, the versions taken up     *)
(* never go back, no task spoils another object's files, and the files of an   *)
(* object whose current version was taken up stay right (resources.rs:267-410, *)
(* 476-534, 590-637).                                                          *)
M == INSTANCE Mirror WITH
       Obj <- Res,
       wanted <- [r \in Res |-> IF Wanted(r) THEN cluster[r].rv ELSE None],
       shown <- {r \in Res : Wanted(r) /\ Shown(r)}
ImplementsMirror == M!Spec
=============================================================================

--------------------------- MODULE SyncInvariants ---------------------------
(***************************************************************************)
(* The inductive invariants behind the safety properties, for a deployment *)
(* whose cluster and configuration are well formed.                        *)
(***************************************************************************)
EXTENDS SyncProperties

(* Item::key concatenates namespace and name without a separator: here no two *)
(* objects of a kind end up with the same key.  Paths are sequences of tokens, *)
(* and FOLDER is not the empty one.                                            *)
ASSUME WellFormedAssumption ==
    /\ \A r, q \in Res : MapKey(r) = MapKey(q) => r = q
    /\ TargetFolder \in Seq(STRING) \ {NoPath}
    /\ Anns \subseteq Seq(STRING)
    /\ None \notin Paths

(* Where the objects a task works on come from: the cluster, its stream, the   *)
(* pages it read, and the map entries of its own kind and namespace.           *)
ClusterNamed == \A r \in Res : cluster[r] # None => cluster[r].res = r
StreamInScope == \A t \in Tasks :
    /\ \A it \in stream[t].backlog : Serves(t, it.res)
    /\ \A i \in 1..Len(stream[t].queue) : Serves(t, stream[t].queue[i].item.res)
ObjectKeyed == \A m \in MapKeys : object[m] # None => MapKey(object[m].res) = m
PagesInScope == \A t \in Tasks : \A it \in task[t].pages : Serves(t, it.res)

(* InScope, made inductive: a task meets no object of another's scope, from    *)
(* the first page or event on to the last file operation.                      *)
ScopeInv == ClusterNamed /\ StreamInScope /\ ObjectKeyed /\ PagesInScope /\ InScope

(* A remembered object has a folder, and so has one that is about to be swept. *)
HomeKnown == \A m \in MapKeys : /\ dest[m] # NoPath
                                /\ object[m] # None => dest[m] # None
StaleKnown == \A t \in Tasks : \A c \in task[t].stale : dest[MapKey(c.res)] # None

(* FolderKnown, made inductive: the entry of dest outlives that of object, so  *)
(* unwrap_or_default finds it even if the object is gone when its turn comes   *)
(* (resources.rs:281-293, 515-534).                                            *)
FolderInv == HomeKnown /\ StaleKnown /\ FolderKnown
-----------------------------------------------------------------------------
(* What a task holds says where it is: objects and operations belong to a     *)
(* pass, files_changed is known until the hooks are due.                      *)
InPass(local, via) == local.pc \in {"file", "fetch"} /\ local.via = via
Settled(local) ==
    /\ local.pc = "stale" => local.via = "stale"
    /\ local.ops # {} => local.pc \in {"file", "fetch"}
    /\ local.changed => local.pc \in {"items", "stale", "file", "fetch"}
    /\ local.names # {} => local.pc = "names"
    /\ local.pages # {} => local.pc = "page"
    /\ local.items # {} => local.pc \in {"names", "page", "items"} \/ InPass(local, "list")
    /\ local.stale # {} => local.pc = "stale" \/ InPass(local, "stale")
    /\ local.exist # {} => local.pc = "items" \/ InPass(local, "list")
LocalInv == \A t \in Tasks : Settled(task[t])

(* A deployment in which no hook is lost: nothing fails but fetches, and       *)
(* REQ_SKIP_INIT does not take away the only hook there is (an API error, a    *)
(* crash or a script that cannot be started loses files_changed, a failed      *)
(* write may change a file without setting it).                                *)
HooksKept == /\ FaultKinds \subseteq {"fetch"}
             /\ SkipInit /\ Mode # "LIST" => Hooks # {"request"}

(* HooksSawLastChange, made inductive: a change no hook has seen is known to   *)
(* the task that made it, or its hook is due (resources.rs:537-550, 640-653).  *)
HookInv == HooksKept /\ Hooks # {} =>
    /\ \A t \in Tasks : task[t].pc # "dead"
    /\ told # files => \E t \in Tasks : task[t].changed \/ task[t].pc \in {"script", "request"}

(* A deployment in which RESOURCE_NAME has an entry for every watcher.         *)
AllNamed == \A t \in Tasks : ByName(t)

(* NamedOnly, made inductive: where every watcher reads by name, no object of  *)
(* another name gets into a listing, the maps or the sweep, and there is no    *)
(* stream it could come from (resources.rs:433-457, 702-707).                  *)
NamedInv == AllNamed =>
    /\ \A t \in Tasks :
         /\ task[t].pc \notin {"page", "watch"}
         /\ task[t].via # "event"
         /\ \A it \in task[t].items : NameOf[it.res] \in ListedNames
         /\ \A c \in task[t].stale : NameOf[c.res] \in ListedNames
         /\ \A op \in task[t].ops : NameOf[op.res] \in ListedNames
    /\ \A m \in MapKeys : object[m] # None => NameOf[object[m].res] \in ListedNames
=============================================================================

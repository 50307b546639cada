--------------------------- MODULE OrderInvariants --------------------------
(***************************************************************************)
(* The inductive invariants behind the order of versions and the account   *)
(* of every file, for a deployment in which no object belongs to two       *)
(* watchers.                                                               *)
(***************************************************************************)
EXTENDS SyncInvariants

(* The entries of NAMESPACE do not overlap: ALL stands alone, and no name is  *)
(* listed twice.                                                              *)
ASSUME OneWatcherAssumption ==
    \A t, u \in Tasks : \A r \in Res : Serves(t, r) /\ Serves(u, r) => t = u
-----------------------------------------------------------------------------
(* A task that lists has no stream, only a running process has one, and a     *)
(* process that ended has nothing.                                            *)
Lists(local) == local.pc \in {"names", "page", "items", "stale"}
                \/ InPass(local, "list") \/ InPass(local, "stale")
PhaseInv == \A t \in Tasks :
    /\ proc \notin {"boot", "run"} => task[t] = Fresh
    /\ task[t].pc \in {"loop", "watch", "sleep", "throttle", "dead"} => proc = "run"
    /\ task[t].via = "event" => proc = "run"
    /\ Lists(task[t]) => proc = "boot" \/ SleepMode(t)
    /\ proc # "run" \/ SleepMode(t) => stream[t] = NoStream
-----------------------------------------------------------------------------
(* What a task has listed, what its stream has in store, and both together.   *)
Listed(t) == task[t].pages \union task[t].items
Queued(t) == {stream[t].queue[i].item : i \in DOMAIN stream[t].queue}
Sources(t) == Listed(t) \union stream[t].backlog \union Queued(t)

(* The versions grow: from what was taken up to what is listed or queued, from *)
(* there to the cluster.                                                       *)
TakenInv == \A r \in Res :
    /\ taken[r] <= rev
    /\ cluster[r] # None => taken[r] <= cluster[r].rv /\ cluster[r].rv <= rev
SourceInv == \A t \in Tasks : \A it \in Sources(t) :
    /\ taken[it.res] <= it.rv /\ it.rv <= rev
    /\ cluster[it.res] # None => it.rv <= cluster[it.res].rv

(* A listing and a backlog have one version of an object. *)
ListedOnce == \A t \in Tasks :
    /\ \A a, b \in Listed(t) : a.res = b.res => a = b
    /\ task[t].pc = "names" => \A it \in task[t].items : NameOf[it.res] \notin task[t].names
    /\ \A a, b \in stream[t].backlog : a.res = b.res => a = b

(* The events of an object are newer from one to the next. *)
QueueInv == \A t \in Tasks : \A i \in DOMAIN stream[t].queue :
    LET it == stream[t].queue[i].item
    IN  /\ taken[it.res] < it.rv
        /\ \A a \in stream[t].backlog : a.res = it.res => a.rv < it.rv
        /\ \A j \in 1..(i - 1) :
              stream[t].queue[j].item.res = it.res => stream[t].queue[j].item.rv < it.rv

OrderInv == TakenInv /\ SourceInv /\ ListedOnce /\ QueueInv
=============================================================================

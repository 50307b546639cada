------------------------------ MODULE KubeApi ------------------------------
(***************************************************************************)
(* The Kubernetes API as src/src/kubeapi.rs uses it: the ConfigMaps and    *)
(* Secrets that exist, what a list page or a read by name returns, and     *)
(* what one watch connection delivers.  The apiserver itself is external;  *)
(* how it is asked (scope, selector, resourceVersion "") is the code's.    *)
(***************************************************************************)
EXTENDS Integers, Sequences, FiniteSets

CONSTANTS
    None,         \* the absent value (Option::None, no file, no map entry)
    Res,          \* the resources (objects) that may exist
    KindOf,       \* their kind, "configmap" or "secret"
    NsOf,         \* their namespace
    NameOf,       \* their name, a sequence of dot-separated labels
    Keys,         \* data keys
    Vals,         \* values of data keys; for a ".url" key, a URL
    Anns,         \* values of the folder annotation, sequences of path tokens
    Shapes,       \* Shapes[r]: the contents a user may give to resource r
    MaxRev,       \* bound on the number of changes users make
    Tasks,        \* one watcher per (kind, namespace entry)
    TaskKind,     \* the kind the task serves
    TaskNs        \* its namespace entry, possibly "ALL"

VARIABLES
    cluster,      \* the stored objects
    rev,          \* the last resourceVersion given out
    stream        \* the watch connection of each task, as the server sees it

apiVars == <<cluster, rev, stream>>

Kinds == {"configmap", "secret"}
Sections == {"text", "bin"}
Entry == [sec: Sections, val: Vals]

(* What an object holds.  A key is in data ("text") or in binaryData ("bin"),  *)
(* never in both: the apiserver rejects the overlap.  A Secret's data is "bin". *)
Shape == [lab: BOOLEAN, ann: Anns \union {None}, data: [Keys -> Entry \union {None}]]

(* kubeapi::Item: an object reduced to what the sync logic needs. *)
Item == [res: Res, rv: 0..MaxRev, lab: BOOLEAN, ann: Anns \union {None},
         data: [Keys -> Entry \union {None}]]

Event == [gone: BOOLEAN, item: Item]

ASSUME ApiAssumption ==
    /\ MaxRev \in Nat
    /\ KindOf \in [Res -> Kinds]
    /\ TaskKind \in [Tasks -> Kinds]
    /\ None \notin Entry
    /\ None \notin Item
    /\ \A r \in Res : Shapes[r] \subseteq Shape

(* Api::all or Api::namespaced: the objects a task's requests range over. *)
Serves(t, r) == KindOf[r] = TaskKind[t] /\ TaskNs[t] \in {"ALL", NsOf[r]}

MakeItem(r, v, s) == [res |-> r, rv |-> v, lab |-> s.lab, ann |-> s.ann, data |-> s.data]

(* The objects a list or a fresh watch with the label selector returns. *)
Selected(t) == {cluster[r] : r \in {q \in Res : /\ Serves(t, q)
                                                /\ cluster[q] # None
                                                /\ cluster[q].lab}}

(* Mutant: the label selector also filters reads by name. *)
NamedAndLabelled(t, name) == {cluster[r] : r \in {q \in Res : /\ Serves(t, q)
                                                   /\ cluster[q] # None
                                                   /\ cluster[q].lab
                                                   /\ NameOf[q] = name}}

(* Mutant: the name asked for is ignored. *)
NamedAny(t, name) == {cluster[r] : r \in {q \in Res : Serves(t, q) /\ cluster[q] # None}}

(* read_named: the object of that name, whatever its labels; none on a 404. *)
Named(t, name) == {cluster[r] : r \in {q \in Res : /\ Serves(t, q)
                                                   /\ cluster[q] # None
                                                   /\ NameOf[q] = name}}

NoStream == [live |-> FALSE, backlog |-> {}, queue |-> <<>>]

(* Mutants: the watch starts at "now", without the current state; the watch *)
(* is opened on all namespaces.                                             *)
OpenStreamEverywhere(t) ==
    [live |-> TRUE, queue |-> <<>>,
     backlog |-> {it \in {cluster[r] : r \in Res} : it # None /\ it.lab}]
OpenStreamAtNow(t) == [live |-> TRUE, backlog |-> {}, queue |-> <<>>]

(* Mutant: resourceVersion "0", a watch cache that lags one change behind. *)
OpenStreamFromCache(t) ==
    [live |-> TRUE, queue |-> <<>>,
     backlog |-> {IF it.rv = 0 THEN it
                  ELSE MakeItem(it.res, it.rv - 1, CHOOSE s \in Shapes[it.res] : s.lab) :
                    it \in Selected(t)}]

(* watch_items with resourceVersion "": the current state as synthetic ADDED  *)
(* events, in no particular order, then every later change in order.          *)
OpenStream(t) == [live |-> TRUE, backlog |-> Selected(t), queue |-> <<>>]

Drained(t) == stream[t].backlog = {} /\ stream[t].queue = <<>>

(* The next event of a connection: the backlog first, then the queue. *)
Delivery(t) ==
    {<<[gone |-> FALSE, item |-> it], [stream[t] EXCEPT !.backlog = @ \ {it}]>> :
         it \in stream[t].backlog}
    \union IF stream[t].backlog = {} /\ stream[t].queue # <<>>
           THEN {<<Head(stream[t].queue), [stream[t] EXCEPT !.queue = Tail(@)]>>}
           ELSE {}

Broadcast(r, ev) ==
    stream' = [t \in Tasks |-> IF stream[t].live /\ Serves(t, r)
                               THEN [stream[t] EXCEPT !.queue = Append(@, ev)]
                               ELSE stream[t]]

(* A user creates or changes object r.  A watcher with the selector sees the   *)
(* new object, or, when it loses the label, a DELETED event with the old one. *)
Apply(r) ==
    /\ rev < MaxRev
    /\ \E s \in Shapes[r] :
         LET old == cluster[r]
             new == MakeItem(r, rev + 1, s)
             was == old # None /\ old.lab
         IN  /\ old # None => MakeItem(r, old.rv, s) # old
             /\ cluster' = [cluster EXCEPT ![r] = new]
             /\ rev' = rev + 1
             /\ IF s.lab THEN Broadcast(r, [gone |-> FALSE, item |-> new])
                ELSE IF was
                THEN Broadcast(r, [gone |-> TRUE, item |-> [old EXCEPT !.rv = rev + 1]])
                ELSE UNCHANGED stream

(* A user deletes object r: its last contents come with the DELETED event. *)
Delete(r) ==
    /\ rev < MaxRev
    /\ cluster[r] # None
    /\ cluster' = [cluster EXCEPT ![r] = None]
    /\ rev' = rev + 1
    /\ IF cluster[r].lab
       THEN Broadcast(r, [gone |-> TRUE, item |-> [cluster[r] EXCEPT !.rv = rev + 1]])
       ELSE UNCHANGED stream

(* The server ends a watch after timeoutSeconds (WATCH_SERVER_TIMEOUT). *)
ServerClose(t) ==
    /\ stream[t].live
    /\ stream' = [stream EXCEPT ![t].live = FALSE]
    /\ UNCHANGED <<cluster, rev>>

(* What exists before the first change: nothing, or an object of any shape. *)
Initial(r) == {None} \union {MakeItem(r, 0, s) : s \in Shapes[r]}

ApiInit ==
    /\ cluster \in {c \in [Res -> UNION {Initial(r) : r \in Res}] :
                      \A r \in Res : c[r] \in Initial(r)}
    /\ rev = 0
    /\ stream = [t \in Tasks |-> NoStream]
=============================================================================

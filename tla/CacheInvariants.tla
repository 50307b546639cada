--------------------------- MODULE CacheInvariants --------------------------
(***************************************************************************)
(* The inductive invariants behind the promises about the files: what the  *)
(* maps say of an object is what was stored of it, what a stream still     *)
(* tells continues from there, and what is to be done to the files is what *)
(* brings them in line with the maps.                                      *)
(***************************************************************************)
EXTENDS OrderInvariants

(* None is no version, no section, no cache entry and no file. *)
ASSUME NoneAssumption ==
    /\ None \notin 0..MaxRev
    /\ None \notin Sections
    /\ None \notin Cached
    /\ None \notin Contents

(* What a task is told of objects that exist. *)
Announced(t) == Listed(t) \union stream[t].backlog
                \union {stream[t].queue[i].item :
                          i \in {j \in DOMAIN stream[t].queue : ~stream[t].queue[j].gone}}

(* What a task is to sync, of what it is told. *)
WantedBy(t, item) == IF ByName(t) THEN NameOf[item.res] \in Chosen(t) ELSE item.lab

(* A version of an object has one content, and only wanted ones are announced. *)
ContentInv == \A t \in Tasks : \A it \in Announced(t) :
    /\ WantedBy(t, it)
    /\ cluster[it.res] # None /\ it.rv = cluster[it.res].rv => it = cluster[it.res]

(* A recorded version was stored, and the entry of the object is that of the   *)
(* version: what may be skipped is remembered.                                 *)
VersionInv ==
    /\ \A r \in Res : version[MapKey(r)] # None => version[MapKey(r)] <= taken[r]
    /\ \A t \in Tasks : \A it \in Announced(t) :
          version[MapKey(it.res)] = it.rv => object[MapKey(it.res)] = CachedItem(it)
    /\ \A r \in Res : UpToDateVersion(r) => object[MapKey(r)] = CachedItem(cluster[r])
    /\ \A t \in Tasks : \A r \in Res :
          Serves(t, r) /\ UpToDateVersion(r) => WantedBy(t, cluster[r])

(* What a listing left out: not read, not on the pages, not in it, to be swept. *)
Unlisted(local, r) ==
    \/ local.pc = "names" /\ NameOf[r] \notin local.names /\ \A it \in local.items : it.res # r
    \/ local.pc = "page" /\ \A it \in local.pages \union local.items : it.res # r
    \/ (local.pc = "items" \/ InPass(local, "list")) /\ KeyOf[r] \notin local.exist
    \/ \E c \in local.stale : c.res = r

(* What a listing left out was not there, or is there again in a later version *)
(* than any that was stored; what is swept is what is remembered.              *)
SweepInv == \A t \in Tasks :
    /\ task[t].pc = "names" => ByName(t) /\ task[t].names \subseteq Chosen(t)
    /\ task[t].pc = "page" => ~ByName(t)
    /\ task[t].pc = "items" \/ InPass(task[t], "list") =>
         \A it \in task[t].items : KeyOf[it.res] \in task[t].exist
    /\ \A r \in Res : Serves(t, r) /\ Unlisted(task[t], r) /\ cluster[r] # None
                       /\ WantedBy(t, cluster[r]) => taken[r] < cluster[r].rv
    /\ \A c \in task[t].stale : object[MapKey(c.res)] = c

(* After the backlog and the first n events of a stream, the cache has it.     *)
Known(s, ob, tk, n, it) ==
    \/ \E j \in 1..n : /\ s.queue[j] = [gone |-> FALSE, item |-> it]
                       /\ \A i \in (j + 1)..n : s.queue[i].item.res # it.res
    \/ /\ \A i \in 1..n : s.queue[i].item.res # it.res
       /\ \/ it \in s.backlog
          \/ /\ \A a \in s.backlog : a.res # it.res
             /\ ob[MapKey(it.res)] = CachedItem(it)
             /\ tk[it.res] = it.rv

(* A DELETED event tells the contents the cache has when its turn comes, and a *)
(* stream that is open ends in the current version of every live object.       *)
ChainInv == \A t \in Tasks :
    /\ \A i \in DOMAIN stream[t].queue : stream[t].queue[i].gone =>
         \E v \in 0..MaxRev : Known(stream[t], object, taken, i - 1,
                                    [stream[t].queue[i].item EXCEPT !.rv = v])
    /\ stream[t].live => \A r \in Res : Serves(t, r) /\ Live(r) =>
         Known(stream[t], object, taken, Len(stream[t].queue), cluster[r])

(* What is about to be written is remembered, with its folder. *)
PendingInv == \A t \in Tasks : \A op \in task[t].ops : op.put # None =>
    LET m == MapKey(op.res)
    IN  object[m] # None /\ object[m].sec[op.key] # None /\ dest[m] = op.path

CacheInv == ContentInv /\ VersionInv /\ SweepInv /\ ChainInv /\ PendingInv
-----------------------------------------------------------------------------
(* The keys an object may have.                                                *)
Has(r, k) == \E s \in Shapes[r] : s.data[k] # None

(* A deployment in which no two keys, objects or folders share a file, and no  *)
(* key of an object moves from data to binaryData or back.                     *)
SlotsApart == \A p, q \in Paths \ {NoPath} : \A r, x \in Res : \A k, j \in Keys :
    Has(r, k) /\ Has(x, j) /\ Slot(p, r, k) = Slot(q, x, j) => p = q /\ r = x /\ k = j
SectionsKept == \A r \in Res : \A a, b \in Shapes[r] : \A k \in Keys :
    a.data[k] # None /\ b.data[k] # None => a.data[k].sec = b.data[k].sec
Tame == SlotsApart /\ SectionsKept

(* The sections of an object are those of one of its shapes, and only files of *)
(* its keys are written or removed.                                            *)
Shaped(r, sec) == \E s \in Shapes[r] :
    sec = [k \in Keys |-> IF s.data[k] = None THEN None ELSE s.data[k].sec]
ShapeInv ==
    /\ \A r \in Res : cluster[r] # None => Shaped(r, SectionsOf(cluster[r]))
    /\ \A t \in Tasks : \A it \in Announced(t) : Shaped(it.res, SectionsOf(it))
    /\ \A m \in MapKeys : object[m] # None => Shaped(object[m].res, object[m].sec)
    /\ \A t \in Tasks : \A op \in task[t].ops : Has(op.res, op.key)

(* A remembered key has its file, or is about to be written, and nobody is     *)
(* about to remove it.                                                         *)
PendingWrite(r, k) == \E t \in Tasks : \E op \in task[t].ops :
    op.put # None /\ op.res = r /\ op.key = k
DiskInv ==
    /\ \A m \in MapKeys : object[m] # None => \A k \in Keys : object[m].sec[k] # None =>
          files[Slot(dest[m], object[m].res, k)] # None \/ PendingWrite(object[m].res, k)
    /\ \A t \in Tasks : \A op \in task[t].ops : op.put = None =>
          LET m == MapKey(op.res)
          IN  object[m] # None /\ object[m].sec[op.key] # None => dest[m] # op.path

(* The current version of an object is stored and remembered.                  *)
Stored(r) == /\ object[MapKey(r)] # None
             /\ cluster[r] # None /\ taken[r] = cluster[r].rv

(* The files of a stored version are right, or about to be.                    *)
ShownInv ==
    /\ \A r \in Res : Stored(r) =>
         /\ object[MapKey(r)] = CachedItem(cluster[r])
         /\ dest[MapKey(r)] = get_destination_folder(cluster[r].ann)
         /\ \A k \in Keys : cluster[r].data[k] # None =>
              \/ files[Slot(dest[MapKey(r)], r, k)] = Expected(k, cluster[r].data[k].val)
              \/ PendingWrite(r, k)
    /\ \A t \in Tasks : \A op \in task[t].ops : Stored(op.res) /\ op.put # None =>
         cluster[op.res].data[op.key] # None /\ op.put = cluster[op.res].data[op.key].val
    /\ \A t \in Tasks : \A op \in task[t].ops :
         /\ cluster[op.res] # None /\ taken[op.res] = cluster[op.res].rv
         /\ WantedBy(t, cluster[op.res])
         => object[MapKey(op.res)] # None

(* What the promises about the files rest on, as one run checks it: what is    *)
(* known of an object, what is on the volume, and what is to be done bring     *)
(* the files in line with the last stored version (resources.rs:267-410).      *)
FilesInv == CacheInv /\ ShapeInv /\ DiskInv /\ ShownInv
=============================================================================

---------------------------- MODULE CacheProofs -----------------------------
(***************************************************************************)
(* What the maps say of an object is what was stored of it: CacheInv is    *)
(* inductive.  With it, no file is ever lost track of, as long as the file *)
(* operations themselves do not fail.                                      *)
(***************************************************************************)
EXTENDS CacheInvariants, OrderProofs

(* One announced object: it is wanted, and its version has one content.        *)
Sound(t, it, cl) ==
    /\ WantedBy(t, it)
    /\ cl[it.res] # None /\ it.rv = cl[it.res].rv => it = cl[it.res]

(* If its version is recorded, it is remembered. *)
Skippable(it, vs, ob) ==
    vs[MapKey(it.res)] = it.rv => ob[MapKey(it.res)] = CachedItem(it)

(* A version a listing left out is a later one than what was stored. *)
LeftOut(t, local, tk, cl) == \A r \in Res :
    Serves(t, r) /\ Unlisted(local, r) /\ cl[r] # None /\ WantedBy(t, cl[r]) => tk[r] < cl[r].rv

ListSweep(t, local, tk, cl, ob) ==
    /\ local.pc = "names" => ByName(t) /\ local.names \subseteq Chosen(t)
    /\ local.pc = "page" => ~ByName(t)
    /\ local.pc = "items" \/ InPass(local, "list") =>
         \A it \in local.items : KeyOf[it.res] \in local.exist
    /\ LeftOut(t, local, tk, cl)
    /\ \A c \in local.stale : ob[MapKey(c.res)] = c

(* CacheInv of what a task has at hand (tk: taken, cl: cluster, vs: version,   *)
(* ob: object, de: dest).                                                      *)
ListCache(t, local, tk, cl, vs, ob, de) ==
    /\ \A it \in local.pages \union local.items : Sound(t, it, cl) /\ Skippable(it, vs, ob)
    /\ ListSweep(t, local, tk, cl, ob)
    /\ \A op \in local.ops : op.put # None =>
         /\ ob[MapKey(op.res)] # None
         /\ ob[MapKey(op.res)].sec[op.key] # None
         /\ de[MapKey(op.res)] = op.path

(* The same of its stream. *)
Chained(t, s, tk, cl, ob) ==
    /\ \A i \in DOMAIN s.queue : s.queue[i].gone =>
         \E v \in 0..MaxRev : Known(s, ob, tk, i - 1, [s.queue[i].item EXCEPT !.rv = v])
    /\ s.live => \A r \in Res : Serves(t, r) /\ cl[r] # None /\ cl[r].lab =>
         Known(s, ob, tk, Len(s.queue), cl[r])
StreamCache(t, s, tk, cl, vs, ob) ==
    /\ \A it \in s.backlog : Sound(t, it, cl) /\ Skippable(it, vs, ob)
    /\ \A i \in DOMAIN s.queue : ~s.queue[i].gone =>
         Sound(t, s.queue[i].item, cl) /\ Skippable(s.queue[i].item, vs, ob)
    /\ Chained(t, s, tk, cl, ob)

(* The same of one entry of the maps. *)
EntryCache(r, tk, cl, vs, ob) ==
    /\ vs[MapKey(r)] # None => vs[MapKey(r)] <= tk[r]
    /\ cl[r] # None /\ vs[MapKey(r)] = cl[r].rv =>
         /\ ob[MapKey(r)] = CachedItem(cl[r])
         /\ \A t \in Tasks : Serves(t, r) => WantedBy(t, cl[r])

(* CacheInv, task by task and entry by entry. *)
LEMMA CacheParts ==
    CacheInv <=>
      /\ \A r \in Res : EntryCache(r, taken, cluster, version, object)
      /\ \A t \in Tasks : /\ ListCache(t, task[t], taken, cluster, version, object, dest)
                          /\ StreamCache(t, stream[t], taken, cluster, version, object)
<1>1. \A t \in Tasks : \A it : it \in Announced(t) <=>
         \/ it \in task[t].pages \union task[t].items
         \/ it \in stream[t].backlog
         \/ \E i \in DOMAIN stream[t].queue : ~stream[t].queue[i].gone /\ it = stream[t].queue[i].item
  BY DEF Announced, Listed
<1>2. ContentInv <=> \A t \in Tasks : \A it \in Announced(t) : Sound(t, it, cluster)
  BY DEF ContentInv, Sound
<1>3. VersionInv <=> /\ \A t \in Tasks : \A it \in Announced(t) : Skippable(it, version, object)
                     /\ \A r \in Res : EntryCache(r, taken, cluster, version, object)
  BY DEF VersionInv, Skippable, EntryCache, UpToDateVersion
<1>4. SweepInv <=> \A t \in Tasks : ListSweep(t, task[t], taken, cluster, object)
  BY DEF SweepInv, ListSweep, LeftOut
<1>5. ChainInv <=> \A t \in Tasks : Chained(t, stream[t], taken, cluster, object)
  BY DEF ChainInv, Chained, Live
<1>6. PendingInv <=> \A t \in Tasks : \A op \in task[t].ops : op.put # None =>
         /\ object[MapKey(op.res)] # None
         /\ object[MapKey(op.res)].sec[op.key] # None
         /\ dest[MapKey(op.res)] = op.path
  BY DEF PendingInv
<1>7. (\A t \in Tasks : \A it \in Announced(t) : Sound(t, it, cluster)
                                                 /\ Skippable(it, version, object)) <=>
      (\A t \in Tasks :
         /\ \A it \in task[t].pages \union task[t].items :
               Sound(t, it, cluster) /\ Skippable(it, version, object)
         /\ \A it \in stream[t].backlog : Sound(t, it, cluster) /\ Skippable(it, version, object)
         /\ \A i \in DOMAIN stream[t].queue : ~stream[t].queue[i].gone =>
               /\ Sound(t, stream[t].queue[i].item, cluster)
               /\ Skippable(stream[t].queue[i].item, version, object))
  BY <1>1
<1>8. CacheInv <=>
      /\ \A t \in Tasks : \A it \in Announced(t) : Sound(t, it, cluster)
                                                   /\ Skippable(it, version, object)
      /\ \A r \in Res : EntryCache(r, taken, cluster, version, object)
      /\ \A t \in Tasks : ListSweep(t, task[t], taken, cluster, object)
      /\ \A t \in Tasks : Chained(t, stream[t], taken, cluster, object)
      /\ PendingInv
  BY <1>2, <1>3, <1>4, <1>5 DEF CacheInv
<1> QED
  BY <1>6, <1>7, <1>8 DEF ListCache, StreamCache

(* CacheInv of the next state. *)
LEMMA CacheNextParts ==
    ASSUME \A r \in Res : EntryCache(r, taken', cluster', version', object'),
           \A t \in Tasks : /\ ListCache(t, task'[t], taken', cluster', version', object', dest')
                            /\ StreamCache(t, stream'[t], taken', cluster', version', object')
    PROVE  CacheInv'
<1>1. \A t \in Tasks : \A it : it \in Announced(t)' <=>
         \/ it \in task'[t].pages \union task'[t].items
         \/ it \in stream'[t].backlog
         \/ \E i \in DOMAIN stream'[t].queue :
               ~stream'[t].queue[i].gone /\ it = stream'[t].queue[i].item
  BY DEF Announced, Listed
<1>2. \A t \in Tasks : \A it \in Announced(t)' :
         Sound(t, it, cluster') /\ Skippable(it, version', object')
  BY <1>1 DEF ListCache, StreamCache
<1>3. ContentInv'
  BY <1>2 DEF ContentInv, Sound, WantedBy, ByName, Chosen
<1>4. VersionInv'
  <2>1. \A r \in Res : version'[MapKey(r)] # None => version'[MapKey(r)] <= taken'[r]
    BY DEF EntryCache
  <2>2. \A t \in Tasks : \A it \in Announced(t)' :
          version'[MapKey(it.res)] = it.rv => object'[MapKey(it.res)] = CachedItem(it)
    BY <1>2 DEF Skippable
  <2>3. \A r \in Res : UpToDateVersion(r)' =>
          /\ object'[MapKey(r)] = CachedItem(cluster'[r])
          /\ \A t \in Tasks : Serves(t, r) => WantedBy(t, cluster'[r])
    BY DEF EntryCache, UpToDateVersion, MapKey
  <2> QED
    BY <2>1, <2>2, <2>3 DEF VersionInv, MapKey, CachedItem, SectionsOf, Serves, WantedBy
<1>5. SweepInv'
  <2>1. \A t \in Tasks : ListSweep(t, task'[t], taken', cluster', object')
    BY DEF ListCache
  <2> QED
    BY <2>1 DEF SweepInv, ListSweep, LeftOut, Unlisted, Serves, WantedBy, MapKey, ByName,
                Chosen, InPass
<1>6. ChainInv'
  <2>1. \A t \in Tasks : Chained(t, stream'[t], taken', cluster', object')
    BY DEF StreamCache
  <2> QED
    BY <2>1 DEF ChainInv, Chained, Known, Live, Serves, MapKey, CachedItem, SectionsOf
<1>7. PendingInv'
  BY DEF PendingInv, ListCache, MapKey
<1> QED
  BY <1>3, <1>4, <1>5, <1>6, <1>7 DEF CacheInv

(* The entries of two sets of maps agree on an object. *)
Agree(r, tk, vs, ob, de, tk2, vs2, ob2, de2) ==
    /\ tk2[r] = tk[r] /\ vs2[MapKey(r)] = vs[MapKey(r)]
    /\ ob2[MapKey(r)] = ob[MapKey(r)] /\ de2[MapKey(r)] = de[MapKey(r)]

(* What a task has at hand concerns no entry but those of its own objects. *)
LEMMA FrameList ==
    ASSUME NEW t \in Tasks, NEW local \in Task, HoldsOwn(t, local),
           NEW tk, NEW cl, NEW vs, NEW ob, NEW de, NEW tk2, NEW vs2, NEW ob2, NEW de2,
           ListCache(t, local, tk, cl, vs, ob, de),
           \A r \in Res : Serves(t, r) => Agree(r, tk, vs, ob, de, tk2, vs2, ob2, de2)
    PROVE  ListCache(t, local, tk2, cl, vs2, ob2, de2)
<1>1. /\ \A it \in local.pages \union local.items : it.res \in Res /\ Serves(t, it.res)
      /\ \A c \in local.stale : c.res \in Res /\ Serves(t, c.res)
      /\ \A op \in local.ops : op.res \in Res /\ Serves(t, op.res)
  BY DEF HoldsOwn, Task, Item, Cached, Op
<1>2. \A it \in local.pages \union local.items : Sound(t, it, cl) /\ Skippable(it, vs2, ob2)
  BY <1>1 DEF ListCache, Skippable, Agree
<1>3. ListSweep(t, local, tk2, cl, ob2)
  <2>1. LeftOut(t, local, tk2, cl)
    BY DEF ListCache, ListSweep, LeftOut, Agree
  <2>2. \A c \in local.stale : ob2[MapKey(c.res)] = c
    BY <1>1 DEF ListCache, ListSweep, Agree
  <2> QED
    BY <2>1, <2>2 DEF ListCache, ListSweep
<1>4. \A op \in local.ops : op.put # None =>
         /\ ob2[MapKey(op.res)] # None
         /\ ob2[MapKey(op.res)].sec[op.key] # None
         /\ de2[MapKey(op.res)] = op.path
  BY <1>1 DEF ListCache, Agree
<1> QED
  BY <1>2, <1>3, <1>4 DEF ListCache

(* The same of what a stream makes known. *)
LEMMA FrameKnown ==
    ASSUME NEW t \in Tasks, NEW s, NEW tk, NEW ob, NEW tk2, NEW ob2, NEW n,
           NEW it, it.res \in Res,
           tk2[it.res] = tk[it.res], ob2[MapKey(it.res)] = ob[MapKey(it.res)],
           Known(s, ob, tk, n, it)
    PROVE  Known(s, ob2, tk2, n, it)
BY DEF Known

(* An event with another version. *)
LEMMA ItemVersion ==
    ASSUME NEW item \in Item, NEW v \in 0..MaxRev
    PROVE  LET it == [item EXCEPT !.rv = v]
           IN  /\ it \in Item /\ it.res = item.res /\ it.rv = v
               /\ CachedItem(it) = CachedItem(item)
BY DEF Item, CachedItem, SectionsOf

(* The same of a stream. *)
LEMMA FrameStream ==
    ASSUME NEW t \in Tasks, NEW s \in Stream, OwnStream(t, s),
           NEW tk, NEW cl \in [Res -> Item \union {None}], NEW vs, NEW ob, NEW de,
           NEW tk2, NEW vs2, NEW ob2, NEW de2,
           \A r \in Res : cl[r] # None => cl[r].res = r,
           StreamCache(t, s, tk, cl, vs, ob),
           \A r \in Res : Serves(t, r) => Agree(r, tk, vs, ob, de, tk2, vs2, ob2, de2)
    PROVE  StreamCache(t, s, tk2, cl, vs2, ob2)
<1>1. \A it \in s.backlog : it.res \in Res /\ Serves(t, it.res)
  BY StreamItems DEF OwnStream
<1>2. \A i \in DOMAIN s.queue : /\ s.queue[i].item \in Item /\ s.queue[i].item.res \in Res
                                /\ Serves(t, s.queue[i].item.res)
  BY StreamItems DEF OwnStream
<1>3. \A it \in s.backlog : Sound(t, it, cl) /\ Skippable(it, vs2, ob2)
  BY <1>1 DEF StreamCache, Skippable, Agree
<1>4. \A i \in DOMAIN s.queue : ~s.queue[i].gone =>
         Sound(t, s.queue[i].item, cl) /\ Skippable(s.queue[i].item, vs2, ob2)
  BY <1>2 DEF StreamCache, Skippable, Agree
<1>5. ASSUME NEW i \in DOMAIN s.queue, s.queue[i].gone
      PROVE  \E v \in 0..MaxRev : Known(s, ob2, tk2, i - 1, [s.queue[i].item EXCEPT !.rv = v])
  <2>1. PICK v \in 0..MaxRev : Known(s, ob, tk, i - 1, [s.queue[i].item EXCEPT !.rv = v])
    BY <1>5 DEF StreamCache, Chained
  <2> DEFINE it == [s.queue[i].item EXCEPT !.rv = v]
  <2>2. it.res = s.queue[i].item.res
    BY <1>2, ItemVersion
  <2> HIDE DEF it
  <2>3. /\ it.res \in Res /\ tk2[it.res] = tk[it.res]
        /\ ob2[MapKey(it.res)] = ob[MapKey(it.res)]
    BY <1>2, <2>2 DEF Agree
  <2>4. Known(s, ob, tk, i - 1, it)
    BY <2>1 DEF it
  <2>5. Known(s, ob2, tk2, i - 1, it)
    BY <2>3, <2>4, FrameKnown
  <2> QED
    BY <2>5 DEF it
<1>6. ASSUME s.live, NEW r \in Res, Serves(t, r), cl[r] # None, cl[r].lab
      PROVE  Known(s, ob2, tk2, Len(s.queue), cl[r])
  <2>1. Known(s, ob, tk, Len(s.queue), cl[r])
    BY <1>6 DEF StreamCache, Chained
  <2>2. cl[r].res = r /\ tk2[r] = tk[r] /\ ob2[MapKey(r)] = ob[MapKey(r)]
    BY <1>6 DEF Agree
  <2> QED
    BY <2>1, <2>2, FrameKnown
<1>7. Chained(t, s, tk2, cl, ob2)
  BY <1>5, <1>6 DEF Chained
<1> QED
  BY <1>3, <1>4, <1>7 DEF StreamCache

(* A step of one task and its stream that leaves the maps and the cluster alone. *)
LEMMA StepCache ==
    ASSUME TypeOK, CacheInv, NEW t \in Tasks, NEW local, NEW s,
           ListCache(t, local, taken, cluster, version, object, dest),
           StreamCache(t, s, taken, cluster, version, object),
           task' = [task EXCEPT ![t] = local], stream' = [stream EXCEPT ![t] = s],
           UNCHANGED <<cluster, maps>>
    PROVE  CacheInv'
<1>1. \A u \in Tasks : /\ task'[u] = IF u = t THEN local ELSE task[u]
                       /\ stream'[u] = IF u = t THEN s ELSE stream[u]
  BY DEF TypeOK
<1>2. /\ taken' = taken /\ cluster' = cluster /\ version' = version
      /\ object' = object /\ dest' = dest
  BY DEF maps
<1>3. /\ \A r \in Res : EntryCache(r, taken, cluster, version, object)
      /\ \A u \in Tasks : /\ ListCache(u, task'[u], taken, cluster, version, object, dest)
                          /\ StreamCache(u, stream'[u], taken, cluster, version, object)
  BY <1>1, CacheParts
<1>4. /\ \A r \in Res : EntryCache(r, taken', cluster', version', object')
      /\ \A u \in Tasks : /\ ListCache(u, task'[u], taken', cluster', version', object', dest')
                          /\ StreamCache(u, stream'[u], taken', cluster', version', object')
  BY <1>2, <1>3
<1> QED
  BY <1>4, CacheNextParts

(* A step of one task that leaves its stream alone as well. *)
LEMMA LocalCache ==
    ASSUME TypeOK, CacheInv, NEW t \in Tasks, NEW local,
           ListCache(t, local, taken, cluster, version, object, dest),
           task' = [task EXCEPT ![t] = local], UNCHANGED <<stream, cluster, maps>>
    PROVE  CacheInv'
<1>1. /\ stream' = [stream EXCEPT ![t] = stream[t]]
      /\ StreamCache(t, stream[t], taken, cluster, version, object)
  BY CacheParts DEF TypeOK
<1> QED
  BY <1>1, StepCache

(* A step that leaves tasks, streams, maps and cluster alone. *)
LEMMA StillCache == CacheInv /\ UNCHANGED <<task, stream, cluster, maps>> => CacheInv'
<1> SUFFICES ASSUME CacheInv, UNCHANGED <<task, stream, cluster, maps>> PROVE CacheInv'
  OBVIOUS
<1>1. /\ taken' = taken /\ cluster' = cluster /\ version' = version
      /\ object' = object /\ dest' = dest /\ task' = task /\ stream' = stream
  BY DEF maps
<1>2. /\ \A r \in Res : EntryCache(r, taken, cluster, version, object)
      /\ \A u \in Tasks : /\ ListCache(u, task[u], taken, cluster, version, object, dest)
                          /\ StreamCache(u, stream[u], taken, cluster, version, object)
  BY CacheParts
<1>3. /\ \A r \in Res : EntryCache(r, taken', cluster', version', object')
      /\ \A u \in Tasks : /\ ListCache(u, task'[u], taken', cluster', version', object', dest')
                          /\ StreamCache(u, stream'[u], taken', cluster', version', object')
  BY <1>1, <1>2
<1> QED
  BY <1>3, CacheNextParts

(* A step of one task that changes the entry of one of its objects. *)
LEMMA EntryStep ==
    ASSUME TypeOK, ScopeInv, CacheInv, NEW t \in Tasks, NEW local, NEW s,
           NEW r \in Res, Serves(t, r),
           \A q \in Res : q # r =>
             Agree(q, taken, version, object, dest, taken', version', object', dest'),
           EntryCache(r, taken', cluster, version', object'),
           ListCache(t, local, taken', cluster, version', object', dest'),
           StreamCache(t, s, taken', cluster, version', object'),
           task' = [task EXCEPT ![t] = local], stream' = [stream EXCEPT ![t] = s],
           UNCHANGED cluster
    PROVE  CacheInv'
<1>1. \A u \in Tasks : /\ task'[u] = IF u = t THEN local ELSE task[u]
                       /\ stream'[u] = IF u = t THEN s ELSE stream[u]
  BY DEF TypeOK
<1>2. ASSUME NEW u \in Tasks, u # t
      PROVE  /\ ListCache(u, task[u], taken', cluster, version', object', dest')
             /\ StreamCache(u, stream[u], taken', cluster, version', object')
  <2>1. \A q \in Res : Serves(u, q) =>
           Agree(q, taken, version, object, dest, taken', version', object', dest')
    BY <1>2, OneWatcherAssumption
  <2>2. /\ task[u] \in Task /\ HoldsOwn(u, task[u])
        /\ stream[u] \in Stream /\ OwnStream(u, stream[u])
    BY ScopeParts, StreamParts DEF TypeOK, Stream, TasksInScope
  <2>3. /\ ListCache(u, task[u], taken, cluster, version, object, dest)
        /\ StreamCache(u, stream[u], taken, cluster, version, object)
    BY CacheParts
  <2>4. ListCache(u, task[u], taken', cluster, version', object', dest')
    BY <2>1, <2>2, <2>3, FrameList
  <2>5. /\ cluster \in [Res -> Item \union {None}]
        /\ \A q \in Res : cluster[q] # None => cluster[q].res = q
    BY DEF TypeOK, ScopeInv, ClusterNamed
  <2>6. StreamCache(u, stream[u], taken', cluster, version', object')
    BY <2>1, <2>2, <2>3, <2>5, FrameStream
  <2> QED
    BY <2>4, <2>6
<1>3. ASSUME NEW q \in Res PROVE EntryCache(q, taken', cluster, version', object')
  <2>1. EntryCache(q, taken, cluster, version, object)
    BY CacheParts
  <2> QED
    BY <2>1 DEF EntryCache, Agree
<1>4. \A u \in Tasks : /\ ListCache(u, task'[u], taken', cluster', version', object', dest')
                       /\ StreamCache(u, stream'[u], taken', cluster', version', object')
  BY <1>1, <1>2
<1> QED
  BY <1>3, <1>4, CacheNextParts

-----------------------------------------------------------------------------
(* CacheInv, one action at a time *)

(* A task that has nothing at hand. *)
LEMMA IdleCache ==
    ASSUME NEW t \in Tasks, NEW local, NEW tk, NEW cl, NEW vs, NEW ob, NEW de,
           local.pages = {}, local.items = {}, local.stale = {}, local.ops = {},
           local.pc \notin {"names", "page", "items", "file", "fetch"}
    PROVE  ListCache(t, local, tk, cl, vs, ob, de)
BY DEF ListCache, ListSweep, LeftOut, Unlisted, InPass

(* The end of a pass or an event. *)
LEMMA RestingCache ==
    ASSUME NEW t \in Tasks, NEW local, NEW tk, NEW cl, NEW vs, NEW ob, NEW de
    PROVE  /\ ListCache(t, Fresh, tk, cl, vs, ob, de)
           /\ ListCache(t, Resting(t, local), tk, cl, vs, ob, de)
           /\ ListCache(t, Notify(t, local), tk, cl, vs, ob, de)
<1>1. /\ Fresh.pages = {} /\ Fresh.items = {} /\ Fresh.stale = {} /\ Fresh.ops = {}
      /\ Fresh.pc \notin {"names", "page", "items", "file", "fetch"}
  BY DEF Fresh
<1> DEFINE rest == Resting(t, local)
           end == Notify(t, local)
<1>2. /\ rest.pages = {} /\ rest.items = {} /\ rest.stale = {} /\ rest.ops = {}
      /\ rest.pc \notin {"names", "page", "items", "file", "fetch"}
  BY DEF Fresh, Resting
<1>3. end = rest \/ \E pc \in {"script", "request"} : end = [Fresh EXCEPT !.pc = pc, !.via = local.via]
  BY DEF Notify
<1>4. \A pc \in {"script", "request"} : LET x == [Fresh EXCEPT !.pc = pc, !.via = local.via]
         IN  /\ x.pages = {} /\ x.items = {} /\ x.stale = {} /\ x.ops = {} /\ x.pc = pc
  BY DEF Fresh
<1> HIDE DEF rest, end
<1>5. /\ end.pages = {} /\ end.items = {} /\ end.stale = {} /\ end.ops = {}
      /\ end.pc \notin {"names", "page", "items", "file", "fetch"}
  BY <1>2, <1>3, <1>4
<1>6. ListCache(t, Fresh, tk, cl, vs, ob, de)
  BY <1>1, IdleCache
<1>7. ListCache(t, rest, tk, cl, vs, ob, de)
  BY <1>2, IdleCache
<1>8. ListCache(t, end, tk, cl, vs, ob, de)
  BY <1>5, IdleCache
<1> QED
  BY <1>6, <1>7, <1>8 DEF rest, end

(* A stream that has nothing in store. *)
LEMMA NoStreamCache ==
    ASSUME NEW t \in Tasks, NEW tk, NEW cl, NEW vs, NEW ob
    PROVE  StreamCache(t, NoStream, tk, cl, vs, ob)
BY DEF StreamCache, Chained, NoStream

(* What a call of a listing gathered, and what it is still to gather. *)
LEMMA GatheredCache ==
    ASSUME NEW t \in Tasks, NEW local \in Task, NEW got,
           NEW tk, NEW cl, NEW vs, NEW ob, NEW de,
           \A it \in local.pages \union got : Sound(t, it, cl) /\ Skippable(it, vs, ob),
           local.stale = {}, local.ops = {},
           \/ local.pc = "names" /\ local.pages = {} /\ ByName(t) /\ local.names \subseteq Chosen(t)
           \/ local.pc = "page" /\ local.names = {} /\ ~ByName(t),
           \A r \in Res : Serves(t, r) /\ cl[r] # None /\ WantedBy(t, cl[r]) =>
             \/ \E it \in local.pages \union got : it.res = r
             \/ local.pc = "names" /\ NameOf[r] \in local.names
             \/ tk[r] < cl[r].rv
    PROVE  ListCache(t, Gathered(local, got), tk, cl, vs, ob, de)
<1> DEFINE next == Gathered(local, got)
<1>1. /\ next.pages = local.pages /\ next.items = got /\ next.names = local.names
      /\ next.stale = {} /\ next.ops = {}
      /\ \/ /\ local.names = {} /\ local.pages = {} /\ next.pc = "items"
            /\ next.exist = {KeyOf[it.res] : it \in got}
         \/ (local.names # {} \/ local.pages # {}) /\ next.pc = local.pc
  BY DEF Gathered, Task
<1> HIDE DEF next
<1>2. LeftOut(t, next, tk, cl)
  <2> SUFFICES ASSUME NEW r \in Res, Serves(t, r), Unlisted(next, r), cl[r] # None,
                      WantedBy(t, cl[r])
               PROVE  tk[r] < cl[r].rv
    BY DEF LeftOut
  <2>1. ~(local.pc = "names" /\ NameOf[r] \in local.names) \/ next.pc = "names"
    BY <1>1
  <2>2. CASE next.pc = "items"
    <3>1. KeyOf[r] \notin {KeyOf[it.res] : it \in got} /\ local.pages = {} /\ local.names = {}
      BY <1>1, <2>2 DEF Unlisted
    <3>2. \A it \in local.pages \union got : it.res # r
      BY <3>1
    <3> QED
      BY <3>1, <3>2
  <2>3. CASE next.pc = "names"
    BY <1>1, <2>3 DEF Unlisted, InPass
  <2>4. CASE next.pc = "page"
    BY <1>1, <2>4 DEF Unlisted, InPass
  <2> QED
    BY <1>1, <2>2, <2>3, <2>4
<1>3. ListSweep(t, next, tk, cl, ob)
  BY <1>1, <1>2 DEF ListSweep, InPass
<1>4. ListCache(t, next, tk, cl, vs, ob, de)
  BY <1>1, <1>3 DEF ListCache
<1> QED
  BY <1>4 DEF next

(* What the API shows is wanted, and remembered if its version is recorded. *)
LEMMA SelectedCache ==
    ASSUME TypeOK, ClusterNamed, CacheInv, NEW t \in Tasks
    PROVE  /\ \A it \in Selected(t) : /\ Skippable(it, version, object)
                                      /\ ~ByName(t) => Sound(t, it, cluster)
           /\ \A n \in Chosen(t) : \A it \in Named(t, n) :
                /\ Skippable(it, version, object)
                /\ ByName(t) => Sound(t, it, cluster)
           /\ \A r \in Res : Serves(t, r) /\ cluster[r] # None =>
                /\ cluster[r].lab => \E it \in Selected(t) : it.res = r
                /\ \A n : NameOf[r] = n => \E it \in Named(t, n) : it.res = r
<1>1. \A r \in Res : cluster[r] # None => cluster[r].res = r /\ Skippable(cluster[r], version, object)
  BY CacheParts DEF ClusterNamed, EntryCache, Skippable
<1> QED
  BY <1>1 DEF Selected, Named, Sound, WantedBy

(* The calls a listing makes, and the choice of what is stale. *)
LEMMA CacheList ==
    ASSUME TypeOK, ScopeInv, LocalInv, CacheInv, NEW t \in Tasks,
           BeginList(t) \/ ReadNamed(t) \/ ListPage(t) \/ BeginStale(t) \/ EndList(t)
    PROVE  CacheInv'
<1>1. /\ task[t] \in Task /\ Settled(task[t])
      /\ ListCache(t, task[t], taken, cluster, version, object, dest)
  BY CacheParts DEF TypeOK, LocalInv
<1>2. UNCHANGED <<stream, cluster, maps>>
  BY DEF BeginList, ReadNamed, ListPage, BeginStale, EndList
<1>3. ClusterNamed /\ \A r \in Res : cluster[r] # None => cluster[r].res = r
  BY DEF ScopeInv, ClusterNamed
<1>4. CASE BeginList(t)
  <2>1. CASE ByName(t)
    <3> DEFINE local == [Fresh EXCEPT !.pc = "names", !.names = Chosen(t)]
    <3>1. /\ local.pc = "names" /\ local.names = Chosen(t) /\ local.pages = {}
          /\ local.items = {} /\ local.stale = {} /\ local.ops = {}
      BY DEF Fresh
    <3>2. task' = [task EXCEPT ![t] = local]
      BY <1>4, <2>1 DEF BeginList
    <3> HIDE DEF local
    <3>3. LeftOut(t, local, taken, cluster)
      BY <1>3, <2>1, <3>1 DEF LeftOut, Unlisted, InPass, WantedBy
    <3>4. ListCache(t, local, taken, cluster, version, object, dest)
      BY <2>1, <3>1, <3>3 DEF ListCache, ListSweep, InPass
    <3> QED
      BY <1>2, <3>2, <3>4, LocalCache
  <2>2. CASE ~ByName(t)
    <3> DEFINE local == [Fresh EXCEPT !.pc = "page", !.pages = Selected(t)]
    <3>1. /\ local.pc = "page" /\ local.pages = Selected(t)
          /\ local.items = {} /\ local.stale = {} /\ local.ops = {}
      BY DEF Fresh
    <3>2. task' = [task EXCEPT ![t] = local]
      BY <1>4, <2>2 DEF BeginList
    <3> HIDE DEF local
    <3>3. LeftOut(t, local, taken, cluster)
      BY <1>3, <2>2, <3>1, SelectedCache DEF LeftOut, Unlisted, InPass, WantedBy
    <3>4. \A it \in local.pages \union local.items :
             Sound(t, it, cluster) /\ Skippable(it, version, object)
      BY <1>3, <2>2, <3>1, SelectedCache
    <3>5. ListCache(t, local, taken, cluster, version, object, dest)
      BY <2>2, <3>1, <3>3, <3>4 DEF ListCache, ListSweep, InPass
    <3> QED
      BY <1>2, <3>2, <3>5, LocalCache
  <2> QED
    BY <2>1, <2>2
<1>5. CASE ReadNamed(t)
  <2>1. PICK n \in task[t].names :
          task' = [task EXCEPT ![t] = Gathered([task[t] EXCEPT !.names = @ \ {n}],
                                               task[t].items \union Named(t, n))]
    BY <1>5 DEF ReadNamed
  <2> DEFINE local == [task[t] EXCEPT !.names = @ \ {n}]
             got == task[t].items \union Named(t, n)
  <2>2. /\ task[t].pc = "names" /\ task[t].pages = {} /\ task[t].stale = {} /\ task[t].ops = {}
    BY <1>1, <1>5 DEF ReadNamed, Settled, InPass
  <2>3. /\ local \in Task /\ local.pages = {} /\ local.names = task[t].names \ {n}
        /\ local.pc = "names" /\ local.stale = {} /\ local.ops = {}
    BY <1>1, <2>2 DEF Task
  <2>4. ByName(t) /\ task[t].names \subseteq Chosen(t) /\ LeftOut(t, task[t], taken, cluster)
    BY <1>1, <2>2 DEF ListCache, ListSweep
  <2>5. \A it \in got : Sound(t, it, cluster) /\ Skippable(it, version, object)
    <3>1. \A it \in task[t].items : Sound(t, it, cluster) /\ Skippable(it, version, object)
      BY <1>1 DEF ListCache
    <3>2. \A it \in Named(t, n) : Sound(t, it, cluster) /\ Skippable(it, version, object)
      BY <1>3, <2>1, <2>4, SelectedCache
    <3> QED
      BY <3>1, <3>2
  <2>6. ASSUME NEW r \in Res, Serves(t, r), cluster[r] # None, WantedBy(t, cluster[r])
        PROVE  \/ \E it \in got : it.res = r
               \/ NameOf[r] \in task[t].names \ {n}
               \/ taken[r] < cluster[r].rv
    <3>1. CASE NameOf[r] = n
      BY <1>3, <2>6, <3>1, SelectedCache
    <3>2. CASE NameOf[r] \notin task[t].names /\ \A it \in task[t].items : it.res # r
      BY <2>2, <2>4, <2>6, <3>2 DEF LeftOut, Unlisted
    <3> QED
      BY <3>1, <3>2
  <2>7. task' = [task EXCEPT ![t] = Gathered(local, got)]
    BY <2>1
  <2> HIDE DEF local, got
  <2>8. ListCache(t, Gathered(local, got), taken, cluster, version, object, dest)
    BY <2>3, <2>4, <2>5, <2>6, GatheredCache
  <2> QED
    BY <1>2, <2>7, <2>8, LocalCache
<1>6. CASE ListPage(t)
  <2>1. PICK page \in SUBSET task[t].pages :
          task' = [task EXCEPT ![t] = Gathered([task[t] EXCEPT !.pages = @ \ page],
                                               task[t].items \union page)]
    BY <1>6 DEF ListPage
  <2> DEFINE local == [task[t] EXCEPT !.pages = @ \ page]
             got == task[t].items \union page
  <2>2. /\ task[t].pc = "page" /\ task[t].names = {} /\ task[t].stale = {} /\ task[t].ops = {}
    BY <1>1, <1>6 DEF ListPage, Settled, InPass
  <2>3. /\ local \in Task /\ local.pages = task[t].pages \ page /\ local.names = {}
        /\ local.pc = "page" /\ local.stale = {} /\ local.ops = {}
    BY <1>1, <2>2 DEF Task
  <2>4. ~ByName(t) /\ LeftOut(t, task[t], taken, cluster)
    BY <1>1, <2>2 DEF ListCache, ListSweep
  <2>5. local.pages \union got = task[t].pages \union task[t].items
    BY <2>1, <2>3
  <2>6. ASSUME NEW r \in Res, Serves(t, r), cluster[r] # None, WantedBy(t, cluster[r])
        PROVE  (\E it \in local.pages \union got : it.res = r) \/ taken[r] < cluster[r].rv
    BY <2>2, <2>4, <2>5, <2>6 DEF LeftOut, Unlisted
  <2>7. task' = [task EXCEPT ![t] = Gathered(local, got)]
    BY <2>1
  <2>8. \A it \in local.pages \union got : Sound(t, it, cluster) /\ Skippable(it, version, object)
    BY <1>1, <2>5 DEF ListCache
  <2> HIDE DEF local, got
  <2>9. ListCache(t, Gathered(local, got), taken, cluster, version, object, dest)
    BY <2>3, <2>4, <2>6, <2>8, GatheredCache
  <2> QED
    BY <1>2, <2>7, <2>9, LocalCache
<1>7. CASE BeginStale(t)
  <2> DEFINE next == [task[t] EXCEPT !.pc = "stale", !.via = "stale", !.stale = Stale(t), !.exist = {}]
  <2>1. task' = [task EXCEPT ![t] = next]
    BY <1>7 DEF BeginStale, TypeOK
  <2>2. /\ task[t].pc = "items" /\ task[t].items = {} /\ task[t].pages = {} /\ task[t].ops = {}
    BY <1>1, <1>7 DEF BeginStale, Settled, InPass
  <2>3. /\ next.pages = {} /\ next.items = {} /\ next.ops = {} /\ next.pc = "stale"
        /\ next.stale = Stale(t)
    BY <1>1, <2>2 DEF Task
  <2>4. \A c \in Stale(t) : object[MapKey(c.res)] = c /\ KeyOf[c.res] \notin task[t].exist
    BY DEF Stale, ScopeInv, ObjectKeyed, MapKey
  <2>5. \A r \in Res : (\E c \in Stale(t) : c.res = r) => Unlisted(task[t], r)
    BY <2>2, <2>4 DEF Unlisted
  <2> HIDE DEF next
  <2>6. \A r \in Res : Unlisted(next, r) => Unlisted(task[t], r)
    BY <2>3, <2>5 DEF Unlisted, InPass
  <2>7. LeftOut(t, next, taken, cluster)
    BY <1>1, <2>6 DEF ListCache, ListSweep, LeftOut
  <2>8. ListCache(t, next, taken, cluster, version, object, dest)
    BY <2>3, <2>4, <2>7 DEF ListCache, ListSweep, InPass
  <2> QED
    BY <1>2, <2>1, <2>8, LocalCache
<1>8. CASE EndList(t)
  <2>1. task' = [task EXCEPT ![t] = Notify(t, task[t])]
    BY <1>8 DEF EndList
  <2> QED
    BY <1>2, <2>1, RestingCache, LocalCache
<1> QED
  BY <1>4, <1>5, <1>6, <1>7, <1>8

(* A task that has less to do than before. *)
LEMMA ShrinkCache ==
    ASSUME NEW t \in Tasks, NEW local, NEW next,
           NEW tk, NEW cl, NEW vs, NEW ob, NEW de,
           ListCache(t, local, tk, cl, vs, ob, de),
           next.pages \subseteq local.pages, next.items \subseteq local.items,
           next.stale \subseteq local.stale, next.ops \subseteq local.ops,
           next.exist = local.exist,
           next.pc \notin {"names", "page"},
           next.pc = "items" \/ InPass(next, "list") => local.pc = "items" \/ InPass(local, "list")
    PROVE  ListCache(t, next, tk, cl, vs, ob, de)
<1>1. \A r \in Res : Unlisted(next, r) => Unlisted(local, r)
  BY DEF Unlisted
<1>2. LeftOut(t, next, tk, cl)
  BY <1>1 DEF ListCache, ListSweep, LeftOut
<1>3. ListSweep(t, next, tk, cl, ob)
  BY <1>2 DEF ListCache, ListSweep
<1> QED
  BY <1>3 DEF ListCache

(* The calls of update_file. *)
LEMMA CacheFile ==
    ASSUME TypeOK, CacheInv, NEW t \in Tasks,
           UpdateFile(t) \/ FetchUrl(t) \/ UpdateFetched(t) \/ FinishItem(t)
    PROVE  CacheInv'
<1>1. task[t] \in Task /\ ListCache(t, task[t], taken, cluster, version, object, dest)
  BY CacheParts DEF TypeOK
<1>2. UNCHANGED <<stream, cluster, maps>>
  BY DEF UpdateFile, FetchUrl, UpdateFetched, FinishItem
<1>3. CASE UpdateFile(t) \/ UpdateFetched(t)
  <2>1. PICK op, changed :
          task' = [task EXCEPT ![t].pc = "file", ![t].ops = @ \ {op}, ![t].changed = changed]
    BY <1>3 DEF UpdateFile, UpdateFetched, Perform
  <2> DEFINE next == [task[t] EXCEPT !.pc = "file", !.ops = @ \ {op}, !.changed = changed]
  <2>2. task' = [task EXCEPT ![t] = next]
    BY <2>1 DEF TypeOK
  <2>3. task[t].pc \in {"file", "fetch"}
    BY <1>3 DEF UpdateFile, UpdateFetched
  <2>4. /\ next.pages = task[t].pages /\ next.items = task[t].items /\ next.stale = task[t].stale
        /\ next.ops = task[t].ops \ {op} /\ next.exist = task[t].exist
        /\ next.pc = "file" /\ next.via = task[t].via
    BY <1>1 DEF Task
  <2> HIDE DEF next
  <2>5. ListCache(t, next, taken, cluster, version, object, dest)
    BY <1>1, <2>3, <2>4, ShrinkCache DEF InPass
  <2> QED
    BY <1>2, <2>2, <2>5, LocalCache
<1>4. CASE FetchUrl(t)
  <2> DEFINE next == [task[t] EXCEPT !.pc = "fetch"]
  <2>1. task' = [task EXCEPT ![t] = next] /\ task[t].pc = "file"
    BY <1>4 DEF FetchUrl, TypeOK
  <2>2. /\ next.pages = task[t].pages /\ next.items = task[t].items /\ next.stale = task[t].stale
        /\ next.ops = task[t].ops /\ next.exist = task[t].exist
        /\ next.pc = "fetch" /\ next.via = task[t].via
    BY <1>1 DEF Task
  <2> HIDE DEF next
  <2>3. ListCache(t, next, taken, cluster, version, object, dest)
    BY <1>1, <2>1, <2>2, ShrinkCache DEF InPass
  <2> QED
    BY <1>2, <2>1, <2>3, LocalCache
<1>5. CASE FinishItem(t)
  <2>1. task[t].via \in {"list", "stale", "event"} /\ task[t].pc = "file"
    BY <1>1, <1>5 DEF Task, FinishItem
  <2>2. \/ \E pc \in {"items", "stale"} :
             /\ pc = "items" => task[t].via = "list"
             /\ task' = [task EXCEPT ![t] = [task[t] EXCEPT !.pc = pc]]
        \/ task' = [task EXCEPT ![t] = Notify(t, task[t])]
    BY <1>5, <2>1 DEF FinishItem
  <2>3. ASSUME NEW pc \in {"items", "stale"}, pc = "items" => task[t].via = "list"
        PROVE  ListCache(t, [task[t] EXCEPT !.pc = pc], taken, cluster, version, object, dest)
    <3> DEFINE next == [task[t] EXCEPT !.pc = pc]
    <3>1. /\ next.pages = task[t].pages /\ next.items = task[t].items
          /\ next.stale = task[t].stale /\ next.ops = task[t].ops
          /\ next.exist = task[t].exist /\ next.pc = pc
      BY <1>1 DEF Task
    <3> HIDE DEF next
    <3>2. ListCache(t, next, taken, cluster, version, object, dest)
      BY <1>1, <2>1, <2>3, <3>1, ShrinkCache DEF InPass
    <3> QED
      BY <3>2 DEF next
  <2> QED
    BY <1>2, <2>2, <2>3, RestingCache, LocalCache
<1> QED
  BY <1>3, <1>4, <1>5

(* The end of a process: nothing is remembered, and nothing is at hand. *)
LEMMA ExitCache ==
    ASSUME TypeOK, NEW status, Exit(status)
    PROVE  CacheInv'
<1>1. /\ \A t \in Tasks : task'[t] = Fresh /\ stream'[t] = NoStream
      /\ \A m \in MapKeys : version'[m] = None
      /\ cluster' = cluster
  BY DEF Exit
<1>2. \A r \in Res : cluster[r] # None => cluster[r].rv # None
  BY NoneAssumption DEF TypeOK, Item
<1>3. \A r \in Res : EntryCache(r, taken', cluster', version', object')
  BY <1>1, <1>2, MapKeyType DEF EntryCache
<1>4. \A t \in Tasks : /\ ListCache(t, task'[t], taken', cluster', version', object', dest')
                       /\ StreamCache(t, stream'[t], taken', cluster', version', object')
  BY <1>1, RestingCache, NoStreamCache
<1> QED
  BY <1>3, <1>4, CacheNextParts

(* An error of a pass. *)
LEMMA ThrowCache ==
    ASSUME TypeOK, CacheInv, NEW t \in Tasks, NEW pc \in {"dead", "throttle"}, Throw(t, pc)
    PROVE  CacheInv'
<1>1. CASE proc = "boot"
  BY <1>1, ExitCache DEF Throw
<1>2. CASE proc # "boot"
  <2> DEFINE next == [Fresh EXCEPT !.pc = pc]
  <2>1. /\ task' = [task EXCEPT ![t] = next] /\ stream' = [stream EXCEPT ![t] = NoStream]
        /\ UNCHANGED <<cluster, maps>>
    BY <1>2 DEF Throw
  <2>2. /\ next.pages = {} /\ next.items = {} /\ next.stale = {} /\ next.ops = {} /\ next.pc = pc
    BY DEF Fresh
  <2> HIDE DEF next
  <2>3. ListCache(t, next, taken, cluster, version, object, dest)
    BY <2>2, IdleCache
  <2> QED
    BY <2>1, <2>3, NoStreamCache, StepCache
<1> QED
  BY <1>1, <1>2

(* A task that has nothing at hand moves on. *)
LEMMA MoveCache ==
    ASSUME TypeOK, LocalInv, NEW t \in Tasks, NEW pc,
           task[t].pc \in {"script", "request", "loop", "sleep", "throttle", "watch"},
           pc \in {"request", "loop", "watch"},
           NEW tk, NEW cl, NEW vs, NEW ob, NEW de
    PROVE  /\ ListCache(t, task[t], tk, cl, vs, ob, de)
           /\ ListCache(t, [task[t] EXCEPT !.pc = pc], tk, cl, vs, ob, de)
<1>1. task[t] \in Task /\ Settled(task[t])
  BY DEF TypeOK, LocalInv
<1>2. /\ task[t].pages = {} /\ task[t].items = {} /\ task[t].stale = {} /\ task[t].ops = {}
  BY <1>1 DEF Settled, InPass
<1> DEFINE next == [task[t] EXCEPT !.pc = pc]
<1>3. /\ next.pages = {} /\ next.items = {} /\ next.stale = {} /\ next.ops = {} /\ next.pc = pc
  BY <1>1, <1>2 DEF Task
<1> HIDE DEF next
<1>4. ListCache(t, next, tk, cl, vs, ob, de)
  BY <1>3, IdleCache
<1>5. ListCache(t, task[t], tk, cl, vs, ob, de)
  BY <1>2, IdleCache
<1> QED
  BY <1>4, <1>5 DEF next

(* The hooks and the failures. *)
LEMMA CacheHook ==
    ASSUME TypeOK, LocalInv, CacheInv, NEW t \in Tasks,
           RunScript(t) \/ SendRequest(t) \/ Wake(t) \/ ScriptFails(t) \/ ApiFails(t)
    PROVE  CacheInv'
<1>1. CASE RunScript(t) \/ SendRequest(t)
  <2>1. \/ task' = [task EXCEPT ![t] = [task[t] EXCEPT !.pc = "request"]]
        \/ task' = [task EXCEPT ![t] = Resting(t, task[t])]
    BY <1>1 DEF RunScript, SendRequest
  <2>2. UNCHANGED <<stream, cluster, maps>> /\ task[t].pc \in {"script", "request"}
    BY <1>1 DEF RunScript, SendRequest
  <2>3. ListCache(t, [task[t] EXCEPT !.pc = "request"], taken, cluster, version, object, dest)
    BY <2>2, MoveCache
  <2> QED
    BY <2>1, <2>2, <2>3, RestingCache, LocalCache
<1>2. CASE Wake(t)
  <2>1. /\ task' = [task EXCEPT ![t] = [task[t] EXCEPT !.pc = "loop"]]
        /\ task[t].pc \in {"sleep", "throttle"} /\ UNCHANGED <<stream, cluster, maps>>
    BY <1>2 DEF Wake, TypeOK
  <2>2. ListCache(t, [task[t] EXCEPT !.pc = "loop"], taken, cluster, version, object, dest)
    BY <2>1, MoveCache
  <2> QED
    BY <2>1, <2>2, LocalCache
<1>3. CASE ScriptFails(t) \/ ApiFails(t)
  BY <1>3, ThrowCache DEF ScriptFails, ApiFails
<1> QED
  BY <1>1, <1>2, <1>3

(* What is about to be written is what the maps now say. *)
LEMMA WritesCache ==
    ASSUME NEW item \in Item, NEW to, NEW old, NEW from,
           NEW op \in Writes(item, to) \union Leftovers(old, CachedItem(item), from, to),
           op.put # None
    PROVE  /\ op.res = item.res /\ op.path = to
           /\ CachedItem(item) # None /\ CachedItem(item).sec[op.key] # None
<1>1. op \in Writes(item, to)
  BY DEF Leftovers
<1>2. PICK k \in Keys : /\ item.data[k] # None
                        /\ op.res = item.res /\ op.key = k /\ op.path = to
  BY <1>1 DEF Writes
<1>3. CachedItem(item) \in Cached /\ CachedItem(item) # None
  BY CachedType, NoneAssumption
<1>4. CachedItem(item).sec[k] = item.data[k].sec
  BY <1>2 DEF CachedItem, SectionsOf
<1>5. item.data[k] \in Entry /\ item.data[k].sec # None
  BY <1>2, NoneAssumption DEF Item, Entry
<1> QED
  BY <1>2, <1>3, <1>4, <1>5

(* The entry of an object that is stored: whether or not the version is        *)
(* recorded, the one that is recorded is that of the contents.                 *)
LEMMA StoreEntry ==
    ASSUME TypeOK, CacheInv, NEW t \in Tasks, NEW item \in Item, Serves(t, item.res),
           Sound(t, item, cluster), InOrder(item, taken, cluster, rev),
           NEW vs, vs[MapKey(item.res)] \in {item.rv, version[MapKey(item.res)]},
           NEW ob, ob[MapKey(item.res)] = CachedItem(item),
           NEW tk, tk[item.res] = item.rv
    PROVE  EntryCache(item.res, tk, cluster, vs, ob)
<1> DEFINE r == item.res
           m == MapKey(r)
<1>1. r \in Res /\ item.rv \in Int
  BY ApiAssumption DEF Item
<1>2. /\ EntryCache(r, taken, cluster, version, object)
      /\ taken[r] \in Int /\ taken[r] <= item.rv
      /\ version[m] # None => version[m] \in Int
      /\ cluster[r] # None => cluster[r].rv \in Int /\ item.rv <= cluster[r].rv
  BY <1>1, CacheParts, MapKeyType, ApiAssumption DEF TypeOK, InOrder, Item
<1>3. vs[m] # None => vs[m] <= tk[r]
  BY <1>1, <1>2 DEF EntryCache
<1>4. ASSUME cluster[r] # None, vs[m] = cluster[r].rv
      PROVE  item = cluster[r]
  <2>1. vs[m] = item.rv => item = cluster[r]
    BY <1>4 DEF Sound
  <2>2. cluster[r].rv # None
    BY <1>1, <1>4, NoneAssumption DEF TypeOK, Item
  <2>3. vs[m] = version[m] => item.rv = cluster[r].rv
    BY <1>1, <1>2, <1>4, <2>2 DEF EntryCache
  <2>4. item.rv = cluster[r].rv => item = cluster[r]
    BY <1>4 DEF Sound
  <2> QED
    BY <2>1, <2>3, <2>4
<1>5. \A u \in Tasks : Serves(u, r) => WantedBy(u, item)
  BY <1>1, OneWatcherAssumption DEF Sound
<1> QED
  BY <1>3, <1>4, <1>5 DEF EntryCache

(* A task that has listed objects of its own, and is about to work on one.     *)
LEMMA OthersAgree ==
    ASSUME TypeOK, NEW r \in Res, NEW x, NEW y, NEW z, NEW w,
           version' = version \/ version' = [version EXCEPT ![MapKey(r)] = x],
           object' = [object EXCEPT ![MapKey(r)] = y],
           dest' = dest \/ dest' = [dest EXCEPT ![MapKey(r)] = z],
           taken' = taken \/ taken' = [taken EXCEPT ![r] = w]
    PROVE  /\ object'[MapKey(r)] = y
           /\ \A q \in Res : q # r =>
                Agree(q, taken, version, object, dest, taken', version', object', dest')
<1>1. /\ \A m \in MapKeys : object'[m] = IF m = MapKey(r) THEN y ELSE object[m]
      /\ \A m \in MapKeys : m # MapKey(r) => version'[m] = version[m] /\ dest'[m] = dest[m]
      /\ \A q \in Res : q # r => taken'[q] = taken[q]
  BY DEF TypeOK
<1>2. \A q \in Res : q # r => MapKey(q) # MapKey(r)
  BY WellFormedAssumption
<1> QED
  BY <1>1, <1>2, MapKeyType DEF Agree

(* The processing of a listed object: what it leaves for later concerns other  *)
(* objects.                                                                    *)
LEMMA CacheListItem ==
    ASSUME TypeOK, TypeOK', ScopeInv, LocalInv, PhaseInv, OrderInv, CacheInv,
           NEW t \in Tasks, ListItem(t), proc \in {"boot", "run"}
    PROVE  CacheInv'
<1>1. /\ task[t] \in Task /\ Settled(task[t]) /\ task[t].pc = "items"
      /\ ListCache(t, task[t], taken, cluster, version, object, dest)
      /\ ListOrdered(task[t], taken, cluster, rev)
  BY CacheParts, OrderParts DEF TypeOK, LocalInv, ListItem
<1>2. task[t].pages = {} /\ task[t].stale = {} /\ task[t].ops = {}
  BY <1>1 DEF Settled, InPass
<1>3. stream[t] = NoStream
  BY <1>1 DEF PhaseInv, Lists
<1>4. UNCHANGED <<stream, cluster>>
  BY DEF ListItem
<1>5. PICK it \in task[t].items :
        LET m == MapKey(it.res)
            rest == [task[t] EXCEPT !.items = @ \ {it}, !.via = "list"]
        IN  IF Ignoring /\ version[m] = it.rv
            THEN task' = [task EXCEPT ![t] = rest] /\ UNCHANGED maps
            ELSE /\ version' = IF Ignoring THEN [version EXCEPT ![m] = it.rv] ELSE version
                 /\ Store(t, rest, it, get_destination_folder(it.ann))
  BY DEF ListItem
<1> DEFINE r == it.res
           m == MapKey(r)
           rest == [task[t] EXCEPT !.items = @ \ {it}, !.via = "list"]
           to == get_destination_folder(it.ann)
<1>6. it \in Item /\ r \in Res /\ m \in MapKeys /\ Serves(t, r) /\ Sound(t, it, cluster)
      /\ InOrder(it, taken, cluster, rev) /\ KeyOf[r] \in task[t].exist
  BY <1>1, MapKeyType DEF Task, Item, ScopeInv, InScope, ListCache, ListOrdered, ListSweep
<1>7. /\ rest.pages = {} /\ rest.items = task[t].items \ {it} /\ rest.stale = {} /\ rest.ops = {}
      /\ rest.exist = task[t].exist /\ rest.pc = "items"
  BY <1>1, <1>2 DEF Task
<1>8. CASE task' = [task EXCEPT ![t] = rest] /\ UNCHANGED maps
  <2> HIDE DEF rest
  <2>1. ListCache(t, rest, taken, cluster, version, object, dest)
    BY <1>1, <1>2, <1>7, ShrinkCache
  <2> QED
    BY <1>4, <1>8, <2>1, LocalCache
<1>9. CASE /\ version' = (IF Ignoring THEN [version EXCEPT ![m] = it.rv] ELSE version)
           /\ Store(t, rest, it, to)
  <2> DEFINE old == IF object[m] # None THEN object[m] ELSE CachedItem(it)
             ops == Writes(it, to) \union Leftovers(old, CachedItem(it), OldDest(m, to), to)
             next == [rest EXCEPT !.pc = "file", !.ops = ops]
  <2>1. /\ object' = [object EXCEPT ![m] = CachedItem(it)] /\ dest' = [dest EXCEPT ![m] = to]
        /\ taken' = [taken EXCEPT ![r] = it.rv] /\ task' = [task EXCEPT ![t] = next]
        /\ version' = version \/ version' = [version EXCEPT ![m] = it.rv]
    BY <1>9 DEF Store
  <2>2. /\ next.pages = {} /\ next.items = task[t].items \ {it} /\ next.stale = {}
        /\ next.ops = ops /\ next.exist = task[t].exist /\ next.pc = "file" /\ next.via = "list"
    BY <1>1, <1>2 DEF Task
  <2>3. /\ object'[m] = CachedItem(it) /\ dest'[m] = to /\ taken'[r] = it.rv
        /\ version'[m] \in {it.rv, version[m]}
    BY <1>6, <2>1 DEF TypeOK
  <2> HIDE DEF r, m, rest, to, next
  <2>4. \A q \in Res : q # r =>
           Agree(q, taken, version, object, dest, taken', version', object', dest')
    BY <1>6, <2>1, OthersAgree DEF m
  <2>5. EntryCache(r, taken', cluster, version', object')
    BY <1>6, <2>3, StoreEntry DEF r, m
  <2>6. \A x \in next.items : x.res # r /\ x.res \in Res
    BY <1>1, <1>6, <2>2 DEF ListOrdered, Task, Item, r
  <2>7. \A x \in next.items : Sound(t, x, cluster) /\ Skippable(x, version', object')
    BY <1>1, <2>2, <2>4, <2>6 DEF ListCache, Skippable, Agree
  <2>8. LeftOut(t, next, taken', cluster)
    <3> SUFFICES ASSUME NEW q \in Res, Serves(t, q), Unlisted(next, q), cluster[q] # None,
                        WantedBy(t, cluster[q])
                 PROVE  taken'[q] < cluster[q].rv
      BY DEF LeftOut
    <3>1. KeyOf[q] \notin task[t].exist
      BY <2>2 DEF Unlisted
    <3>2. Unlisted(task[t], q) /\ q # r
      BY <1>1, <1>6, <3>1 DEF Unlisted
    <3>3. taken[q] < cluster[q].rv
      BY <1>1, <3>2 DEF ListCache, ListSweep, LeftOut
    <3> QED
      BY <2>4, <3>2, <3>3 DEF Agree
  <2>9. \A x \in next.items : KeyOf[x.res] \in next.exist
    BY <1>1, <2>2 DEF ListCache, ListSweep
  <2>10. ListSweep(t, next, taken', cluster, object')
    BY <2>2, <2>8, <2>9 DEF ListSweep
  <2>11. ASSUME NEW op \in next.ops, op.put # None
         PROVE  /\ object'[MapKey(op.res)] # None
                /\ object'[MapKey(op.res)].sec[op.key] # None
                /\ dest'[MapKey(op.res)] = op.path
    <3>1. op \in Writes(it, to) \union Leftovers(old, CachedItem(it), OldDest(m, to), to)
      BY <2>2
    <3>2. object'[MapKey(it.res)] = CachedItem(it) /\ dest'[MapKey(it.res)] = to
      BY <2>3 DEF r, m
    <3> DEFINE from == OldDest(m, to)
    <3>3. op \in Writes(it, to) \union Leftovers(old, CachedItem(it), from, to)
      BY <3>1
    <3> HIDE DEF old, from
    <3>4. it \in Item
      BY <1>6
    <3>5. /\ op.res = it.res /\ op.path = to
          /\ CachedItem(it) # None /\ CachedItem(it).sec[op.key] # None
      BY <2>11, <3>3, <3>4, WritesCache
    <3> QED
      BY <3>2, <3>5
  <2>12. ListCache(t, next, taken', cluster, version', object', dest')
    BY <2>2, <2>7, <2>10, <2>11 DEF ListCache
  <2>13. StreamCache(t, stream[t], taken', cluster, version', object')
    BY <1>3, NoStreamCache
  <2>14. stream' = [stream EXCEPT ![t] = stream[t]]
    BY <1>4 DEF TypeOK
  <2>15. task' = [task EXCEPT ![t] = next]
    BY <2>1
  <2> QED
    BY <1>4, <1>6, <2>4, <2>5, <2>12, <2>13, <2>14, <2>15, EntryStep
<1> QED
  BY <1>5, <1>8, <1>9

(* The removal of a stale entry: its object was left out of the listing, so    *)
(* no version of it that was stored is the current one.                        *)
LEMMA CacheRemoveStale ==
    ASSUME TypeOK, ScopeInv, LocalInv, PhaseInv, CacheInv, NEW t \in Tasks, RemoveStale(t),
           proc \in {"boot", "run"}
    PROVE  CacheInv'
<1>1. /\ task[t] \in Task /\ Settled(task[t]) /\ task[t].pc = "stale"
      /\ ListCache(t, task[t], taken, cluster, version, object, dest)
  BY CacheParts DEF TypeOK, LocalInv, RemoveStale
<1>2. task[t].pages = {} /\ task[t].items = {} /\ task[t].ops = {} /\ task[t].via = "stale"
  BY <1>1 DEF Settled, InPass
<1>3. stream[t] = NoStream
  BY <1>1 DEF PhaseInv, Lists
<1>4. PICK c \in task[t].stale :
        Forget(t, [task[t] EXCEPT !.stale = @ \ {c}], c, NoPath)
  BY DEF RemoveStale
<1> DEFINE r == c.res
           m == MapKey(r)
           ops == Removals(c, OldDest(m, NoPath))
           next == [[task[t] EXCEPT !.stale = @ \ {c}] EXCEPT !.pc = "file", !.ops = ops]
<1>5. /\ object' = [object EXCEPT ![m] = None] /\ task' = [task EXCEPT ![t] = next]
      /\ UNCHANGED <<dest, taken, version, cluster, stream>>
  BY <1>4 DEF Forget, RemoveStale
<1>6. /\ next.pages = {} /\ next.items = {} /\ next.stale = task[t].stale \ {c}
      /\ next.ops = ops /\ next.pc = "file" /\ next.via = "stale"
  BY <1>1, <1>2 DEF Task
<1>7. r \in Res /\ m \in MapKeys /\ Serves(t, r) /\ object[m] = c /\ Unlisted(task[t], r)
  BY <1>1, MapKeyType DEF Task, Cached, ScopeInv, InScope, ListCache, ListSweep, Unlisted
<1>8. \A op \in ops : op.put = None
  BY DEF Removals
<1> HIDE DEF r, m, ops, next
<1>9. object'[m] = None /\ \A q \in Res : q # r =>
         Agree(q, taken, version, object, dest, taken', version', object', dest')
  BY <1>5, <1>7, OthersAgree DEF m
<1>10. EntryCache(r, taken', cluster, version', object')
  <2>1. EntryCache(r, taken, cluster, version, object)
    BY <1>7, CacheParts
  <2>2. ~(cluster[r] # None /\ version[m] = cluster[r].rv)
    <3> SUFFICES ASSUME cluster[r] # None, version[m] = cluster[r].rv PROVE FALSE
      OBVIOUS
    <3>1. WantedBy(t, cluster[r])
      BY <1>7, <2>1 DEF EntryCache, m
    <3>2. taken[r] < cluster[r].rv
      BY <1>1, <1>7, <3>1 DEF ListCache, ListSweep, LeftOut
    <3>3. cluster[r].rv # None /\ cluster[r].rv \in Int /\ taken[r] \in Int
      BY <1>7, NoneAssumption, ApiAssumption DEF TypeOK, Item
    <3>4. cluster[r].rv <= taken[r]
      BY <2>1, <3>3 DEF EntryCache, m
    <3> QED
      BY <3>2, <3>3, <3>4
  <2> QED
    BY <1>5, <2>1, <2>2 DEF EntryCache, m
<1>11. LeftOut(t, next, taken', cluster)
  <2>1. \A q \in Res : Unlisted(next, q) => Unlisted(task[t], q)
    BY <1>6 DEF Unlisted, InPass
  <2> QED
    BY <1>1, <1>5, <2>1 DEF ListCache, ListSweep, LeftOut
<1>12. \A d \in next.stale : object'[MapKey(d.res)] = d
  <2> SUFFICES ASSUME NEW d \in next.stale PROVE object'[MapKey(d.res)] = d
    OBVIOUS
  <2>1. d \in task[t].stale /\ d # c
    BY <1>6
  <2>2. d.res \in Res /\ object[MapKey(d.res)] = d
    BY <1>1, <2>1 DEF Task, Cached, ListCache, ListSweep
  <2>3. d.res # r
    BY <1>7, <2>1, <2>2 DEF m
  <2> QED
    BY <1>9, <2>2, <2>3 DEF Agree
<1>13. ListSweep(t, next, taken', cluster, object')
  BY <1>6, <1>11, <1>12 DEF ListSweep, InPass
<1>14. ListCache(t, next, taken', cluster, version', object', dest')
  BY <1>6, <1>8, <1>13 DEF ListCache
<1>15. StreamCache(t, stream[t], taken', cluster, version', object')
  BY <1>3, NoStreamCache
<1>16. stream' = [stream EXCEPT ![t] = stream[t]] /\ UNCHANGED cluster
  BY <1>5 DEF TypeOK
<1>17. task' = [task EXCEPT ![t] = next]
  BY <1>5
<1> QED
  BY <1>7, <1>9, <1>10, <1>14, <1>15, <1>16, <1>17, EntryStep

(* The watch loop but for its events: a fresh stream starts from what the API  *)
(* shows, and one that is closed promises nothing more.                        *)
LEMMA CacheWatch ==
    ASSUME TypeOK, ScopeInv, LocalInv, CacheInv, NEW t \in Tasks,
           Connect(t) \/ StreamEnds(t) \/ Close(t)
    PROVE  CacheInv'
<1>1. CASE Connect(t)
  <2>1. /\ task' = [task EXCEPT ![t] = [task[t] EXCEPT !.pc = "watch"]]
        /\ stream' = [stream EXCEPT ![t] = OpenStream(t)]
        /\ task[t].pc = "loop" /\ ~SleepMode(t) /\ UNCHANGED <<cluster, maps>>
    BY <1>1 DEF Connect, TypeOK
  <2>2. ListCache(t, [task[t] EXCEPT !.pc = "watch"], taken, cluster, version, object, dest)
    BY <2>1, MoveCache
  <2>3. ~ByName(t)
    BY <2>1, NamedSleeps
  <2> DEFINE s == OpenStream(t)
  <2>4. s.backlog = Selected(t) /\ s.queue = <<>>
    BY DEF OpenStream
  <2>5. \A it \in s.backlog : Sound(t, it, cluster) /\ Skippable(it, version, object)
    BY <2>3, <2>4, SelectedCache DEF ScopeInv
  <2>6. \A r \in Res : Serves(t, r) /\ cluster[r] # None /\ cluster[r].lab => cluster[r] \in s.backlog
    BY <2>4 DEF Selected
  <2>7. Len(s.queue) = 0 /\ DOMAIN s.queue = {}
    BY <2>4
  <2> HIDE DEF s
  <2>8. Chained(t, s, taken, cluster, object)
    BY <2>6, <2>7 DEF Chained, Known
  <2>9. StreamCache(t, s, taken, cluster, version, object)
    BY <2>5, <2>7, <2>8 DEF StreamCache
  <2> QED
    BY <2>1, <2>2, <2>9, StepCache DEF s
<1>2. CASE StreamEnds(t)
  <2>1. /\ task' = [task EXCEPT ![t] = [task[t] EXCEPT !.pc = "loop"]]
        /\ task[t].pc = "watch" /\ UNCHANGED <<stream, cluster, maps>>
    BY <1>2 DEF StreamEnds, TypeOK
  <2>2. ListCache(t, [task[t] EXCEPT !.pc = "loop"], taken, cluster, version, object, dest)
    BY <2>1, MoveCache
  <2> QED
    BY <2>1, <2>2, LocalCache
<1>3. CASE Close(t)
  <2> DEFINE s == [stream[t] EXCEPT !.live = FALSE]
  <2>1. stream' = [stream EXCEPT ![t] = s]
    BY <1>3 DEF Close, ServerClose, TypeOK
  <2>2. task' = [task EXCEPT ![t] = task[t]] /\ UNCHANGED <<cluster, maps>>
    BY <1>3 DEF Close, ServerClose, TypeOK
  <2>3. ListCache(t, task[t], taken, cluster, version, object, dest)
        /\ StreamCache(t, stream[t], taken, cluster, version, object)
    BY CacheParts
  <2>4. s.backlog = stream[t].backlog /\ s.queue = stream[t].queue /\ ~s.live
    BY DEF TypeOK
  <2> HIDE DEF s
  <2>5. \A n, it : Known(stream[t], object, taken, n, it) => Known(s, object, taken, n, it)
    BY <2>4 DEF Known
  <2>6. Chained(t, s, taken, cluster, object)
    BY <2>3, <2>4, <2>5 DEF StreamCache, Chained
  <2>7. StreamCache(t, s, taken, cluster, version, object)
    BY <2>3, <2>4, <2>6 DEF StreamCache
  <2> QED
    BY <2>1, <2>2, <2>3, <2>7, StepCache
<1> QED
  BY <1>1, <1>2, <1>3

-----------------------------------------------------------------------------
(* Events *)

(* An object of the backlog is stored: what was known to come of it is there.  *)
LEMMA KnownBacklog ==
    ASSUME NEW s \in Stream, NEW d, NEW it \in s.backlog,
           d.backlog = s.backlog \ {it}, d.queue = s.queue,
           \A a, b \in s.backlog : a.res = b.res => a = b,
           NEW tk, NEW ob, NEW tk2, NEW ob2,
           ob2[MapKey(it.res)] = CachedItem(it), tk2[it.res] = it.rv,
           \A q \in Res : q # it.res => tk2[q] = tk[q] /\ ob2[MapKey(q)] = ob[MapKey(q)],
           NEW n, NEW x, x.res \in Res, Known(s, ob, tk, n, x)
    PROVE  Known(d, ob2, tk2, n, x)
<1>1. CASE \E j \in 1..n : /\ s.queue[j] = [gone |-> FALSE, item |-> x]
                           /\ \A i \in (j + 1)..n : s.queue[i].item.res # x.res
  BY <1>1 DEF Known
<1>2. CASE \A i \in 1..n : s.queue[i].item.res # x.res
  <2>1. CASE x.res = it.res
    <3>1. x = it
      BY <1>2, <2>1 DEF Known
    <3>2. \A a \in d.backlog : a.res # x.res
      BY <2>1
    <3> QED
      BY <1>2, <3>1, <3>2 DEF Known
  <2>2. CASE x.res # it.res
    BY <1>2, <2>2 DEF Known
  <2> QED
    BY <2>1, <2>2
<1> QED
  BY <1>1, <1>2 DEF Known

(* The head of the queue is stored or, if it is a DELETED event, forgotten.    *)
LEMMA KnownQueue ==
    ASSUME NEW s \in Stream, NEW d, s.queue # <<>>, s.backlog = {}, d.backlog = {},
           d.queue = Tail(s.queue),
           NEW tk, NEW ob, NEW tk2, NEW ob2,
           LET it == s.queue[1].item
           IN  /\ s.queue[1].gone \/ (ob2[MapKey(it.res)] = CachedItem(it) /\ tk2[it.res] = it.rv)
               /\ \A q \in Res : q # it.res => tk2[q] = tk[q] /\ ob2[MapKey(q)] = ob[MapKey(q)],
           NEW n \in 1..Len(s.queue), NEW x, x.res \in Res, Known(s, ob, tk, n, x)
    PROVE  Known(d, ob2, tk2, n - 1, x)
<1> DEFINE q == s.queue
<1>1. /\ q \in Seq(Event) /\ Len(q) \in Nat /\ Len(q) > 0 /\ n \in Nat /\ n >= 1 /\ n <= Len(q)
      /\ \A i \in 1..(Len(q) - 1) : d.queue[i] = q[i + 1]
  BY StreamItems
<1>2. \A i \in 1..(n - 1) : d.queue[i] = q[i + 1] /\ i + 1 \in 1..n
  BY <1>1
<1> HIDE DEF q
<1>3. ASSUME NEW j \in 1..n, j # 1, q[j] = [gone |-> FALSE, item |-> x],
             \A i \in (j + 1)..n : q[i].item.res # x.res
      PROVE  Known(d, ob2, tk2, n - 1, x)
  <2>1. j - 1 \in 1..(n - 1) /\ d.queue[j - 1] = q[j]
    <3>1. j - 1 \in 1..(n - 1) /\ (j - 1) + 1 = j
      BY <1>1, <1>3
    <3> QED
      BY <1>2, <3>1
  <2>2. \A i \in ((j - 1) + 1)..(n - 1) : d.queue[i].item.res # x.res
    <3> SUFFICES ASSUME NEW i \in ((j - 1) + 1)..(n - 1) PROVE d.queue[i].item.res # x.res
      OBVIOUS
    <3>1. i \in 1..(n - 1) /\ i + 1 \in (j + 1)..n
      BY <1>1, <1>3
    <3> QED
      BY <1>2, <1>3, <3>1
  <2> QED
    BY <1>3, <2>1, <2>2 DEF Known
<1>4. ASSUME \A i \in 2..n : q[i].item.res # x.res
      PROVE  \A i \in 1..(n - 1) : d.queue[i].item.res # x.res
  <2>1. \A i \in 1..(n - 1) : i + 1 \in 2..n
    BY <1>1
  <2> QED
    BY <1>2, <1>4, <2>1
<1>5. ASSUME q[1] = [gone |-> FALSE, item |-> x], \A i \in 2..n : q[i].item.res # x.res
      PROVE  Known(d, ob2, tk2, n - 1, x)
  <2>1. ob2[MapKey(x.res)] = CachedItem(x) /\ tk2[x.res] = x.rv
    BY <1>5 DEF q
  <2> QED
    BY <1>4, <1>5, <2>1 DEF Known
<1>6. ASSUME \A i \in 1..n : q[i].item.res # x.res, ob[MapKey(x.res)] = CachedItem(x), tk[x.res] = x.rv
      PROVE  Known(d, ob2, tk2, n - 1, x)
  <2>1. 1 \in 1..n /\ \A i \in 2..n : i \in 1..n
    BY <1>1
  <2>2. ob2[MapKey(x.res)] = CachedItem(x) /\ tk2[x.res] = x.rv
    BY <1>6, <2>1 DEF q
  <2> QED
    BY <1>4, <1>6, <2>1, <2>2 DEF Known
<1>7. \/ \E j \in 1..n : q[j] = [gone |-> FALSE, item |-> x]
                         /\ \A i \in (j + 1)..n : q[i].item.res # x.res
      \/ /\ \A i \in 1..n : q[i].item.res # x.res
         /\ ob[MapKey(x.res)] = CachedItem(x) /\ tk[x.res] = x.rv
  BY DEF Known, q
<1>8. 1 + 1 = 2
  OBVIOUS
<1> QED
  BY <1>3, <1>5, <1>6, <1>7, <1>8

(* The two ways an event is delivered. *)
LEMMA DeliveryCases ==
    ASSUME TypeOK, NEW t \in Tasks, NEW d \in Delivery(t)
    PROVE  /\ d[2].live = stream[t].live
           /\ \/ /\ ~d[1].gone /\ d[1].item \in stream[t].backlog
                 /\ d[2].backlog = stream[t].backlog \ {d[1].item} /\ d[2].queue = stream[t].queue
              \/ /\ stream[t].queue # <<>> /\ stream[t].backlog = {}
                 /\ d[1] = stream[t].queue[1]
                 /\ d[2].backlog = {} /\ d[2].queue = Tail(stream[t].queue)
<1>1. stream[t] \in Stream
  BY DEF TypeOK, Stream
<1>2. CASE \E it \in stream[t].backlog :
             d = <<[gone |-> FALSE, item |-> it], [stream[t] EXCEPT !.backlog = @ \ {it}]>>
  BY <1>1, <1>2 DEF Stream
<1>3. CASE /\ stream[t].backlog = {} /\ stream[t].queue # <<>>
           /\ d = <<Head(stream[t].queue), [stream[t] EXCEPT !.queue = Tail(@)]>>
  <2>1. Head(stream[t].queue) = stream[t].queue[1]
    BY <1>1, <1>3 DEF Stream
  <2> QED
    BY <1>1, <1>3, <2>1 DEF Stream
<1> QED
  BY <1>2, <1>3 DEF Delivery

(* What is left of a stream once an event of it was worked on: the event is    *)
(* known, later ones are of later versions.                                    *)
LEMMA EventStream ==
    ASSUME TypeOK, ScopeInv, OrderInv, CacheInv, NEW t \in Tasks, NEW d \in Delivery(t),
           NEW r, r = d[1].item.res, NEW tk2, NEW vs2, NEW ob2,
           d[1].gone \/ (ob2[MapKey(r)] = CachedItem(d[1].item) /\ tk2[r] = d[1].item.rv),
           vs2[MapKey(r)] # None => vs2[MapKey(r)] \in Int /\ vs2[MapKey(r)] <= d[1].item.rv,
           \A q \in Res : q # r => /\ tk2[q] = taken[q] /\ ob2[MapKey(q)] = object[MapKey(q)]
                                   /\ vs2[MapKey(q)] = version[MapKey(q)]
    PROVE  StreamCache(t, d[2], tk2, cluster, vs2, ob2)
<1> DEFINE old == stream[t]
           s == d[2]
           item == d[1].item
<1>1. /\ old \in Stream /\ StreamCache(t, old, taken, cluster, version, object)
      /\ \A a, b \in old.backlog : a.res = b.res => a = b
  BY CacheParts, OrderParts DEF TypeOK, Stream, StreamOrdered
<1>2. /\ s \in Stream /\ item \in Item /\ item.rv \in Int
      /\ \A it \in s.backlog : it.res # item.res
      /\ \A i \in DOMAIN s.queue : s.queue[i].item.res = item.res => item.rv < s.queue[i].item.rv
  BY DeliveryType, DeliveryOrdered, ApiAssumption DEF Event, Item
<1>3. /\ s.live = old.live
      /\ \/ /\ ~d[1].gone /\ item \in old.backlog
            /\ s.backlog = old.backlog \ {item} /\ s.queue = old.queue
         \/ /\ old.queue # <<>> /\ old.backlog = {} /\ d[1] = old.queue[1]
            /\ s.backlog = {} /\ s.queue = Tail(old.queue)
  BY DeliveryCases
<1>4. /\ old.queue \in Seq(Event) /\ DOMAIN old.queue = 1..Len(old.queue) /\ Len(old.queue) \in Nat
      /\ DOMAIN s.queue = 1..Len(s.queue) /\ Len(s.queue) \in Nat
      /\ \A i \in 1..Len(old.queue) : old.queue[i].item \in Item /\ old.queue[i].item.res \in Res
      /\ \A a \in s.backlog : a \in Item /\ a.res \in Res
      /\ \A i \in 1..Len(s.queue) : s.queue[i].item \in Item /\ s.queue[i].item.res \in Res
  BY <1>1, <1>2, StreamItems
<1>5. cluster \in [Res -> Item \union {None}] /\ \A q \in Res : cluster[q] # None => cluster[q].res = q
  BY DEF TypeOK, ScopeInv, ClusterNamed
<1>6. ASSUME s.queue = Tail(old.queue), old.queue # <<>>
      PROVE  /\ Len(s.queue) = Len(old.queue) - 1 /\ Len(old.queue) \in 1..Len(old.queue)
             /\ \A i \in 1..Len(s.queue) : i + 1 \in 1..Len(old.queue) /\ s.queue[i] = old.queue[i + 1]
  BY <1>4, <1>6
<1> HIDE DEF old, s, item
<1>7. /\ \A a \in s.backlog : a \in old.backlog
      /\ \A i \in DOMAIN s.queue : \E j \in DOMAIN old.queue : s.queue[i] = old.queue[j]
  BY <1>3, <1>4, <1>6
<1>8. \A a \in Item : a.res = r /\ item.rv < a.rv => Skippable(a, vs2, ob2)
  <2>1. \A a \in Item : a.rv \in Int /\ a.rv # None
    BY ApiAssumption, NoneAssumption DEF Item
  <2> QED
    BY <1>2, <2>1 DEF Skippable, item
<1>9. \A a \in Item : a.res # r /\ a.res \in Res /\ Skippable(a, version, object) =>
                        Skippable(a, vs2, ob2)
  BY DEF Skippable
<1>10. \A a \in s.backlog : Sound(t, a, cluster) /\ Skippable(a, vs2, ob2)
  BY <1>1, <1>2, <1>4, <1>7, <1>9 DEF StreamCache, item
<1>11. ASSUME NEW i \in DOMAIN s.queue, ~s.queue[i].gone
       PROVE  Sound(t, s.queue[i].item, cluster) /\ Skippable(s.queue[i].item, vs2, ob2)
  <2>1. Sound(t, s.queue[i].item, cluster) /\ Skippable(s.queue[i].item, version, object)
    BY <1>1, <1>7, <1>11 DEF StreamCache
  <2>2. s.queue[i].item \in Item /\ s.queue[i].item.res \in Res
    BY <1>4
  <2>3. s.queue[i].item.res = r => item.rv < s.queue[i].item.rv
    BY <1>2 DEF item
  <2> QED
    BY <1>8, <1>9, <2>1, <2>2, <2>3
<1>12. Chained(t, s, tk2, cluster, ob2)
  <2>1. CASE ~d[1].gone /\ item \in old.backlog /\ s.backlog = old.backlog \ {item} /\ s.queue = old.queue
    <3>1. ASSUME NEW n, NEW x, x.res \in Res, Known(old, object, taken, n, x)
          PROVE  Known(s, ob2, tk2, n, x)
      <4>1. ob2[MapKey(item.res)] = CachedItem(item) /\ tk2[item.res] = item.rv
        BY <2>1 DEF item
      <4>2. \A q \in Res : q # item.res =>
               tk2[q] = taken[q] /\ ob2[MapKey(q)] = object[MapKey(q)]
        BY DEF item
      <4> QED
        BY <1>1, <2>1, <3>1, <4>1, <4>2, KnownBacklog
    <3>2. ASSUME NEW i \in DOMAIN s.queue, s.queue[i].gone
          PROVE  \E v \in 0..MaxRev : Known(s, ob2, tk2, i - 1, [s.queue[i].item EXCEPT !.rv = v])
      <4>1. PICK v \in 0..MaxRev :
              Known(old, object, taken, i - 1, [old.queue[i].item EXCEPT !.rv = v])
        BY <1>1, <2>1, <3>2 DEF StreamCache, Chained
      <4>2. [old.queue[i].item EXCEPT !.rv = v].res \in Res
        BY <1>4, <2>1, ItemVersion
      <4> QED
        BY <2>1, <3>1, <4>1, <4>2
    <3>3. ASSUME s.live, NEW q \in Res, Serves(t, q), cluster[q] # None, cluster[q].lab
          PROVE  Known(s, ob2, tk2, Len(s.queue), cluster[q])
      <4>1. Known(old, object, taken, Len(old.queue), cluster[q])
        BY <1>1, <1>3, <3>3 DEF StreamCache, Chained
      <4> QED
        BY <1>5, <2>1, <3>1, <3>3, <4>1
    <3> QED
      BY <3>2, <3>3 DEF Chained
  <2>2. CASE /\ old.queue # <<>> /\ old.backlog = {} /\ d[1] = old.queue[1]
             /\ s.backlog = {} /\ s.queue = Tail(old.queue)
    <3>1. ASSUME NEW n \in 1..Len(old.queue), NEW x, x.res \in Res, Known(old, object, taken, n, x)
          PROVE  Known(s, ob2, tk2, n - 1, x)
      <4>1. LET it == old.queue[1].item
            IN  /\ old.queue[1].gone \/ (ob2[MapKey(it.res)] = CachedItem(it) /\ tk2[it.res] = it.rv)
                /\ \A q \in Res : q # it.res =>
                     tk2[q] = taken[q] /\ ob2[MapKey(q)] = object[MapKey(q)]
        BY <2>2
      <4> QED
        BY <1>1, <2>2, <3>1, <4>1, KnownQueue
    <3>2. ASSUME NEW i \in DOMAIN s.queue, s.queue[i].gone
          PROVE  \E v \in 0..MaxRev : Known(s, ob2, tk2, i - 1, [s.queue[i].item EXCEPT !.rv = v])
      <4>1. /\ i \in Int /\ i + 1 \in DOMAIN old.queue /\ s.queue[i] = old.queue[i + 1]
            /\ i \in 1..Len(old.queue) /\ (i + 1) - 1 = i
        BY <1>4, <1>6, <2>2
      <4>2. PICK v \in 0..MaxRev :
              Known(old, object, taken, i, [old.queue[i + 1].item EXCEPT !.rv = v])
        BY <1>1, <3>2, <4>1 DEF StreamCache, Chained
      <4>3. [old.queue[i + 1].item EXCEPT !.rv = v].res \in Res
        BY <1>4, <4>1, ItemVersion
      <4> QED
        BY <3>1, <4>1, <4>2, <4>3
    <3>3. ASSUME s.live, NEW q \in Res, Serves(t, q), cluster[q] # None, cluster[q].lab
          PROVE  Known(s, ob2, tk2, Len(s.queue), cluster[q])
      <4>1. Known(old, object, taken, Len(old.queue), cluster[q])
        BY <1>1, <1>3, <3>3 DEF StreamCache, Chained
      <4>2. Len(s.queue) = Len(old.queue) - 1 /\ Len(old.queue) \in 1..Len(old.queue)
        BY <1>6, <2>2
      <4> QED
        BY <1>5, <3>1, <3>3, <4>1, <4>2
    <3> QED
      BY <3>2, <3>3 DEF Chained
  <2> QED
    BY <1>3, <2>1, <2>2
<1>13. StreamCache(t, s, tk2, cluster, vs2, ob2)
  BY <1>10, <1>11, <1>12 DEF StreamCache
<1> QED
  BY <1>13 DEF s

(* The task an event is worked on: it has nothing at hand but what to do about *)
(* its object.                                                                 *)
LEMMA BusyCache ==
    ASSUME NEW t \in Tasks, NEW ops, NEW tk, NEW cl, NEW vs, NEW ob, NEW de,
           \A op \in ops : op.put # None =>
             /\ ob[MapKey(op.res)] # None
             /\ ob[MapKey(op.res)].sec[op.key] # None
             /\ de[MapKey(op.res)] = op.path
    PROVE  ListCache(t, [[Fresh EXCEPT !.via = "event"] EXCEPT !.pc = "file", !.ops = ops],
                     tk, cl, vs, ob, de)
<1> DEFINE next == [[Fresh EXCEPT !.via = "event"] EXCEPT !.pc = "file", !.ops = ops]
<1>1. /\ next.pages = {} /\ next.items = {} /\ next.stale = {} /\ next.ops = ops
      /\ next.pc = "file" /\ next.via = "event"
  BY DEF Fresh
<1> HIDE DEF next
<1>2. ListCache(t, next, tk, cl, vs, ob, de)
  BY <1>1 DEF ListCache, ListSweep, LeftOut, Unlisted, InPass
<1> QED
  BY <1>2 DEF next

(* The processing of an event. *)
LEMMA CacheEvent ==
    ASSUME TypeOK, ScopeInv, LocalInv, OrderInv, CacheInv, NEW t \in Tasks, HandleEvent(t)
    PROVE  CacheInv'
<1>1. task[t].pc = "watch" /\ UNCHANGED cluster
  BY DEF HandleEvent
<1>2. PICK d \in Delivery(t) :
         LET ev == d[1]
             local == [Fresh EXCEPT !.via = "event"]
             to == get_destination_folder(ev.item.ann)
         IN  /\ stream' = [stream EXCEPT ![t] = d[2]]
             /\ version' = Recorded(ev)
             /\ IF Skips(ev) THEN UNCHANGED <<task, object, dest, taken>>
                ELSE IF ev.gone THEN Forget(t, local, CachedItem(ev.item), to)
                ELSE Store(t, local, ev.item, to)
  BY DEF HandleEvent
<1> DEFINE ev == d[1]
           item == ev.item
           r == item.res
           m == MapKey(r)
           s == d[2]
           to == get_destination_folder(item.ann)
           local == [Fresh EXCEPT !.via = "event"]
<1>3. /\ ev \in Event /\ item \in Item /\ r \in Res /\ m \in MapKeys /\ item.rv \in Int
      /\ Serves(t, r) /\ InOrder(item, taken, cluster, rev)
  BY DeliveryType, DeliveryScope, DeliveryOrdered, MapKeyType, ApiAssumption
     DEF Event, Item, ScopeInv
<1>4. /\ StreamCache(t, stream[t], taken, cluster, version, object)
      /\ StreamOrdered(stream[t], taken, cluster, rev)
      /\ stream[t].queue \in Seq(Event)
      /\ EntryCache(r, taken, cluster, version, object)
      /\ taken[r] \in Int /\ taken[r] <= item.rv
      /\ version[m] # None => version[m] \in Int /\ version[m] <= taken[r]
  BY <1>3, CacheParts, OrderParts, ApiAssumption DEF TypeOK, EntryCache, InOrder
<1>5. stream[t].queue # <<>> => 1 \in DOMAIN stream[t].queue
  BY <1>4
<1>6. /\ ~ev.gone => Sound(t, item, cluster) /\ Skippable(item, version, object)
      /\ ev.gone => taken[r] < item.rv
  <2>1. \/ ~ev.gone /\ item \in stream[t].backlog
        \/ stream[t].queue # <<>> /\ ev = stream[t].queue[1]
    BY DeliveryCases
  <2> QED
    BY <1>4, <1>5, <2>1 DEF StreamCache, StreamOrdered
<1>7. /\ stream' = [stream EXCEPT ![t] = s]
      /\ version' = Recorded(ev)
  BY <1>2
<1>8. /\ \E x : version' = version \/ version' = [version EXCEPT ![m] = x]
      /\ ~ev.gone => version'[m] \in {item.rv, version[m]}
      /\ ev.gone => version'[m] \in {None, version[m]}
      /\ Skips(ev) => version[m] = item.rv /\ ~ev.gone /\ version' = [version EXCEPT ![m] = item.rv]
  BY <1>3, <1>7 DEF Recorded, Skips, TypeOK
<1>9. version'[m] # None => version'[m] \in Int /\ version'[m] <= item.rv
  BY <1>3, <1>4, <1>8
<1>10. CASE Skips(ev)
  <2>1. UNCHANGED <<task, object, dest, taken>>
    BY <1>2, <1>10
  <2>2. version[m] = item.rv /\ ~ev.gone /\ version' = version
    BY <1>3, <1>8, <1>10 DEF TypeOK
  <2>3. item.rv # None
    BY <1>3, NoneAssumption DEF Item
  <2>4. object[m] = CachedItem(item) /\ taken[r] = item.rv
    BY <1>3, <1>4, <1>6, <2>2, <2>3 DEF Skippable
  <2>5. version[m] # None => version[m] \in Int /\ version[m] <= item.rv
    BY <1>3, <2>2
  <2>6. StreamCache(t, s, taken, cluster, version, object)
    BY <2>4, <2>5, EventStream
  <2>7. ListCache(t, task[t], taken, cluster, version, object, dest)
    BY CacheParts
  <2>8. task' = [task EXCEPT ![t] = task[t]] /\ UNCHANGED maps
    BY <2>1, <2>2 DEF maps, TypeOK
  <2> QED
    BY <1>1, <1>7, <2>6, <2>7, <2>8, StepCache
<1>11. ASSUME NEW ops, NEW y,
              task' = [task EXCEPT ![t] = [local EXCEPT !.pc = "file", !.ops = ops]],
              object' = [object EXCEPT ![m] = y],
              dest' = dest \/ dest' = [dest EXCEPT ![m] = to],
              taken' = taken \/ taken' = [taken EXCEPT ![r] = item.rv],
              ev.gone \/ (y = CachedItem(item) /\ taken' = [taken EXCEPT ![r] = item.rv]),
              EntryCache(r, taken', cluster, version', object'),
              \A op \in ops : op.put # None =>
                /\ object'[MapKey(op.res)] # None
                /\ object'[MapKey(op.res)].sec[op.key] # None
                /\ dest'[MapKey(op.res)] = op.path
       PROVE  CacheInv'
  <2> HIDE DEF ev, item, r, m, s, to
  <2>1. /\ object'[m] = y
        /\ \A q \in Res : q # r =>
             Agree(q, taken, version, object, dest, taken', version', object', dest')
    <3>1. PICK x : version' = version \/ version' = [version EXCEPT ![m] = x]
      BY <1>8
    <3>2. PICK w : taken' = taken \/ taken' = [taken EXCEPT ![r] = w]
      BY <1>11
    <3>3. /\ version' = version \/ version' = [version EXCEPT ![MapKey(r)] = x]
          /\ object' = [object EXCEPT ![MapKey(r)] = y]
          /\ dest' = dest \/ dest' = [dest EXCEPT ![MapKey(r)] = to]
          /\ taken' = taken \/ taken' = [taken EXCEPT ![r] = w]
      BY <1>11, <3>1, <3>2 DEF m
    <3>4. r \in Res
      BY <1>3
    <3> QED
      BY <3>3, <3>4, OthersAgree DEF m
  <2>2. taken' = [taken EXCEPT ![r] = item.rv] => taken'[r] = item.rv
    BY <1>3 DEF TypeOK
  <2>3. ev.gone \/ (object'[m] = CachedItem(item) /\ taken'[r] = item.rv)
    BY <1>11, <2>1, <2>2
  <2>4. \A q \in Res : q # r =>
           /\ taken'[q] = taken[q] /\ object'[MapKey(q)] = object[MapKey(q)]
           /\ version'[MapKey(q)] = version[MapKey(q)]
    BY <2>1 DEF Agree
  <2>5. StreamCache(t, s, taken', cluster, version', object')
    BY <1>9, <2>3, <2>4, EventStream DEF ev, item, r, m, s
  <2> DEFINE next == [local EXCEPT !.pc = "file", !.ops = ops]
  <2>6. ListCache(t, next, taken', cluster, version', object', dest')
    BY <1>11, BusyCache
  <2>7. task' = [task EXCEPT ![t] = next]
    BY <1>11
  <2> HIDE DEF next
  <2> QED
    BY <1>1, <1>3, <1>7, <1>11, <2>1, <2>5, <2>6, <2>7, EntryStep
<1>12. CASE ~Skips(ev) /\ ev.gone
  <2> DEFINE ops == Removals(CachedItem(item), OldDest(MapKey(CachedItem(item).res), to))
  <2>1. CachedItem(item).res = r
    BY DEF CachedItem
  <2>2. /\ object' = [object EXCEPT ![m] = None]
        /\ task' = [task EXCEPT ![t] = [local EXCEPT !.pc = "file", !.ops = ops]]
        /\ UNCHANGED <<dest, taken>>
    BY <1>2, <1>12, <2>1 DEF Forget
  <2>3. \A op \in ops : op.put = None
    BY DEF Removals
  <2> HIDE DEF ev, item, r, m, s, to, local, ops
  <2>4. EntryCache(r, taken', cluster, version', object')
    <3>1. cluster[r] # None => cluster[r].rv # None /\ cluster[r].rv \in Int /\ item.rv <= cluster[r].rv
      BY <1>3, NoneAssumption, ApiAssumption DEF TypeOK, Item, InOrder, r
    <3>2. version'[m] # None => version'[m] \in Int /\ version'[m] < item.rv /\ version'[m] <= taken[r]
      BY <1>3, <1>4, <1>6, <1>8, <1>12
    <3>3. ~(cluster[r] # None /\ version'[m] = cluster[r].rv)
      BY <1>3, <3>1, <3>2
    <3> QED
      BY <2>2, <3>2, <3>3 DEF EntryCache, m
  <2> QED
    BY <1>11, <1>12, <2>2, <2>3, <2>4
<1>13. CASE ~Skips(ev) /\ ~ev.gone
  <2> DEFINE old == IF object[m] # None THEN object[m] ELSE CachedItem(item)
             from == OldDest(m, to)
             ops == Writes(item, to) \union Leftovers(old, CachedItem(item), from, to)
  <2>1. /\ object' = [object EXCEPT ![m] = CachedItem(item)] /\ dest' = [dest EXCEPT ![m] = to]
        /\ taken' = [taken EXCEPT ![r] = item.rv]
        /\ task' = [task EXCEPT ![t] = [local EXCEPT !.pc = "file", !.ops = ops]]
    BY <1>2, <1>13 DEF Store
  <2>2. object'[m] = CachedItem(item) /\ dest'[m] = to /\ taken'[r] = item.rv
    BY <1>3, <2>1 DEF TypeOK
  <2> HIDE DEF ev, to, local, old, from
  <2>3. EntryCache(r, taken', cluster, version', object')
    BY <1>3, <1>6, <1>8, <1>13, <2>2, StoreEntry
  <2>4. ASSUME NEW op \in ops, op.put # None
        PROVE  /\ object'[MapKey(op.res)] # None
               /\ object'[MapKey(op.res)].sec[op.key] # None
               /\ dest'[MapKey(op.res)] = op.path
    <3>1. /\ op.res = r /\ op.path = to
          /\ CachedItem(item) # None /\ CachedItem(item).sec[op.key] # None
      BY <1>3, <2>4, WritesCache
    <3> QED
      BY <2>2, <3>1
  <2> HIDE DEF ops
  <2> QED
    BY <1>11, <2>1, <2>3, <2>4
<1> QED
  BY <1>10, <1>12, <1>13

-----------------------------------------------------------------------------
(* Users, main and the theorem *)

(* What a user's step tells the watchers: the object as it now is, if it has   *)
(* the label, its last contents, if it had it, and nothing otherwise.          *)
LEMMA UserTold ==
    ASSUME TypeOK, ClusterNamed, User
    PROVE  \E r \in Res : \E new \in Item \union {None} :
             /\ cluster' = [cluster EXCEPT ![r] = new] /\ rev + 1 \in 0..MaxRev
             /\ new # None => new.res = r /\ new.rv = rev + 1
             /\ \/ UNCHANGED stream /\ ~(new # None /\ new.lab)
                \/ /\ new # None /\ new.lab
                   /\ Broadcast(r, [gone |-> FALSE, item |-> new])
                \/ /\ ~(new # None /\ new.lab) /\ cluster[r] # None /\ cluster[r].lab
                   /\ Broadcast(r, [gone |-> TRUE, item |-> [cluster[r] EXCEPT !.rv = rev + 1]])
<1>1. PICK r \in Res : Apply(r) \/ Delete(r)
  BY DEF User
<1>2. rev + 1 \in 0..MaxRev
  BY <1>1, ApiAssumption DEF Apply, Delete, TypeOK
<1>3. CASE Apply(r)
  <2>1. PICK s \in Shapes[r] :
          /\ cluster' = [cluster EXCEPT ![r] = MakeItem(r, rev + 1, s)]
          /\ IF s.lab THEN Broadcast(r, [gone |-> FALSE, item |-> MakeItem(r, rev + 1, s)])
             ELSE IF cluster[r] # None /\ cluster[r].lab
             THEN Broadcast(r, [gone |-> TRUE, item |-> [cluster[r] EXCEPT !.rv = rev + 1]])
             ELSE UNCHANGED stream
    BY <1>3 DEF Apply
  <2> DEFINE new == MakeItem(r, rev + 1, s)
  <2>2. new \in Item /\ new.res = r /\ new.rv = rev + 1 /\ new.lab = s.lab
    BY <1>2, ApiAssumption DEF MakeItem, Item, Shape
  <2>3. new # None
    BY <2>2, ApiAssumption
  <2>4. /\ cluster' = [cluster EXCEPT ![r] = new]
        /\ \/ UNCHANGED stream /\ ~(new # None /\ new.lab)
           \/ /\ new # None /\ new.lab
              /\ Broadcast(r, [gone |-> FALSE, item |-> new])
           \/ /\ ~(new # None /\ new.lab) /\ cluster[r] # None /\ cluster[r].lab
              /\ Broadcast(r, [gone |-> TRUE, item |-> [cluster[r] EXCEPT !.rv = rev + 1]])
    BY <2>1, <2>2, <2>3
  <2> HIDE DEF new
  <2> QED
    BY <1>2, <2>2, <2>4
<1>4. CASE Delete(r)
  <2>1. /\ cluster' = [cluster EXCEPT ![r] = None] /\ cluster[r] # None
        /\ IF cluster[r].lab
           THEN Broadcast(r, [gone |-> TRUE, item |-> [cluster[r] EXCEPT !.rv = rev + 1]])
           ELSE UNCHANGED stream
    BY <1>4 DEF Delete
  <2> QED
    BY <1>2, <2>1
<1> QED
  BY <1>1, <1>3, <1>4

(* What a stream makes known, up to an event, is not touched by later events.  *)
LEMMA KnownPrefix ==
    ASSUME NEW s, NEW d, NEW ob, NEW tk, NEW n \in Nat, NEW x, d.backlog = s.backlog,
           \A i \in 1..n : d.queue[i] = s.queue[i],
           Known(s, ob, tk, n, x)
    PROVE  Known(d, ob, tk, n, x)
<1>1. CASE \E j \in 1..n : /\ s.queue[j] = [gone |-> FALSE, item |-> x]
                           /\ \A i \in (j + 1)..n : s.queue[i].item.res # x.res
  <2>1. PICK j \in 1..n : /\ s.queue[j] = [gone |-> FALSE, item |-> x]
                         /\ \A i \in (j + 1)..n : s.queue[i].item.res # x.res
    BY <1>1
  <2>2. \A i \in (j + 1)..n : i \in 1..n
    OBVIOUS
  <2>3. d.queue[j] = [gone |-> FALSE, item |-> x] /\ \A i \in (j + 1)..n : d.queue[i].item.res # x.res
    BY <2>1, <2>2
  <2> QED
    BY <2>3 DEF Known
<1>2. CASE \A i \in 1..n : s.queue[i].item.res # x.res
  <2>1. \A i \in 1..n : d.queue[i].item.res # x.res
    BY <1>2
  <2> QED
    BY <1>1, <1>2, <2>1 DEF Known
<1> QED
  BY <1>1, <1>2 DEF Known

(* The event of one object leaves what is known of the others. *)
LEMMA KnownAppend ==
    ASSUME NEW s, NEW ob, NEW tk, NEW n \in Nat, NEW x,
           s.queue[n + 1].item.res # x.res, Known(s, ob, tk, n, x)
    PROVE  Known(s, ob, tk, n + 1, x)
<1>1. 1..(n + 1) = 1..n \union {n + 1}
  OBVIOUS
<1>2. \A j \in 1..n : (j + 1)..(n + 1) = (j + 1)..n \union {n + 1}
  OBVIOUS
<1> QED
  BY <1>1, <1>2 DEF Known

(* The stream of a watcher that is told of a change. *)
LEMMA TellCache ==
    ASSUME TypeOK, ClusterNamed, CacheInv, NEW t \in Tasks, stream[t].live,
           NEW r \in Res, Serves(t, r), NEW new \in Item \union {None},
           new # None => new.res = r,
           NEW gone \in BOOLEAN, NEW item \in Item, item.res = r,
           gone => /\ ~(new # None /\ new.lab) /\ cluster[r] # None /\ cluster[r].lab
                   /\ \E v : item = [cluster[r] EXCEPT !.rv = v],
           ~gone => item = new
    PROVE  LET s == [stream[t] EXCEPT !.queue = Append(@, [gone |-> gone, item |-> item])]
           IN  Chained(t, s, taken, [cluster EXCEPT ![r] = new], object)
<1> DEFINE old == stream[t]
           q == old.queue
           ev == [gone |-> gone, item |-> item]
           s == [old EXCEPT !.queue = Append(@, ev)]
           cl == [cluster EXCEPT ![r] = new]
<1>1. /\ old \in Stream /\ q \in Seq(Event) /\ Len(q) \in Nat /\ DOMAIN q = 1..Len(q)
      /\ Chained(t, old, taken, cluster, object)
  BY CacheParts, StreamItems DEF TypeOK, Stream, StreamCache
<1>2. s.backlog = old.backlog /\ s.queue = Append(q, ev) /\ s.live
  BY <1>1 DEF Stream
<1>3. ev \in Event /\ ev.gone = gone /\ ev.item = item
  BY DEF Event
<1>4. /\ DOMAIN s.queue = 1..(Len(q) + 1) /\ Len(s.queue) = Len(q) + 1
      /\ \A i \in 1..Len(q) : s.queue[i] = q[i]
      /\ s.queue[Len(q) + 1] = ev
  BY <1>1, <1>2, <1>3
<1>5. \A p \in Res : cl[p] = IF p = r THEN new ELSE cluster[p]
  BY DEF TypeOK
<1> HIDE DEF old, q, ev, s, cl
<1>6. \A n \in 0..Len(q) : \A x : Known(old, object, taken, n, x) => Known(s, object, taken, n, x)
  <2> SUFFICES ASSUME NEW n \in 0..Len(q), NEW x, Known(old, object, taken, n, x)
               PROVE  Known(s, object, taken, n, x)
    OBVIOUS
  <2>1. n \in Nat /\ \A i \in 1..n : i \in 1..Len(q)
    BY <1>1
  <2>2. \A i \in 1..n : s.queue[i] = old.queue[i]
    BY <1>4, <2>1 DEF q
  <2> QED
    BY <1>2, <2>1, <2>2, KnownPrefix
<1>7. ASSUME NEW i \in DOMAIN s.queue, s.queue[i].gone
      PROVE  \E v \in 0..MaxRev : Known(s, object, taken, i - 1, [s.queue[i].item EXCEPT !.rv = v])
  <2>1. CASE i \in 1..Len(q)
    <3>1. s.queue[i] = q[i] /\ i - 1 \in 0..Len(q)
      BY <1>1, <1>4, <2>1
    <3>2. PICK v \in 0..MaxRev : Known(old, object, taken, i - 1, [q[i].item EXCEPT !.rv = v])
      BY <1>1, <1>7, <2>1, <3>1 DEF Chained, q
    <3> QED
      BY <1>6, <3>1, <3>2
  <2>2. CASE i = Len(q) + 1
    <3>1. s.queue[i] = ev /\ i - 1 = Len(q) /\ Len(q) \in 0..Len(q) /\ gone
      BY <1>1, <1>3, <1>4, <1>7, <2>2
    <3>2. Known(old, object, taken, Len(q), cluster[r])
      BY <1>1, <3>1 DEF Chained, old, q
    <3>3. cluster[r] \in Item /\ cluster[r].rv \in 0..MaxRev
      BY <3>1 DEF TypeOK, Item
    <3>4. [item EXCEPT !.rv = cluster[r].rv] = cluster[r]
      BY <3>1, <3>3 DEF Item
    <3>5. Known(s, object, taken, i - 1, [s.queue[i].item EXCEPT !.rv = cluster[r].rv])
      BY <1>3, <1>6, <3>1, <3>2, <3>4
    <3> QED
      BY <3>3, <3>5
  <2>3. i \in 1..Len(q) \/ i = Len(q) + 1
    BY <1>1, <1>4
  <2> QED
    BY <2>1, <2>2, <2>3
<1>8. ASSUME NEW p \in Res, Serves(t, p), cl[p] # None, cl[p].lab
      PROVE  Known(s, object, taken, Len(s.queue), cl[p])
  <2>1. CASE p = r
    <3>1. ~gone /\ ev = [gone |-> FALSE, item |-> cl[p]]
      BY <1>5, <1>8, <2>1 DEF ev
    <3>2. Len(q) + 1 \in 1..(Len(q) + 1) /\ ((Len(q) + 1) + 1)..(Len(q) + 1) = {}
      BY <1>1
    <3> QED
      BY <1>4, <3>1, <3>2 DEF Known
  <2>2. CASE p # r
    <3>1. cl[p] = cluster[p] /\ cluster[p].res = p
      BY <1>5, <1>8, <2>2 DEF ClusterNamed
    <3>2. Known(old, object, taken, Len(q), cl[p])
      BY <1>1, <1>8, <3>1 DEF Chained, old, q
    <3>3. Len(q) \in 0..Len(q) /\ s.queue[Len(q) + 1].item.res # cl[p].res
      BY <1>1, <1>3, <1>4, <2>2, <3>1
    <3> QED
      BY <1>1, <1>4, <1>6, <3>2, <3>3, KnownAppend
  <2> QED
    BY <2>1, <2>2
<1>9. Chained(t, s, taken, cl, object)
  BY <1>7, <1>8 DEF Chained
<1> QED
  BY <1>9 DEF s, cl, ev, old

(* A user gives an object a version newer than all that are known of it. *)
LEMMA CacheUser ==
    ASSUME TypeOK, ScopeInv, PhaseInv, OrderInv, CacheInv, User
    PROVE  CacheInv'
<1>1. PICK r \in Res, new \in Item \union {None} :
             /\ cluster' = [cluster EXCEPT ![r] = new] /\ rev + 1 \in 0..MaxRev
             /\ new # None => new.res = r /\ new.rv = rev + 1
             /\ \/ UNCHANGED stream /\ ~(new # None /\ new.lab)
                \/ /\ new # None /\ new.lab
                   /\ Broadcast(r, [gone |-> FALSE, item |-> new])
                \/ /\ ~(new # None /\ new.lab) /\ cluster[r] # None /\ cluster[r].lab
                   /\ Broadcast(r, [gone |-> TRUE, item |-> [cluster[r] EXCEPT !.rv = rev + 1]])
  BY UserTold DEF ScopeInv
<1> DEFINE cl == [cluster EXCEPT ![r] = new]
<1>2. /\ cluster' = cl /\ \A p \in Res : cl[p] = IF p = r THEN new ELSE cluster[p]
      /\ \A p \in Res : cluster[p] # None => cluster[p].res = p
      /\ ClusterNamed
  BY <1>1 DEF TypeOK, ScopeInv, ClusterNamed
<1>3. /\ UNCHANGED <<task, taken, version, object, dest>> /\ rev \in Nat
      /\ rev + 1 # None
  BY <1>1, NoneAssumption, ApiAssumption DEF User, maps, TypeOK
<1>4. /\ \A p \in Res : EntryCache(p, taken, cluster, version, object)
      /\ \A t \in Tasks : /\ ListCache(t, task[t], taken, cluster, version, object, dest)
                          /\ StreamCache(t, stream[t], taken, cluster, version, object)
                          /\ ListOrdered(task[t], taken, cluster, rev)
                          /\ StreamOrdered(stream[t], taken, cluster, rev)
                          /\ task[t] \in Task /\ stream[t] \in Stream
      /\ \A p \in Res : taken[p] \in Int /\ taken[p] <= rev
  BY CacheParts, OrderParts, ApiAssumption DEF TypeOK, Stream, TakenOrdered
<1> HIDE DEF cl
<1>5. \A t \in Tasks : \A it \in Item : it.rv <= rev /\ Sound(t, it, cluster) => Sound(t, it, cl)
  <2>1. \A it \in Item : it.res \in Res /\ it.rv \in Int
    BY ApiAssumption DEF Item
  <2> QED
    BY <1>1, <1>2, <1>3, <2>1 DEF Sound
<1>6. version[MapKey(r)] # rev + 1
  <2>1. version[MapKey(r)] # None => version[MapKey(r)] \in Int
    BY MapKeyType, ApiAssumption DEF TypeOK
  <2> QED
    BY <1>3, <1>4, <2>1 DEF EntryCache
<1>7. \A p \in Res : EntryCache(p, taken, cl, version, object)
  BY <1>1, <1>2, <1>4, <1>6 DEF EntryCache
<1>8. ASSUME NEW t \in Tasks
      PROVE  ListCache(t, task[t], taken, cl, version, object, dest)
  <2>1. \A it \in task[t].pages \union task[t].items : it \in Item /\ it.rv <= rev
    BY <1>4 DEF Task, ListOrdered, InOrder
  <2>2. \A it \in task[t].pages \union task[t].items : Sound(t, it, cl) /\ Skippable(it, version, object)
    BY <1>4, <1>5, <2>1 DEF ListCache
  <2>3. LeftOut(t, task[t], taken, cl)
    <3> SUFFICES ASSUME NEW p \in Res, Serves(t, p), Unlisted(task[t], p), cl[p] # None,
                        WantedBy(t, cl[p])
                 PROVE  taken[p] < cl[p].rv
      BY DEF LeftOut
    <3>1. CASE p = r
      BY <1>1, <1>2, <1>3, <1>4, <3>1
    <3>2. CASE p # r
      BY <1>2, <1>4, <3>2 DEF ListCache, ListSweep, LeftOut
    <3> QED
      BY <3>1, <3>2
  <2>4. ListSweep(t, task[t], taken, cl, object)
    BY <1>4, <2>3 DEF ListCache, ListSweep
  <2> QED
    BY <1>4, <2>2, <2>4 DEF ListCache
<1>9. ASSUME NEW t \in Tasks, NEW s, s.backlog = stream[t].backlog,
             \A i \in DOMAIN s.queue : \/ i \in DOMAIN stream[t].queue /\ s.queue[i] = stream[t].queue[i]
                                       \/ s.queue[i].gone
                                       \/ /\ s.queue[i].item = new /\ new # None
                                          /\ WantedBy(t, new),
             Chained(t, s, taken, cl, object)
      PROVE  StreamCache(t, s, taken, cl, version, object)
  <2>1. \A it \in stream[t].backlog : it \in Item /\ it.rv <= rev
    BY <1>4, StreamItems DEF StreamOrdered, InOrder
  <2>2. \A i \in DOMAIN stream[t].queue : stream[t].queue[i].item \in Item
                                          /\ stream[t].queue[i].item.rv <= rev
    BY <1>4, StreamItems DEF StreamOrdered, InOrder
  <2>3. \A it \in s.backlog : Sound(t, it, cl) /\ Skippable(it, version, object)
    BY <1>4, <1>5, <1>9, <2>1 DEF StreamCache
  <2>4. new # None /\ WantedBy(t, new) => Sound(t, new, cl) /\ Skippable(new, version, object)
    BY <1>1, <1>2, <1>6 DEF Sound, Skippable
  <2>5. ASSUME NEW i \in DOMAIN s.queue, ~s.queue[i].gone
        PROVE  Sound(t, s.queue[i].item, cl) /\ Skippable(s.queue[i].item, version, object)
    <3>1. CASE i \in DOMAIN stream[t].queue /\ s.queue[i] = stream[t].queue[i]
      BY <1>4, <1>5, <2>2, <2>5, <3>1 DEF StreamCache
    <3>2. CASE s.queue[i].item = new /\ new # None /\ WantedBy(t, new)
      BY <2>4, <3>2
    <3> QED
      BY <1>9, <2>5, <3>1, <3>2
  <2> QED
    BY <1>9, <2>3, <2>5 DEF StreamCache
<1>10. ASSUME NEW t \in Tasks, stream'[t] = stream[t],
              stream[t].live /\ Serves(t, r) => ~(new # None /\ new.lab)
       PROVE  StreamCache(t, stream'[t], taken, cl, version, object)
  <2> DEFINE s == stream[t]
  <2>1. Chained(t, s, taken, cluster, object)
    BY <1>4 DEF StreamCache
  <2>2. Chained(t, s, taken, cl, object)
    BY <1>2, <1>10, <2>1 DEF Chained
  <2> QED
    BY <1>9, <1>10, <2>2
<1>11. ASSUME NEW t \in Tasks, stream[t].live, Serves(t, r), NEW gone \in BOOLEAN, NEW item \in Item,
              item.res = r,
              gone => /\ ~(new # None /\ new.lab) /\ cluster[r] # None /\ cluster[r].lab
                      /\ \E v : item = [cluster[r] EXCEPT !.rv = v],
              ~gone => item = new /\ new # None /\ new.lab,
              stream'[t] = [stream[t] EXCEPT !.queue = Append(@, [gone |-> gone, item |-> item])]
       PROVE  StreamCache(t, stream'[t], taken, cl, version, object)
  <2> DEFINE ev == [gone |-> gone, item |-> item]
             q == stream[t].queue
             s == [stream[t] EXCEPT !.queue = Append(@, ev)]
  <2>1. Chained(t, s, taken, cl, object)
    BY <1>1, <1>2, <1>11, TellCache DEF cl
  <2>2. s.backlog = stream[t].backlog /\ s.queue = Append(q, ev) /\ q \in Seq(Event)
    BY <1>4, StreamItems DEF Stream
  <2>3. ev \in Event /\ ev.gone = gone /\ ev.item = item
    BY <1>11 DEF Event
  <2>4. ~ByName(t)
    <3>1. ~SleepMode(t)
      BY <1>11 DEF PhaseInv, NoStream
    <3> QED
      BY <3>1, NamedSleeps
  <2>5. ~gone => s.queue[Len(q) + 1].item = new /\ new # None /\ WantedBy(t, new)
    BY <1>11, <2>2, <2>3, <2>4 DEF WantedBy
  <2>6. \A i \in DOMAIN s.queue : \/ i \in DOMAIN q /\ s.queue[i] = q[i]
                                  \/ i = Len(q) + 1 /\ s.queue[i] = ev
    BY <2>2, <2>3
  <2>7. \A i \in DOMAIN s.queue : \/ i \in DOMAIN q /\ s.queue[i] = q[i]
                                  \/ s.queue[i].gone
                                  \/ s.queue[i].item = new /\ new # None /\ WantedBy(t, new)
    BY <1>11, <2>3, <2>5, <2>6
  <2> HIDE DEF s, ev
  <2>8. StreamCache(t, s, taken, cl, version, object)
    BY <1>9, <2>1, <2>2, <2>7
  <2> QED
    BY <1>11, <2>8 DEF s, ev
<1>12. ASSUME NEW t \in Tasks PROVE StreamCache(t, stream'[t], taken, cl, version, object)
  <2>1. CASE UNCHANGED stream /\ ~(new # None /\ new.lab)
    BY <1>10, <2>1
  <2>2. CASE new # None /\ new.lab /\ Broadcast(r, [gone |-> FALSE, item |-> new])
    <3>1. new \in Item /\ new.res = r /\ FALSE \in BOOLEAN
      BY <1>1, <2>2
    <3>2. stream'[t] = IF stream[t].live /\ Serves(t, r)
                       THEN [stream[t] EXCEPT !.queue = Append(@, [gone |-> FALSE, item |-> new])]
                       ELSE stream[t]
      BY <2>2 DEF Broadcast
    <3>3. CASE stream[t].live /\ Serves(t, r)
      BY <1>11, <2>2, <3>1, <3>2, <3>3
    <3>4. CASE ~(stream[t].live /\ Serves(t, r))
      BY <1>10, <3>2, <3>4
    <3> QED
      BY <3>3, <3>4
  <2>3. CASE /\ ~(new # None /\ new.lab) /\ cluster[r] # None /\ cluster[r].lab
             /\ Broadcast(r, [gone |-> TRUE, item |-> [cluster[r] EXCEPT !.rv = rev + 1]])
    <3> DEFINE item == [cluster[r] EXCEPT !.rv = rev + 1]
    <3>1. item \in Item /\ item.res = r /\ TRUE \in BOOLEAN /\ \E v : item = [cluster[r] EXCEPT !.rv = v]
      <4>1. cluster[r] \in Item /\ cluster[r].res = r
        BY <1>2, <2>3 DEF TypeOK
      <4> QED
        BY <1>1, <4>1 DEF Item
    <3>2. stream'[t] = IF stream[t].live /\ Serves(t, r)
                       THEN [stream[t] EXCEPT !.queue = Append(@, [gone |-> TRUE, item |-> item])]
                       ELSE stream[t]
      BY <2>3 DEF Broadcast
    <3> HIDE DEF item
    <3>3. CASE stream[t].live /\ Serves(t, r)
      BY <1>11, <2>3, <3>1, <3>2, <3>3
    <3>4. CASE ~(stream[t].live /\ Serves(t, r))
      BY <1>10, <2>3, <3>2, <3>4
    <3> QED
      BY <3>3, <3>4
  <2> QED
    BY <1>1, <2>1, <2>2, <2>3
<1>13. /\ \A p \in Res : EntryCache(p, taken', cluster', version', object')
       /\ \A t \in Tasks : /\ ListCache(t, task'[t], taken', cluster', version', object', dest')
                           /\ StreamCache(t, stream'[t], taken', cluster', version', object')
  BY <1>2, <1>3, <1>7, <1>8, <1>12
<1> QED
  BY <1>13, CacheNextParts

(* The steps of main, the end of the process and its restart. *)
LEMMA CacheMain ==
    ASSUME TypeOK, CacheInv, EndBoot \/ Monitor \/ Crash \/ Restart
    PROVE  CacheInv'
<1>1. CASE EndBoot /\ Mode # "LIST"
  <2> DEFINE next == [Fresh EXCEPT !.pc = "loop"]
  <2>1. /\ \A t \in Tasks : task'[t] = next
        /\ UNCHANGED <<stream, cluster, taken, version, object, dest>>
    BY <1>1 DEF EndBoot, maps
  <2>2. /\ next.pages = {} /\ next.items = {} /\ next.stale = {} /\ next.ops = {} /\ next.pc = "loop"
    BY DEF Fresh
  <2> HIDE DEF next
  <2>3. \A t \in Tasks : ListCache(t, next, taken, cluster, version, object, dest)
    BY <2>2, IdleCache
  <2>4. /\ \A r \in Res : EntryCache(r, taken, cluster, version, object)
        /\ \A t \in Tasks : StreamCache(t, stream[t], taken, cluster, version, object)
    BY CacheParts
  <2>5. /\ \A r \in Res : EntryCache(r, taken', cluster', version', object')
        /\ \A t \in Tasks : /\ ListCache(t, task'[t], taken', cluster', version', object', dest')
                            /\ StreamCache(t, stream'[t], taken', cluster', version', object')
    BY <2>1, <2>3, <2>4
  <2> QED
    BY <2>5, CacheNextParts
<1>2. CASE Restart
  BY <1>2, StillCache DEF Restart
<1>3. CASE (EndBoot /\ Mode = "LIST") \/ Monitor \/ Crash
  BY <1>3, ExitCache DEF EndBoot, Monitor, Crash
<1> QED
  BY <1>1, <1>2, <1>3

(* Initially the maps are empty. *)
LEMMA CacheInit == Init /\ TypeOK => CacheInv
<1> SUFFICES ASSUME Init, TypeOK PROVE CacheInv
  OBVIOUS
<1>1. /\ \A t \in Tasks : task[t] = Fresh /\ stream[t] = NoStream
      /\ \A m \in MapKeys : version[m] = None
  BY DEF Init, ApiInit
<1>2. \A r \in Res : cluster[r] # None => cluster[r].rv # None
  BY NoneAssumption DEF TypeOK, Item
<1>3. \A r \in Res : EntryCache(r, taken, cluster, version, object)
  BY <1>1, <1>2, MapKeyType DEF EntryCache
<1>4. \A t \in Tasks : /\ ListCache(t, task[t], taken, cluster, version, object, dest)
                       /\ StreamCache(t, stream[t], taken, cluster, version, object)
  BY <1>1, RestingCache, NoStreamCache
<1> QED
  BY <1>3, <1>4, CacheParts

(* Every step keeps the maps in line with what was stored. *)
LEMMA CacheNext ==
    TypeOK /\ TypeOK' /\ ScopeInv /\ LocalInv /\ PhaseInv /\ OrderInv /\ CacheInv /\ [Next]_vars
      => CacheInv'
<1> SUFFICES ASSUME TypeOK, TypeOK', ScopeInv, LocalInv, PhaseInv, OrderInv, CacheInv, [Next]_vars
             PROVE  CacheInv'
  OBVIOUS
<1>1. CASE UNCHANGED vars
  BY <1>1, StillCache DEF vars
<1>2. ASSUME NEW t \in Tasks, Step(t) PROVE CacheInv'
  BY <1>2, CacheList, CacheListItem, CacheRemoveStale, CacheFile, CacheHook, CacheWatch, CacheEvent
     DEF Step
<1>3. ASSUME NEW t \in Tasks, Fails(t) \/ Close(t) PROVE CacheInv'
  BY <1>3, CacheHook, CacheWatch DEF Fails
<1>4. CASE User
  BY <1>4, CacheUser
<1>5. CASE EndBoot \/ Monitor \/ Crash \/ Restart
  BY <1>5, CacheMain
<1> QED
  BY <1>1, <1>2, <1>3, <1>4, <1>5 DEF Next

(* In every reachable state the maps say what was stored, what a stream still  *)
(* tells continues from there, and a sweep removes what is remembered.         *)
THEOREM CacheCorrect == Spec => []CacheInv
<1>1. Init => TypeOK /\ CacheInv
  BY TypeInit, CacheInit
<1> QED
  BY <1>1, TypeNext, ScopeInit, ScopeNext, LocalInit, LocalNext, PhaseInit, PhaseNext,
     OrderInit, OrderNext, CacheNext, PTL DEF Spec
=============================================================================

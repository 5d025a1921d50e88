---------------------------- MODULE CacheManager ----------------------------
(***************************************************************************)
(* ndk::cache_manager (ndk/cache_manager.h, ndk/cache_manager.cpp) with    *)
(* the reference counts of ndk/cache_object.h and the order kept by        *)
(* ndk/cache_deque.h.                                                      *)
(*                                                                         *)
(* Every public method holds cache_mutex_ from its first line to its last, *)
(* so each is one action; the callers' threads interleave between methods, *)
(* holding references in the meantime.  An object is its address, which    *)
(* may be handed out again once the object is destroyed.                   *)
(***************************************************************************)
EXTENDS Integers, SequencesExt

CONSTANTS
    Keys,
    Objects,          \* addresses of cache objects
    Sizes,            \* sizes offered to put
    cobj_min_size,
    cobj_max_size,
    high_water_mark,
    low_water_mark,
    MaxRefs           \* bound: references callers hold to one object

ASSUME CacheManagerAssumption ==
    /\ Sizes \subseteq Nat
    /\ cobj_min_size \in Nat /\ cobj_max_size \in Nat
    /\ low_water_mark \in Nat /\ high_water_mark \in Nat
    /\ low_water_mark <= high_water_mark
    /\ MaxRefs \in Nat \ {0}

VARIABLES
    cache_map,        \* cache_map_: the hot objects by key
    queue,            \* cache_priority_queue_: their keys, least recently used first
    pending_list,     \* pending_list_: evicted objects that were referenced
    live,             \* objects created and not destroyed
    size,             \* size[o]: size_
    refcount,         \* refcount[o]: refcount_
    water_mark        \* water_mark_

objVars == <<size, refcount>>
vars == <<cache_map, queue, pending_list, live, objVars, water_mark>>

PartialMaps == UNION {[K -> Objects] : K \in SUBSET Keys}
Values(f) == {f[k] : k \in DOMAIN f}
Without(f, K) == [k \in DOMAIN f \ K |-> f[k]]
SizeOf(S) == MapThenSumSet(LAMBDA o : size[o], S)

\* Type correctness; a water mark below zero would be a wrapped unsigned long.
TypeOK ==
    /\ cache_map \in PartialMaps
    /\ queue \in Seq(Keys)
    /\ pending_list \in PartialMaps
    /\ live \subseteq Objects
    /\ size \in [Objects -> Nat]
    /\ refcount \in [Objects -> Nat]
    /\ water_mark \in Nat

Init ==
    /\ cache_map = <<>>
    /\ queue = <<>>
    /\ pending_list = <<>>
    /\ live = {}
    /\ size = [o \in Objects |-> 0]
    /\ refcount = [o \in Objects |-> 0]
    /\ water_mark = 0

----------------------------------------------------------------------------
(* Flushing.  These take and give the cache as a value, since make_cobj    *)
(* flushes several times in one call.                                      *)

Cache == [map |-> cache_map, queue |-> queue, pending |-> pending_list,
          live |-> live, water |-> water_mark]

Becomes(c) ==
    \E v \in {c} :
        /\ cache_map' = v.map
        /\ queue' = v.queue
        /\ pending_list' = v.pending
        /\ live' = v.live
        /\ water_mark' = v.water

\* Mutant: the objects are destroyed but their size stays accounted.
flush_pending_objs_uncounted(c) ==
    LET free == {k \in DOMAIN c.pending : refcount[c.pending[k]] = 0}
    IN  [c EXCEPT !.pending = Without(@, free), !.live = @ \ {c.pending[k] : k \in free}]

\* Mutant: the reference count is not looked at.
flush_pending_objs_referenced(c) ==
    LET objs == Values(c.pending)
    IN  [c EXCEPT !.pending = <<>>, !.live = @ \ objs, !.water = @ - SizeOf(objs)]

\* flush_pending_objs: every pending object without references is destroyed.
flush_pending_objs(c) ==
    LET free == {k \in DOMAIN c.pending : refcount[c.pending[k]] = 0}
        objs == {c.pending[k] : k \in free}
    IN  [c EXCEPT !.pending = Without(@, free), !.live = @ \ objs, !.water = @ - SizeOf(objs)]

\* What it returns: 0 if there was anything pending and that was enough.
PendingSufficed(c) == DOMAIN c.pending # {} /\ flush_pending_objs(c).water <= low_water_mark

\* Mutant: an evicted object stays in the map.
Evict_keeps_map(c, n) ==
    LET keys == {c.queue[i] : i \in 1 .. n}
        objs == {c.map[k] : k \in {j \in keys : refcount[c.map[j]] = 0}}
        busy == {k \in keys : refcount[c.map[k]] > 0}
    IN  [c EXCEPT !.queue = SubSeq(@, n + 1, Len(@)),
                  !.pending = [k \in DOMAIN @ \cup busy |-> IF k \in DOMAIN @ THEN @[k] ELSE c.map[k]],
                  !.live = @ \ objs,
                  !.water = @ - SizeOf(objs)]

\* remove and drop_i for the first n keys of the queue: an object that nobody
\* references is destroyed; another one becomes pending under its key, unless
\* that key is pending already (std::map::insert keeps what is there).
Evict(c, n) ==
    LET keys == {c.queue[i] : i \in 1 .. n}
        objs == {c.map[k] : k \in {j \in keys : refcount[c.map[j]] = 0}}
        busy == {k \in keys : refcount[c.map[k]] > 0}
    IN  [c EXCEPT !.map = Without(@, keys),
                  !.queue = SubSeq(@, n + 1, Len(@)),
                  !.pending = [k \in DOMAIN @ \cup busy |-> IF k \in DOMAIN @ THEN @[k] ELSE c.map[k]],
                  !.live = @ \ objs,
                  !.water = @ - SizeOf(objs)]

\* flush_i: the pending objects and, if those do not do, the first of the queue.
flush_i(c) ==
    LET swept == flush_pending_objs(c)
    IN  IF PendingSufficed(c) \/ swept.queue = <<>> THEN swept ELSE Evict(swept, 1)

\* The loop of make_cobj: flush_i until the low water mark is reached, or
\* until it fails because the queue is empty.  Only its first round can find
\* pending objects to destroy, the others take the queue's head each.
Rounds(c) == {n \in 1 .. Len(c.queue) : Evict(c, n).water <= low_water_mark}

NeedsRoom(s) == s + water_mark > high_water_mark

CanMakeRoom == PendingSufficed(Cache) \/ Rounds(flush_pending_objs(Cache)) # {}

\* Mutant: one object is evicted, whatever that frees.
MakeRoom_once ==
    LET swept == flush_pending_objs(Cache)
    IN  IF PendingSufficed(Cache) THEN swept
        ELSE IF swept.queue = <<>> THEN swept ELSE Evict(swept, 1)

MakeRoom ==
    LET swept == flush_pending_objs(Cache)
    IN  IF PendingSufficed(Cache) THEN swept
        ELSE Evict(swept, IF Rounds(swept) # {} THEN Min(Rounds(swept)) ELSE Len(swept.queue))

----------------------------------------------------------------------------
(* Operations.                                                             *)

Acquire(o) ==
    /\ refcount[o] < MaxRefs
    /\ refcount' = [refcount EXCEPT ![o] = @ + 1]

\* get_i of a hot object: adjust moves it to the end of the queue.
get(k) ==
    /\ k \in DOMAIN cache_map
    /\ Acquire(cache_map[k])
    /\ queue' = Append(RemoveFirst(queue, k), k)
    /\ UNCHANGED <<cache_map, pending_list, live, size, water_mark>>

\* get_i of a pending object; it stays pending.
get_pending_obj(k) ==
    /\ k \notin DOMAIN cache_map
    /\ k \in DOMAIN pending_list
    /\ Acquire(pending_list[k])
    /\ UNCHANGED <<cache_map, queue, pending_list, live, size, water_mark>>

\* A caller gives back a reference it holds.
release(o) ==
    /\ refcount[o] > 0
    /\ refcount' = [refcount EXCEPT ![o] = @ - 1]
    /\ UNCHANGED <<cache_map, queue, pending_list, live, size, water_mark>>

\* put_i of an object of a size make_cobj accepts.  (A null pointer or another
\* size returns -1 and changes nothing.)
Cacheable(s) == s >= cobj_min_size /\ s <= cobj_max_size

\* No room can be made: -1, with everything flushed that could be.
put_no_room(s) ==
    /\ Cacheable(s)
    /\ NeedsRoom(s) /\ ~CanMakeRoom
    /\ Becomes(MakeRoom)
    /\ UNCHANGED objVars

Roomy(s) == IF NeedsRoom(s) THEN MakeRoom ELSE Cache

\* The key is in the map: the new object is destroyed again, -1.
put_exists(k, s) ==
    /\ Cacheable(s)
    /\ NeedsRoom(s) => CanMakeRoom
    /\ \E c \in {Roomy(s)} : k \in DOMAIN c.map /\ Becomes(c)
    /\ UNCHANGED objVars

\* The new object o enters map and queue, and the caller has a reference.
put(k, s, o) ==
    /\ Cacheable(s)
    /\ NeedsRoom(s) => CanMakeRoom
    /\ \E c \in {Roomy(s)} :
          /\ k \notin DOMAIN c.map
          /\ o \notin c.live
          /\ Becomes([map |-> [j \in DOMAIN c.map \cup {k} |-> IF j = k THEN o ELSE c.map[j]],
                      queue |-> Append(c.queue, k), pending |-> c.pending,
                      live |-> c.live \cup {o}, water |-> c.water + s])
    /\ size' = [size EXCEPT ![o] = s]
    /\ refcount' = [refcount EXCEPT ![o] = 1]

flush == Becomes(flush_i(Cache)) /\ UNCHANGED objVars

flush_all ==
    /\ \E swept \in {flush_pending_objs(Cache)} : Becomes(Evict(swept, Len(swept.queue)))
    /\ UNCHANGED objVars

dump == Becomes(flush_pending_objs(Cache)) /\ UNCHANGED objVars

Next ==
    \/ \E k \in Keys : get(k) \/ get_pending_obj(k)
    \/ \E o \in Objects : release(o)
    \/ \E s \in Sizes : put_no_room(s)
    \/ \E k \in Keys, s \in Sizes : put_exists(k, s) \/ \E o \in Objects : put(k, s, o)
    \/ flush
    \/ flush_all
    \/ dump

Spec == Init /\ [][Next]_vars

----------------------------------------------------------------------------
(* Properties.                                                             *)

\* An object somebody holds a reference to is never destroyed, however often
\* its key is evicted, put and flushed meanwhile: drop_i and
\* flush_pending_objs destroy what has no references only.
HeldAlive == \A o \in Objects : refcount[o] > 0 => o \in live

\* water_mark_ is the size of all objects that exist: every destroy is counted
\* once, on whichever of the four paths it happens.
WaterMarkExact == water_mark = SizeOf(live)

\* The cache stays under its high water mark, or under the low one plus one
\* object: put makes room down to the low mark before it adds anything.
WaterMarkBounded == water_mark <= Max({high_water_mark, low_water_mark + cobj_max_size})

\* Map and queue hold the same keys, each once, and no object is in two
\* places: otherwise an eviction would destroy it twice.
PlacedOnce ==
    /\ ToSet(queue) = DOMAIN cache_map
    /\ Len(queue) = Cardinality(DOMAIN cache_map)
    /\ \A f \in {cache_map, pending_list} : \A j, k \in DOMAIN f : f[j] = f[k] => j = k
    /\ Values(cache_map) \cap Values(pending_list) = {}
    /\ Values(cache_map) \cup Values(pending_list) \subseteq live

\* The books of the cache agree with each other and with what exists: the water
\* mark is exact and bounded, and map, queue and pending list hold every object
\* at most once, also after a put that failed half-way.
BooksAgree == WaterMarkExact /\ WaterMarkBounded /\ PlacedOnce

\* cache_manager.h: cache_map_ and queue "store hot cache objects", the pending
\* list "store[s] pending objects that refcount > 0": an object that exists is
\* in one of them.
ObjectsTracked == live = Values(cache_map) \cup Values(pending_list)
=============================================================================

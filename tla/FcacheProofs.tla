---------------------------- MODULE FcacheProofs ----------------------------
(***************************************************************************)
(* Theorems about ndk::cache_manager, for any keys, objects, sizes and     *)
(* water marks, and about the push side of the fcache server, which sends  *)
(* what it caches, for any clients, requests, file, block and packet sizes.*)
(***************************************************************************)
EXTENDS CacheManager, FcachePush, DataLemmas

----------------------------------------------------------------------------
(* cache_manager (CacheManager).                                            *)

CacheType == [map : PartialMaps, queue : Seq(Keys), pending : PartialMaps,
              live : SUBSET Objects, water : Nat]

Injective(f) == \A j, k \in DOMAIN f : f[j] = f[k] => j = k

\* A cache, as the flushes take and give it, whose books agree: every key of
\* the map is queued once, no object is in two places, what the map and the
\* pending list hold exists and so does what somebody holds a reference to,
\* and the water mark is the size of all that exists.
Placed(c) ==
    /\ NoDup(c.queue) /\ ToSet(c.queue) = DOMAIN c.map
    /\ Injective(c.map) /\ Injective(c.pending)
    /\ Values(c.map) \cap Values(c.pending) = {}
    /\ Values(c.map) \subseteq c.live /\ Values(c.pending) \subseteq c.live

Counted(c) == IsFiniteSet(c.live) /\ c.water = SizeOf(c.live)

Holding(c) == \A o \in Objects : refcount[o] > 0 => o \in c.live

Sound(c) == c \in CacheType /\ Placed(c) /\ Counted(c) /\ Holding(c)

ObjectsTyped == size \in [Objects -> Nat] /\ refcount \in [Objects -> Nat]

IInv == ObjectsTyped /\ Sound(Cache) /\ WaterMarkBounded

-----------------------------------------------------------------------------
(* The operators.                                                          *)

\* A partial map is a function of some keys.
LEMMA PartialMap ==
    /\ \A f \in PartialMaps : f \in [DOMAIN f -> Objects] /\ DOMAIN f \in SUBSET Keys
    /\ \A K \in SUBSET Keys : \A f \in [K -> Objects] : f \in PartialMaps
BY DEF PartialMaps

\* Destroying objects takes their size, and no more, off the sum.
LEMMA Destroyed ==
    ASSUME ObjectsTyped, NEW c \in CacheType, Counted(c), NEW D \in SUBSET c.live
    PROVE  /\ IsFiniteSet(c.live \ D) /\ c.live \ D \in SUBSET Objects
           /\ c.water - SizeOf(D) = SizeOf(c.live \ D)
           /\ c.water - SizeOf(D) \in Nat /\ c.water - SizeOf(D) <= c.water
<1>1. c.live \in SUBSET Objects /\ IsFiniteSet(c.live) /\ c.water = SizeOf(c.live)
  BY DEF CacheType, Counted
<1>2. IsFiniteSet(D) /\ IsFiniteSet(c.live \ D) /\ D \in SUBSET Objects
  BY <1>1, FS_Subset
<1>3. \A S : SizeOf(S) = SumOver(size, S)
  BY DEF SizeOf, SumOver
<1>4. SizeOf(D) \in Nat /\ SizeOf(c.live \ D) \in Nat
  BY <1>1, <1>2, <1>3, SumType DEF ObjectsTyped
<1>5. SizeOf(c.live) = SizeOf(D) + SizeOf(c.live \ D)
  BY <1>1, <1>3, SumParts DEF ObjectsTyped
<1> QED BY <1>1, <1>2, <1>4, <1>5

\* flush_pending_objs destroys pending objects without references only.
LEMMA FlushPendingSound ==
    ASSUME ObjectsTyped, NEW c, Sound(c)
    PROVE  /\ Sound(flush_pending_objs(c)) /\ flush_pending_objs(c).water <= c.water
           /\ flush_pending_objs(c).map = c.map /\ flush_pending_objs(c).queue = c.queue
<1> DEFINE free == {k \in DOMAIN c.pending : refcount[c.pending[k]] = 0}
           objs == {c.pending[k] : k \in free}
           d == flush_pending_objs(c)
<1>0. c \in CacheType
  BY DEF Sound
<1>1. /\ d.map = c.map /\ d.queue = c.queue /\ d.pending = Without(c.pending, free)
      /\ d.live = c.live \ objs /\ d.water = c.water - SizeOf(objs)
      /\ /\ d.pending \in PartialMaps /\ d.live \in SUBSET Objects /\ d.water \in Nat
         /\ c.map \in PartialMaps /\ c.queue \in Seq(Keys)
         => d \in CacheType
  <2> DEFINE pp == Without(c.pending, free)
             ll == c.live \ objs
             ww == c.water - SizeOf(objs)
  <2>1. d = [c EXCEPT !.pending = pp, !.live = ll, !.water = ww]
    BY DEF flush_pending_objs
  <2> HIDE DEF d, pp, ll, ww
  <2>2. /\ d.map = c.map /\ d.queue = c.queue /\ d.pending = pp /\ d.live = ll /\ d.water = ww
        /\ c.map \in PartialMaps /\ c.queue \in Seq(Keys) /\ pp \in PartialMaps
           /\ ll \in SUBSET Objects /\ ww \in Nat => d \in CacheType
    BY <1>0, <2>1 DEF CacheType
  <2> QED BY <2>2 DEF pp, ll, ww
<1> HIDE DEF d
<1>2. /\ c.map \in PartialMaps /\ c.queue \in Seq(Keys) /\ c.pending \in PartialMaps
      /\ c.live \in SUBSET Objects /\ c.water \in Nat
  BY <1>0 DEF CacheType
<1>3. objs \in SUBSET c.live /\ objs \subseteq Values(c.pending)
  BY DEF Sound, Placed, Values
<1>4. /\ IsFiniteSet(d.live) /\ d.live \in SUBSET Objects /\ d.water = SizeOf(d.live)
      /\ d.water \in Nat /\ d.water <= c.water
  BY <1>0, <1>1, <1>3, Destroyed DEF Sound
<1> HIDE DEF objs, free
<1>5. /\ DOMAIN d.pending = DOMAIN c.pending \ free
      /\ \A k \in DOMAIN d.pending : d.pending[k] = c.pending[k]
      /\ d.pending \in PartialMaps
  <2>1. /\ DOMAIN d.pending = DOMAIN c.pending \ free
        /\ d.pending = [k \in DOMAIN c.pending \ free |-> c.pending[k]]
        /\ \A k \in DOMAIN d.pending : d.pending[k] = c.pending[k]
    BY <1>1 DEF Without
  <2>2. d.pending \in [DOMAIN c.pending \ free -> Objects] /\ DOMAIN c.pending \ free \in SUBSET Keys
    BY <2>1, <1>2, PartialMap
  <2> QED BY <2>1, <2>2, PartialMap
<1>6. d \in CacheType
  BY <1>1, <1>2, <1>4, <1>5
<1>7. Placed(d)
  <2>1. \A k \in DOMAIN d.pending : d.pending[k] \notin objs
    BY <1>5 DEF Sound, Placed, Injective, objs, free
  <2>2. Values(d.pending) \subseteq Values(c.pending) /\ Values(d.pending) \cap objs = {}
    BY <2>1, <1>5 DEF Values
  <2>3. Injective(d.pending)
    BY <1>5 DEF Sound, Placed, Injective
  <2> QED BY <2>2, <2>3, <1>1, <1>3 DEF Sound, Placed
<1>8. Holding(d)
  <2>1. \A o \in objs : ~(refcount[o] > 0)
    BY DEF objs, free
  <2> QED BY <2>1, <1>1 DEF Sound, Holding
<1> QED BY <1>1, <1>4, <1>6, <1>7, <1>8 DEF Sound, Counted, d

\* Evicting the first n of the queue: what nobody references is destroyed, the
\* rest becomes pending or, if its key is pending already, is only forgotten.
LEMMA EvictSound ==
    ASSUME ObjectsTyped, NEW c, Sound(c), NEW n \in 0 .. Len(c.queue)
    PROVE  Sound(Evict(c, n)) /\ Evict(c, n).water <= c.water
<1> DEFINE keys == {c.queue[i] : i \in 1 .. n}
           objs == {c.map[k] : k \in {j \in keys : refcount[c.map[j]] = 0}}
           busy == {k \in keys : refcount[c.map[k]] > 0}
           d == Evict(c, n)
           pp == [k \in DOMAIN c.pending \cup busy |->
                     IF k \in DOMAIN c.pending THEN c.pending[k] ELSE c.map[k]]
<1>0. c \in CacheType
  BY DEF Sound
<1>1. /\ d.map = Without(c.map, keys) /\ d.queue = SubSeq(c.queue, n + 1, Len(c.queue))
      /\ d.pending = pp /\ d.live = c.live \ objs /\ d.water = c.water - SizeOf(objs)
      /\ d.map \in PartialMaps /\ d.queue \in Seq(Keys) /\ d.pending \in PartialMaps
         /\ d.live \in SUBSET Objects /\ d.water \in Nat => d \in CacheType
  <2> DEFINE mm == Without(c.map, keys)
             qq == SubSeq(c.queue, n + 1, Len(c.queue))
             ll == c.live \ objs
             ww == c.water - SizeOf(objs)
  <2>1. d = [c EXCEPT !.map = mm, !.queue = qq, !.pending = pp, !.live = ll, !.water = ww]
    BY DEF Evict
  <2> HIDE DEF d, pp, ll, ww, mm, qq
  <2>2. /\ d.map = mm /\ d.queue = qq /\ d.pending = pp /\ d.live = ll /\ d.water = ww
        /\ mm \in PartialMaps /\ qq \in Seq(Keys) /\ pp \in PartialMaps
           /\ ll \in SUBSET Objects /\ ww \in Nat => d \in CacheType
    BY <1>0, <2>1 DEF CacheType
  <2> QED BY <2>2 DEF ll, ww, mm, qq
<1> HIDE DEF d
<1>2. /\ c.map \in PartialMaps /\ c.queue \in Seq(Keys) /\ c.pending \in PartialMaps
      /\ c.live \in SUBSET Objects /\ c.water \in Nat
      /\ NoDup(c.queue) /\ ToSet(c.queue) = DOMAIN c.map
  BY <1>0 DEF CacheType, Sound, Placed
<1>3. /\ d.queue \in Seq(Keys) /\ NoDup(d.queue) /\ ToSet(d.queue) = DOMAIN c.map \ keys
      /\ keys \subseteq DOMAIN c.map
  <2> DEFINE qq == SubSeq(c.queue, n + 1, Len(c.queue))
  <2>1. qq \in Seq(Keys) /\ NoDup(qq) /\ ToSet(qq) = ToSet(c.queue) \ keys /\ keys \subseteq ToSet(c.queue)
    BY <1>2, DropFirst
  <2> HIDE DEF qq, keys
  <2>2. d.queue = qq
    BY <1>1 DEF qq
  <2> QED BY <1>2, <2>1, <2>2
<1> HIDE DEF keys
<1>4. /\ c.map \in [DOMAIN c.map -> Objects] /\ DOMAIN c.map \in SUBSET Keys
      /\ c.pending \in [DOMAIN c.pending -> Objects] /\ DOMAIN c.pending \in SUBSET Keys
  BY <1>2, PartialMap
<1>5. objs \in SUBSET c.live /\ objs \subseteq Values(c.map) /\ \A o \in objs : refcount[o] = 0
  BY <1>3 DEF Sound, Placed, Values
<1> HIDE DEF objs
<1>6. /\ IsFiniteSet(d.live) /\ d.live \in SUBSET Objects /\ d.water = SizeOf(d.live)
      /\ d.water \in Nat /\ d.water <= c.water
  <2>1. /\ IsFiniteSet(c.live \ objs) /\ c.live \ objs \in SUBSET Objects
        /\ c.water - SizeOf(objs) = SizeOf(c.live \ objs)
        /\ c.water - SizeOf(objs) \in Nat /\ c.water - SizeOf(objs) <= c.water
    BY <1>0, <1>5, Destroyed DEF Sound
  <2> QED BY <2>1, <1>1
<1>7. /\ DOMAIN d.map = DOMAIN c.map \ keys
      /\ \A k \in DOMAIN d.map : d.map[k] = c.map[k]
      /\ d.map \in PartialMaps
  <2>1. d.map = [k \in DOMAIN c.map \ keys |-> c.map[k]]
    BY <1>1 DEF Without
  <2>2. d.map \in [DOMAIN c.map \ keys -> Objects] /\ DOMAIN c.map \ keys \in SUBSET Keys
    BY <2>1, <1>4
  <2>3. d.map \in PartialMaps
    BY <2>2, PartialMap
  <2> QED BY <2>1, <2>3
<1>8. /\ DOMAIN d.pending = DOMAIN c.pending \cup busy
      /\ \A k \in DOMAIN c.pending : d.pending[k] = c.pending[k]
      /\ \A k \in busy : k \notin DOMAIN c.pending => d.pending[k] = c.map[k]
      /\ d.pending \in PartialMaps
  <2>1. d.pending \in [DOMAIN c.pending \cup busy -> Objects] /\ DOMAIN c.pending \cup busy \in SUBSET Keys
    BY <1>1, <1>3, <1>4
  <2>2. d.pending \in PartialMaps
    BY <2>1, PartialMap
  <2> QED BY <1>1, <2>1, <2>2
<1>9. d \in CacheType
  BY <1>1, <1>3, <1>6, <1>7, <1>8
<1>10. \A k \in busy : k \in DOMAIN c.map /\ c.map[k] \notin objs /\ k \in keys
  BY <1>3 DEF Sound, Placed, Injective, objs
<1> HIDE DEF busy, pp
<1>11. Placed(d)
  <2>0. \A k \in DOMAIN d.pending :
           \/ k \in DOMAIN c.pending /\ d.pending[k] = c.pending[k] /\ d.pending[k] \in Values(c.pending)
           \/ /\ k \in busy /\ k \in DOMAIN c.map /\ k \in keys
              /\ d.pending[k] = c.map[k] /\ d.pending[k] \in Values(c.map)
    BY <1>8, <1>10 DEF Values
  <2>1. Injective(d.map) /\ Injective(d.pending)
    <3>1. Injective(d.map)
      BY <1>7 DEF Sound, Placed, Injective
    <3>2. ASSUME NEW j \in DOMAIN d.pending, NEW k \in DOMAIN d.pending, d.pending[j] = d.pending[k]
          PROVE  j = k
      BY <3>2, <2>0 DEF Sound, Placed, Injective
    <3> QED BY <3>1, <3>2 DEF Injective
  <2>2. \A k \in DOMAIN d.map : d.map[k] \in Values(c.map) /\ d.map[k] \notin objs
    BY <1>3, <1>7 DEF Values, Sound, Placed, Injective, objs
  <2>3. \A k \in DOMAIN d.pending : d.pending[k] \in c.live /\ d.pending[k] \notin objs
    BY <2>0, <1>5, <1>10 DEF Sound, Placed
  <2>4. Values(d.map) \cap Values(d.pending) = {}
    <3>1. ASSUME NEW j \in DOMAIN d.map, NEW k \in DOMAIN d.pending, d.map[j] = d.pending[k] PROVE FALSE
      BY <3>1, <1>7, <1>8, <1>10 DEF Sound, Placed, Injective, Values
    <3> QED BY <3>1 DEF Values
  <2>5. Values(d.map) \subseteq d.live /\ Values(d.pending) \subseteq d.live
    BY <2>2, <2>3, <1>1 DEF Values, Sound, Placed
  <2> QED BY <2>1, <2>4, <2>5, <1>3, <1>7 DEF Placed
<1>12. Holding(d)
  BY <1>1, <1>5 DEF Sound, Holding
<1> QED BY <1>6, <1>9, <1>11, <1>12 DEF Sound, Counted, d

\* The cache of the state is a cache.
LEMMA CacheFields ==
    /\ Cache.map = cache_map /\ Cache.queue = queue /\ Cache.pending = pending_list
    /\ Cache.live = live /\ Cache.water = water_mark
BY DEF Cache

\* make_cobj's loop leaves a sound cache, and when it ends well it is down to
\* the low water mark.
LEMMA MakeRoomSound ==
    ASSUME ObjectsTyped, Sound(Cache)
    PROVE  /\ Sound(MakeRoom) /\ MakeRoom.water <= water_mark
           /\ CanMakeRoom => MakeRoom.water <= low_water_mark
<1> DEFINE swept == flush_pending_objs(Cache)
           n == IF Rounds(swept) # {} THEN Min(Rounds(swept)) ELSE Len(swept.queue)
<1>1. Sound(swept) /\ swept.water <= water_mark
  BY FlushPendingSound, CacheFields
<1>2. CASE PendingSufficed(Cache)
  BY <1>1, <1>2 DEF MakeRoom, PendingSufficed
<1>3. CASE ~PendingSufficed(Cache)
  <2>1. MakeRoom = Evict(swept, n)
    BY <1>3 DEF MakeRoom
  <2> HIDE DEF swept
  <2>2. Len(swept.queue) \in Nat
    BY <1>1 DEF Sound, CacheType
  <2>3. n \in 0 .. Len(swept.queue) /\ (Rounds(swept) # {} => n \in Rounds(swept))
    <3>1. Rounds(swept) \in SUBSET Nat /\ Rounds(swept) \subseteq 1 .. Len(swept.queue)
      BY DEF Rounds
    <3>2. Rounds(swept) # {} => Min(Rounds(swept)) \in Rounds(swept)
      BY <3>1, MinIsLeast
    <3> QED BY <2>2, <3>1, <3>2
  <2> HIDE DEF n
  <2>4. Sound(Evict(swept, n)) /\ Evict(swept, n).water <= swept.water
    BY <1>1, <2>3, EvictSound
  <2>5. swept.water \in Nat /\ Evict(swept, n).water \in Nat /\ water_mark \in Nat
    BY <1>1, <2>4, CacheFields DEF Sound, CacheType
  <2>6. CanMakeRoom => Evict(swept, n).water <= low_water_mark
    <3>1. CanMakeRoom => Rounds(swept) # {}
      BY <1>3 DEF CanMakeRoom, swept
    <3> QED BY <2>3, <3>1 DEF Rounds
  <2> QED BY <1>1, <2>1, <2>4, <2>5, <2>6
<1> QED BY <1>2, <1>3

\* flush_i leaves a sound cache.
LEMMA FlushSound ==
    ASSUME ObjectsTyped, Sound(Cache)
    PROVE  /\ Sound(flush_i(Cache)) /\ flush_i(Cache).water <= water_mark
<1> DEFINE swept == flush_pending_objs(Cache)
<1>1. Sound(swept) /\ swept.water <= water_mark
  BY FlushPendingSound, CacheFields
<1>2. CASE PendingSufficed(Cache) \/ swept.queue = <<>>
  BY <1>1, <1>2 DEF flush_i
<1>3. CASE ~(PendingSufficed(Cache) \/ swept.queue = <<>>)
  <2>1. flush_i(Cache) = Evict(swept, 1)
    BY <1>3 DEF flush_i
  <2>2. 1 \in 0 .. Len(swept.queue)
    <3>1. swept.queue \in Seq(Keys) /\ swept.queue # <<>>
      BY <1>1, <1>3 DEF Sound, CacheType
    <3> HIDE DEF swept
    <3> QED BY <3>1
  <2> HIDE DEF swept
  <2>3. Sound(Evict(swept, 1)) /\ Evict(swept, 1).water <= swept.water
    BY <1>1, <2>2, EvictSound
  <2>4. swept.water \in Nat /\ Evict(swept, 1).water \in Nat /\ water_mark \in Nat
    BY <1>1, <2>3, CacheFields DEF Sound, CacheType
  <2> QED BY <1>1, <2>1, <2>3, <2>4
<1> QED BY <1>2, <1>3

-----------------------------------------------------------------------------
(* The steps.                                                              *)

\* A step that makes the cache another sound one and leaves the objects.
LEMMA BecomesKeeps ==
    ASSUME IInv, NEW c, Sound(c), c.water <= water_mark, Becomes(c), UNCHANGED objVars
    PROVE  IInv'
<1>1. c \in CacheType /\ c.water \in Nat /\ water_mark \in Nat
  BY CacheFields DEF Sound, CacheType, IInv
<1>2. Cache' = c
  <2>1. Cache' = [map |-> c.map, queue |-> c.queue, pending |-> c.pending,
                  live |-> c.live, water |-> c.water]
    BY DEF Becomes, Cache
  <2>2. c = [map |-> c.map, queue |-> c.queue, pending |-> c.pending,
             live |-> c.live, water |-> c.water]
    BY <1>1 DEF CacheType
  <2> QED BY <2>1, <2>2
<1>3. size' = size /\ refcount' = refcount /\ water_mark' = c.water
  BY DEF objVars, Becomes
<1>4. Sound(Cache)'
  <2>1. c.water = SizeOf(c.live)'
    <3>1. SizeOf(c.live)' = SumOver(size', c.live)
      BY DEF SizeOf, SumOver, MapThenSumSet, MapThenFoldSet
    <3>2. SizeOf(c.live) = SumOver(size, c.live)
      BY DEF SizeOf, SumOver, MapThenSumSet, MapThenFoldSet
    <3> QED BY <1>3, <3>1, <3>2 DEF Sound, Counted
  <2>2. Placed(Cache)'
    BY <1>2 DEF Sound, Placed
  <2>3. Counted(Cache)'
    BY <1>2, <2>1 DEF Sound, Counted
  <2>4. Holding(Cache)'
    BY <1>2, <1>3 DEF Sound, Holding
  <2>5. (Cache \in CacheType)'
    BY <1>1, <1>2 DEF CacheType
  <2> QED BY <2>2, <2>3, <2>4, <2>5 DEF Sound
<1>5. WaterMarkBounded'
  <2>1. Max({high_water_mark, low_water_mark + cobj_max_size}) \in Nat
    BY MaxOfTwo, CacheManagerAssumption
  <2> QED BY <1>1, <1>3, <2>1 DEF IInv, WaterMarkBounded
<1> QED BY <1>3, <1>4, <1>5 DEF IInv, ObjectsTyped

\* A step that takes or gives back a reference to an object that exists; it
\* may also move a key in the queue.
LEMMA ReferenceKeeps ==
    ASSUME IInv, UNCHANGED <<cache_map, pending_list, live, size, water_mark>>,
           queue' \in Seq(Keys), NoDup(queue'), ToSet(queue') = ToSet(queue),
           refcount' \in [Objects -> Nat],
           \A o \in Objects : refcount'[o] > 0 => o \in live
    PROVE  IInv'
<1>1. /\ cache_map \in PartialMaps /\ pending_list \in PartialMaps
      /\ live \in SUBSET Objects /\ water_mark \in Nat /\ Placed(Cache) /\ Counted(Cache)
  BY CacheFields DEF IInv, Sound, CacheType
<1>2. /\ Cache'.map = cache_map /\ Cache'.queue = queue' /\ Cache'.pending = pending_list
      /\ Cache'.live = live /\ Cache'.water = water_mark
  BY DEF Cache
<1>3. (Cache \in CacheType)'
  BY <1>1 DEF Cache, CacheType
<1>4. Placed(Cache)'
  BY <1>1, <1>2, CacheFields DEF Placed
<1>5. Counted(Cache)'
  <2>1. SizeOf(Cache.live)' = SumOver(size', Cache'.live)
    BY DEF SizeOf, SumOver, MapThenSumSet, MapThenFoldSet
  <2>2. SizeOf(Cache.live) = SumOver(size, Cache.live)
    BY DEF SizeOf, SumOver, MapThenSumSet, MapThenFoldSet
  <2> QED BY <1>1, <1>2, <2>1, <2>2, CacheFields DEF Counted
<1>6. Holding(Cache)'
  BY <1>2 DEF Holding
<1> QED BY <1>3, <1>4, <1>5, <1>6 DEF IInv, ObjectsTyped, Sound, WaterMarkBounded

\* get of a hot or of a pending object, and release.
LEMMA GetStep ==
    ASSUME IInv, NEW k \in Keys, get(k) \/ get_pending_obj(k)
    PROVE  IInv'
<1>1. /\ queue \in Seq(Keys) /\ NoDup(queue) /\ ToSet(queue) = DOMAIN cache_map
      /\ Values(cache_map) \subseteq live /\ Values(pending_list) \subseteq live
      /\ live \in SUBSET Objects /\ refcount \in [Objects -> Nat]
      /\ \A o \in Objects : refcount[o] > 0 => o \in live
  BY CacheFields DEF IInv, ObjectsTyped, Sound, CacheType, Placed, Holding
<1>2. ASSUME NEW o \in live, Acquire(o)
      PROVE  /\ refcount' \in [Objects -> Nat]
             /\ \A x \in Objects : refcount'[x] > 0 => x \in live
  BY <1>1, <1>2 DEF Acquire
<1>3. CASE get(k)
  <2>1. cache_map[k] \in live /\ Acquire(cache_map[k]) /\ k \in ToSet(queue)
    BY <1>1, <1>3 DEF get, Values
  <2> DEFINE q == RemoveFirst(queue, k)
  <2>2. q \in Seq(Keys) /\ NoDup(q) /\ ToSet(q) = ToSet(queue) \ {k}
    BY <1>1, <2>1, RemoveFirstOnce
  <2>3. queue' = Append(q, k)
    BY <1>3 DEF get
  <2> HIDE DEF q
  <2>4. queue' \in Seq(Keys) /\ NoDup(queue') /\ ToSet(queue') = ToSet(queue)
    <3>1. /\ Append(q, k) \in Seq(Keys) /\ NoDup(Append(q, k))
          /\ ToSet(Append(q, k)) = ToSet(q) \cup {k}
      BY <2>2, AppendOnce
    <3> QED BY <3>1, <2>1, <2>2, <2>3
  <2>5. UNCHANGED <<cache_map, pending_list, live, size, water_mark>>
    BY <1>3 DEF get
  <2> QED BY <1>2, <2>1, <2>4, <2>5, ReferenceKeeps
<1>4. CASE get_pending_obj(k)
  <2>1. pending_list[k] \in live /\ Acquire(pending_list[k])
    BY <1>1, <1>4 DEF get_pending_obj, Values
  <2>2. UNCHANGED <<cache_map, queue, pending_list, live, size, water_mark>>
    BY <1>4 DEF get_pending_obj
  <2> QED BY <1>1, <1>2, <2>1, <2>2, ReferenceKeeps
<1> QED BY <1>3, <1>4

LEMMA ReleaseStep ==
    ASSUME IInv, NEW o \in Objects, release(o)
    PROVE  IInv'
<1>1. /\ queue \in Seq(Keys) /\ NoDup(queue) /\ refcount \in [Objects -> Nat]
      /\ \A x \in Objects : refcount[x] > 0 => x \in live
  BY CacheFields DEF IInv, ObjectsTyped, Sound, CacheType, Placed, Holding
<1>2. /\ refcount[o] > 0 /\ refcount' = [refcount EXCEPT ![o] = refcount[o] - 1]
      /\ UNCHANGED <<cache_map, queue, pending_list, live, size, water_mark>>
  BY DEF release
<1>3. /\ refcount' \in [Objects -> Nat]
      /\ \A x \in Objects : refcount'[x] > 0 => x \in live
  BY <1>1, <1>2
<1> QED BY <1>1, <1>2, <1>3, ReferenceKeeps

\* The size of a set of objects depends on their sizes only.
LEMMA SameSizes ==
    ASSUME NEW S \in SUBSET Objects, IsFiniteSet(S)
    PROVE  \A v, z \in [Objects -> Nat] :
              (\A x \in S : v[x] = z[x]) => SumOver(v, S) = SumOver(z, S)
<1> SUFFICES ASSUME NEW v \in [Objects -> Nat], NEW z \in [Objects -> Nat],
                    \A x \in S : v[x] = z[x]
             PROVE  SumOver(v, S) = SumOver(z, S)
  OBVIOUS
<1> QED BY SumSame

\* A new object enters map and queue.
LEMMA AddKeeps ==
    ASSUME IInv, NEW c, Sound(c), NEW k \in Keys, k \notin DOMAIN c.map,
           NEW s \in Nat, NEW o \in Objects, o \notin c.live,
           c.water + s <= Max({high_water_mark, low_water_mark + cobj_max_size}),
           Becomes([map |-> [j \in DOMAIN c.map \cup {k} |-> IF j = k THEN o ELSE c.map[j]],
                    queue |-> Append(c.queue, k), pending |-> c.pending,
                    live |-> c.live \cup {o}, water |-> c.water + s]),
           size' = [size EXCEPT ![o] = s], refcount' = [refcount EXCEPT ![o] = 1]
    PROVE  IInv'
<1> DEFINE m == [j \in DOMAIN c.map \cup {k} |-> IF j = k THEN o ELSE c.map[j]]
<1>1. /\ c.map \in PartialMaps /\ c.queue \in Seq(Keys) /\ c.pending \in PartialMaps
      /\ c.live \in SUBSET Objects /\ c.water \in Nat
      /\ Placed(c) /\ Counted(c) /\ Holding(c)
  BY DEF Sound, CacheType
<1>2. /\ cache_map' = m /\ queue' = Append(c.queue, k) /\ pending_list' = c.pending
      /\ live' = c.live \cup {o} /\ water_mark' = c.water + s
  BY DEF Becomes
<1>3. /\ Cache'.map = m /\ Cache'.queue = queue' /\ Cache'.pending = c.pending
      /\ Cache'.live = c.live \cup {o} /\ Cache'.water = c.water + s
  BY <1>2 DEF Cache
<1>4. /\ queue' \in Seq(Keys) /\ NoDup(queue') /\ ToSet(queue') = DOMAIN c.map \cup {k}
  <2>1. NoDup(c.queue) /\ ToSet(c.queue) = DOMAIN c.map
    BY <1>1 DEF Placed
  <2>2. /\ Append(c.queue, k) \in Seq(Keys) /\ NoDup(Append(c.queue, k))
        /\ ToSet(Append(c.queue, k)) = ToSet(c.queue) \cup {k}
    BY <1>1, <2>1, AppendOnce
  <2> QED BY <1>2, <2>1, <2>2
<1>5. /\ DOMAIN m = DOMAIN c.map \cup {k} /\ m[k] = o
      /\ \A j \in DOMAIN c.map : m[j] = c.map[j]
      /\ m \in PartialMaps
  <2>1. c.map \in [DOMAIN c.map -> Objects] /\ DOMAIN c.map \in SUBSET Keys
    BY <1>1, PartialMap
  <2>2. m \in [DOMAIN c.map \cup {k} -> Objects] /\ DOMAIN c.map \cup {k} \in SUBSET Keys
    BY <2>1
  <2>3. m \in PartialMaps
    BY <2>2, PartialMap
  <2> QED BY <2>3
<1> HIDE DEF m
<1>6. (Cache \in CacheType)'
  <2>1. c.live \cup {o} \in SUBSET Objects /\ c.water + s \in Nat
    BY <1>1
  <2> QED BY <1>1, <1>2, <1>4, <1>5, <2>1 DEF Cache, CacheType
<1>7. Placed(Cache)'
  <2>1. Injective(m) /\ Values(m) = Values(c.map) \cup {o}
    <3>1. \A j \in DOMAIN c.map : c.map[j] # o
      BY <1>1 DEF Placed, Values
    <3>2. Injective(m)
      BY <3>1, <1>1, <1>5 DEF Placed, Injective
    <3>3. Values(m) = Values(c.map) \cup {o}
      BY <1>5 DEF Values
    <3> QED BY <3>2, <3>3
  <2> QED BY <1>1, <1>3, <1>4, <1>5, <2>1 DEF Placed
<1>8. Counted(Cache)'
  <2> DEFINE L == c.live \cup {o}
  <2>1. SizeOf(Cache.live)' = SumOver(size', Cache'.live)
    BY DEF SizeOf, SumOver, MapThenSumSet, MapThenFoldSet
  <2>2. SizeOf(c.live) = SumOver(size, c.live)
    BY DEF SizeOf, SumOver, MapThenSumSet, MapThenFoldSet
  <2>3. size \in [Objects -> Nat] /\ size' \in [Objects -> Nat] /\ size'[o] = s
    BY DEF IInv, ObjectsTyped
  <2>4. IsFiniteSet(c.live) /\ IsFiniteSet(L) /\ L \in SUBSET Objects /\ L \ {o} = c.live /\ o \in L
    <3>1. IsFiniteSet(c.live)
      BY <1>1 DEF Counted
    <3>2. IsFiniteSet(L)
      BY <3>1, FS_AddElement
    <3>3. L \in SUBSET Objects /\ L \ {o} = c.live /\ o \in L
      BY <1>1
    <3> QED BY <3>1, <3>2, <3>3
  <2> HIDE DEF L
  <2>5. SumOver(size', L) = size'[o] + SumOver(size', L \ {o})
    <3>1. \A z \in [Objects -> Nat] : SumOver(z, L) = z[o] + SumOver(z, L \ {o})
      BY <2>4, SumElement
    <3> QED BY <3>1, <2>3
  <2>6. SumOver(size', c.live) = SumOver(size, c.live)
    <3>1. \A x \in c.live : size'[x] = size[x]
      BY <1>1 DEF IInv, ObjectsTyped
    <3>2. c.live \in SUBSET Objects
      BY <1>1
    <3>3. \A v, z \in [Objects -> Nat] :
             (\A x \in c.live : v[x] = z[x]) => SumOver(v, c.live) = SumOver(z, c.live)
      BY <3>2, <2>4, SameSizes
    <3> QED BY <3>1, <3>3, <2>3
  <2>7. c.water = SumOver(size, c.live)
    BY <1>1, <2>2 DEF Counted
  <2>8. SumOver(size', L) = s + c.water
    BY <2>3, <2>4, <2>5, <2>6, <2>7
  <2>9. Cache'.water = SizeOf(Cache.live)'
    BY <1>1, <1>3, <2>1, <2>8 DEF L
  <2> QED BY <1>3, <2>4, <2>9 DEF Counted, L
<1>9. Holding(Cache)'
  BY <1>1, <1>3 DEF Holding, IInv, ObjectsTyped
<1>10. WaterMarkBounded'
  BY <1>2 DEF WaterMarkBounded
<1>11. ObjectsTyped'
  BY DEF IInv, ObjectsTyped
<1> QED BY <1>6, <1>7, <1>8, <1>9, <1>10, <1>11 DEF IInv, Sound

\* put that does not find the key hot.
LEMMA PutStep ==
    ASSUME IInv, NEW k \in Keys, NEW s \in Sizes, NEW o \in Objects, put(k, s, o)
    PROVE  IInv'
<1> DEFINE c == Roomy(s)
<1>0. /\ s \in Nat /\ s <= cobj_max_size /\ cobj_max_size \in Nat /\ water_mark \in Nat
      /\ high_water_mark \in Nat /\ low_water_mark \in Nat
      /\ NeedsRoom(s) => CanMakeRoom
  BY CacheManagerAssumption, CacheFields DEF put, Cacheable, IInv, Sound, CacheType
<1>1. Sound(c) /\ c.water + s <= Max({high_water_mark, low_water_mark + cobj_max_size})
  <2>1. Max({high_water_mark, low_water_mark + cobj_max_size}) =
           IF high_water_mark >= low_water_mark + cobj_max_size THEN high_water_mark
           ELSE low_water_mark + cobj_max_size
    BY <1>0, MaxOfTwo
  <2>2. CASE ~NeedsRoom(s)
    <3>1. c = Cache /\ c.water = water_mark /\ Sound(c)
      BY <2>2, CacheFields DEF Roomy, IInv
    <3> QED BY <3>1, <2>1, <2>2, <1>0 DEF NeedsRoom
  <2>3. CASE NeedsRoom(s)
    <3>1. c = MakeRoom /\ Sound(c) /\ c.water <= low_water_mark
      BY <2>3, <1>0, MakeRoomSound DEF Roomy, IInv
    <3> HIDE DEF c
    <3>2. c.water \in Nat
      BY <3>1 DEF Sound, CacheType
    <3> QED BY <3>1, <3>2, <2>1, <1>0
  <2> QED BY <2>2, <2>3
<1>2. /\ k \notin DOMAIN c.map /\ o \notin c.live
      /\ Becomes([map |-> [j \in DOMAIN c.map \cup {k} |-> IF j = k THEN o ELSE c.map[j]],
                  queue |-> Append(c.queue, k), pending |-> c.pending,
                  live |-> c.live \cup {o}, water |-> c.water + s])
      /\ size' = [size EXCEPT ![o] = s] /\ refcount' = [refcount EXCEPT ![o] = 1]
  BY DEF put
<1> HIDE DEF c
<1> QED BY <1>0, <1>1, <1>2, AddKeeps

-----------------------------------------------------------------------------
(* The inductive invariant.                                                *)

LEMMA InitIInv == Init => IInv
<1> SUFFICES ASSUME Init PROVE IInv
  OBVIOUS
<1>1. /\ cache_map = <<>> /\ queue = <<>> /\ pending_list = <<>> /\ live = {} /\ water_mark = 0
      /\ size = [o \in Objects |-> 0] /\ refcount = [o \in Objects |-> 0]
  BY DEF Init
<1>2. <<>> \in PartialMaps /\ <<>> \in Seq(Keys) /\ DOMAIN <<>> = {} /\ ToSet(<<>>) = {}
  <2>1. <<>> \in [{} -> Objects]
    OBVIOUS
  <2>2. <<>> \in PartialMaps
    BY <2>1, PartialMap
  <2> QED BY <2>2 DEF ToSet
<1>3. Cache \in CacheType
  BY <1>1, <1>2 DEF Cache, CacheType
<1>4. Placed(Cache)
  BY <1>1, <1>2, CacheFields DEF Placed, NoDup, Injective, Values
<1>5. IsFiniteSet({}) /\ SizeOf({}) = 0
  <2>1. SizeOf({}) = SumOver(size, {})
    BY DEF SizeOf, SumOver, MapThenSumSet, MapThenFoldSet
  <2>2. size \in [Objects -> Nat] /\ {} \in SUBSET Objects /\ IsFiniteSet({})
    BY <1>1, FS_EmptySet
  <2> QED BY <2>1, <2>2, SumType
<1>6. Counted(Cache) /\ Holding(Cache)
  BY <1>1, <1>5, CacheFields DEF Counted, Holding
<1>7. Max({high_water_mark, low_water_mark + cobj_max_size}) >= 0
  BY MaxOfTwo, CacheManagerAssumption
<1>8. WaterMarkBounded
  <2>1. Max({high_water_mark, low_water_mark + cobj_max_size}) \in Int
    BY MaxOfTwo, CacheManagerAssumption
  <2> QED BY <1>1, <1>7, <2>1 DEF WaterMarkBounded
<1> QED BY <1>1, <1>3, <1>4, <1>6, <1>8 DEF IInv, Sound, ObjectsTyped

LEMMA NextIInv ==
    ASSUME IInv, [Next]_vars
    PROVE  IInv'
<1>0. ObjectsTyped /\ Sound(Cache) /\ water_mark \in Nat
  BY CacheFields DEF IInv, Sound, CacheType
<1>1. ASSUME NEW s \in Sizes, put_no_room(s) PROVE IInv'
  BY <1>0, <1>1, MakeRoomSound, BecomesKeeps DEF put_no_room
<1>2. ASSUME NEW k \in Keys, NEW s \in Sizes, put_exists(k, s) PROVE IInv'
  <2>1. Becomes(Roomy(s)) /\ UNCHANGED objVars
    BY <1>2 DEF put_exists
  <2>2. Sound(Roomy(s)) /\ Roomy(s).water <= water_mark
    BY <1>0, MakeRoomSound, CacheFields DEF Roomy
  <2> QED BY <2>1, <2>2, BecomesKeeps
<1>3. CASE flush
  BY <1>0, <1>3, FlushSound, BecomesKeeps DEF flush
<1>4. CASE flush_all
  <2> DEFINE swept == flush_pending_objs(Cache)
             d == Evict(swept, Len(swept.queue))
  <2>1. Becomes(d) /\ UNCHANGED objVars
    BY <1>4 DEF flush_all
  <2>2. Sound(swept) /\ swept.water <= water_mark
    BY <1>0, FlushPendingSound, CacheFields
  <2> HIDE DEF swept
  <2>3. Len(swept.queue) \in 0 .. Len(swept.queue)
    BY <2>2 DEF Sound, CacheType
  <2>4. Sound(d) /\ d.water <= swept.water
    BY <1>0, <2>2, <2>3, EvictSound
  <2> HIDE DEF d
  <2>5. d.water <= water_mark
    <3>1. d.water \in Nat /\ swept.water \in Nat
      BY <2>2, <2>4 DEF Sound, CacheType
    <3> QED BY <1>0, <2>2, <2>4, <3>1
  <2> QED BY <2>1, <2>4, <2>5, BecomesKeeps
<1>5. CASE dump
  BY <1>0, <1>5, FlushPendingSound, CacheFields, BecomesKeeps DEF dump
<1>6. CASE UNCHANGED vars
  <2>1. UNCHANGED <<cache_map, queue, pending_list, live, size, refcount, water_mark>>
    BY <1>6 DEF vars, objVars
  <2>2. /\ queue \in Seq(Keys) /\ NoDup(queue) /\ refcount \in [Objects -> Nat]
        /\ \A x \in Objects : refcount[x] > 0 => x \in live
    BY CacheFields DEF IInv, ObjectsTyped, Sound, CacheType, Placed, Holding
  <2> QED BY <2>1, <2>2, ReferenceKeeps
<1> QED BY <1>1, <1>2, <1>3, <1>4, <1>5, <1>6, GetStep, ReleaseStep, PutStep DEF Next

\* The cache's books agree after every operation, whatever it destroyed or
\* could not destroy: the invariant the results below are read off from.
THEOREM CacheInvariant == Spec => []IInv
<1>1. IInv /\ [Next]_vars => IInv'
  BY NextIInv
<1> QED BY <1>1, InitIInv, PTL DEF Spec

-----------------------------------------------------------------------------
(* The results.                                                            *)

\* Type correctness, for any keys, objects, sizes and marks; water_mark_ never
\* goes below zero (it is unsigned).
THEOREM CacheTypes == Spec => []TypeOK
<1>1. IInv => TypeOK
  BY CacheFields DEF IInv, ObjectsTyped, Sound, CacheType, TypeOK
<1> QED BY <1>1, CacheInvariant, PTL

\* An object somebody holds a reference to is never destroyed (HeldAlive).
THEOREM HeldIsAlive == Spec => []HeldAlive
<1>1. IInv => HeldAlive
  BY CacheFields DEF IInv, Sound, Holding, HeldAlive
<1> QED BY <1>1, CacheInvariant, PTL

\* The water mark is exactly the size of the objects that exist and stays
\* bounded, and no object is in two places (BooksAgree).
THEOREM BooksAlwaysAgree == Spec => []BooksAgree
<1>1. IInv => WaterMarkExact /\ WaterMarkBounded
  BY CacheFields DEF IInv, Sound, Counted, WaterMarkExact
<1>2. ASSUME IInv PROVE PlacedOnce
  <2>1. /\ queue \in Seq(Keys) /\ NoDup(queue) /\ ToSet(queue) = DOMAIN cache_map
        /\ Injective(cache_map) /\ Injective(pending_list)
        /\ Values(cache_map) \cap Values(pending_list) = {}
        /\ Values(cache_map) \cup Values(pending_list) \subseteq live
    BY <1>2, CacheFields DEF IInv, Sound, CacheType, Placed
  <2>2. Len(queue) = Cardinality(DOMAIN cache_map)
    BY <2>1, OnceEach
  <2> QED BY <2>1, <2>2 DEF PlacedOnce, Injective
<1>3. IInv => BooksAgree
  BY <1>1, <1>2 DEF BooksAgree
<1> QED BY <1>3, CacheInvariant, PTL

----------------------------------------------------------------------------
(* The push side of fcache (FcachePush).                                    *)

\* The fields of the three kinds of agent.
MemAgent == [kind : {"mem"}, begin : Nat, len : Int, sent : Nat]
SerialAgent ==
  [kind : {"serial"}, begin : Nat, len : Int, sent : Nat, off : Nat,
   eof : BOOLEAN, err : BOOLEAN, buf : Nat \cup {Null}, pos : Nat, out : Nat,
   res : Nat \cup {Null}, rpos : Nat, want : Int]

\* The place in the file of the byte that follows all those a serial transfer
\* has sent or holds in buffer_.
NextByte(a) == IF a.buf # Null THEN a.pos + a.buf ELSE a.begin + a.sent

\* The three places that transfer_data and handle_aio_read move independently
\* stay in line: the bytes of buffer_ continue the ones sent, the bytes of
\* reserve_buffer_ continue those of buffer_, and offset_ is where they end.  A
\* pending read fills an empty reserve buffer from offset_ on.
InLine(a, reading) ==
  /\ a \in SerialAgent
  /\ a.buf # Null => a.out <= a.buf /\ a.pos + a.out = a.begin + a.sent
  /\ a.res # Null => a.rpos = NextByte(a)
  /\ a.off = IF a.res # Null THEN a.rpos + a.res ELSE NextByte(a)
  /\ reading => a.res = 0

AgentOK(a, reading) ==
  \/ (a = NoAgent \/ a \in MemAgent) /\ ~reading
  \/ InLine(a, reading)

\* The types of a job and of the place in svc.
JobType == [stopped : BOOLEAN, closing : BOOLEAN, budget : Int]
Places == {"top", "wait", "begin", "visit", "transfer", "send"}
DispType == [pc : Places, idle : BOOLEAN, i : Nat \ {0}, stopped : Nat, sent : Nat]

\* A job has its client for as long as it is not closing, and its agent for as
\* long as it is queued; no job is queued twice.
JobsInv ==
  /\ dispatch_queue \in Seq(Clients) /\ NoDup(dispatch_queue)
  /\ client \in [Clients -> {"none", "recv", "got", "gone"}]
  /\ job \in [Clients -> JobType]
  /\ session \in SUBSET {c \in Clients : client[c] = "got"}
  /\ \A c \in ToSet(dispatch_queue) : client[c] = IF job[c].closing THEN "gone" ELSE "got"
  /\ \A c \in Clients : job[c].closing => c \in ToSet(dispatch_queue)

\* A client that could not be answered: its agent is gone, its read may not be.
Orphaned(c) == c \in orphan /\ client[c] = "gone" /\ agent[c] = NoAgent

AgentsInv ==
  /\ DOMAIN agent = Clients /\ DOMAIN aio = Clients
  /\ \A c \in Clients : AgentOK(agent[c], aio[c] # "none") \/ Orphaned(c)
  /\ \A c \in Clients : c \in ToSet(dispatch_queue) <=> agent[c] # NoAgent

\* Where dispatch_data is: the job it works on is in the dispatch_queue, and there is a
\* buffer to send from when it sends.
DispInv ==
  /\ disp \in DispType
  /\ disp.pc \in {"transfer", "send"} => disp.i \in 1 .. Len(dispatch_queue)
  /\ disp.pc = "send" => LET a == agent[dispatch_queue[disp.i]]
                         IN  a.kind = "serial" => a.buf # Null

PayloadInv == payload \in Int /\ PayloadNotOver

PInv == JobsInv /\ AgentsInv /\ DispInv /\ PayloadInv

-----------------------------------------------------------------------------
(* What the steps of a transfer do to an agent. *)

\* The range of a request begins at a natural number.
LEMMA RangeType ==
    ASSUME NEW q \in Requests
    PROVE  asked(q) = <<asked(q)[1], asked(q)[2]>> /\ asked(q)[1] \in Nat /\ asked(q)[2] \in Int
<1>1. /\ q.range \in {"absent", "many", "garbage", "suffix", "open", "closed"}
      /\ q.begin \in Nat /\ q.end \in Nat /\ FileLen \in Nat
  BY PushAssumption DEF IsRequest
<1>2. get_range(q).begin \in Nat /\ get_range(q).end \in Int
  BY <1>1 DEF get_range
<1> QED BY <1>1, <1>2 DEF asked

\* A new agent of memory, and a new serial one with its first read queued.
LEMMA NewAgents ==
    ASSUME NEW r, r[1] \in Nat, r[2] \in Int
    PROVE  /\ mem_cache_transfer(r) \in MemAgent
           /\ InLine(serial_file_transfer(r), FALSE) /\ serial_file_transfer(r).res = Null
  BY DEF mem_cache_transfer, MemAgent, serial_file_transfer, SerialAgent, InLine, NextByte, Null

\* start_read: the reserve buffer is to follow what is there.
LEMMA StartRead ==
    ASSUME NEW a, InLine(a, FALSE), a.res = Null
    PROVE  InLine(start_read(a), TRUE) /\ start_read(a).buf = a.buf
<1>1. SmallerOf(Block, a.len - a.sent) \in Int
  BY PushAssumption DEF InLine, SerialAgent, SmallerOf
<1>0. a \in SerialAgent
  BY DEF InLine
<1> DEFINE b == start_read(a)
           w == SmallerOf(Block, a.len - a.sent)
<1> HIDE DEF w
<1>2. /\ b.kind = a.kind /\ b.begin = a.begin /\ b.len = a.len /\ b.sent = a.sent
      /\ b.off = a.off /\ b.eof = a.eof /\ b.err = a.err /\ b.buf = a.buf
      /\ b.pos = a.pos /\ b.out = a.out /\ b.res = 0 /\ b.rpos = a.off
      /\ b.want = w
  BY <1>0 DEF start_read, SerialAgent, w
<1>3. b \in SerialAgent
  BY <1>0, <1>1 DEF start_read, SerialAgent
<1> HIDE DEF b
<1>4. InLine(b, TRUE) /\ b.buf = a.buf
  BY <1>0, <1>2, <1>3 DEF InLine, SerialAgent, NextByte, Null
<1> QED BY <1>4 DEF b

\* handle_aio_read, of a read that was pending.
LEMMA ReadDone ==
    ASSUME NEW a, InLine(a, TRUE), NEW closing \in BOOLEAN, NEW n \in Nat, NEW error \in BOOLEAN
    PROVE  /\ InLine(handle_aio_read(a, closing, n, error), FALSE)
           /\ handle_aio_read(a, closing, n, error).buf = a.buf
<1>0. a \in SerialAgent /\ a.res = 0
  BY DEF InLine
<1>1. InLine(a, FALSE)
  BY DEF InLine
<1>2. InLine([a EXCEPT !.err = TRUE], FALSE) /\ [a EXCEPT !.err = TRUE].buf = a.buf
  BY <1>0, <1>1 DEF InLine, SerialAgent, NextByte, Null
<1>3. InLine([a EXCEPT !.eof = TRUE], FALSE) /\ [a EXCEPT !.eof = TRUE].buf = a.buf
  BY <1>0, <1>1 DEF InLine, SerialAgent, NextByte, Null
<1>4. InLine([a EXCEPT !.off = @ + n, !.res = n], FALSE) /\ [a EXCEPT !.off = @ + n, !.res = n].buf = a.buf
  <2> DEFINE b == [a EXCEPT !.off = @ + n, !.res = n]
  <2>1. /\ b.kind = a.kind /\ b.begin = a.begin /\ b.len = a.len /\ b.sent = a.sent
        /\ b.off = a.off + n /\ b.eof = a.eof /\ b.err = a.err /\ b.buf = a.buf
        /\ b.pos = a.pos /\ b.out = a.out /\ b.res = n /\ b.rpos = a.rpos
        /\ b.want = a.want
    BY <1>0 DEF SerialAgent
  <2>2. b \in SerialAgent
    <3>1. a.off + n \in Nat
      BY <1>0 DEF SerialAgent
    <3> DEFINE m == a.off + n
    <3> HIDE DEF m
    <3>2. [a EXCEPT !.off = m, !.res = n] \in SerialAgent
      BY <1>0, <3>1 DEF SerialAgent, m
    <3> QED BY <3>2 DEF m
  <2> HIDE DEF b
  <2>3. InLine(b, FALSE) /\ b.buf = a.buf
    BY <1>0, <1>1, <2>1, <2>2 DEF InLine, SerialAgent, NextByte, Null
  <2> QED BY <2>3 DEF b
<1> QED BY <1>1, <1>2, <1>3, <1>4 DEF handle_aio_read

\* transfer_data makes the reserve buffer its buffer.
TakeReserve(a) == [a EXCEPT !.buf = a.res, !.pos = a.rpos, !.out = 0,
                            !.res = Null, !.rpos = 0, !.want = 0]

LEMMA ReserveTaken ==
    ASSUME NEW a, InLine(a, FALSE), a.buf = Null, a.res # Null
    PROVE  InLine(TakeReserve(a), FALSE) /\ TakeReserve(a).buf # Null
<1>0. a \in SerialAgent
  BY DEF InLine
<1> DEFINE b == TakeReserve(a)
<1>1. /\ b.kind = a.kind /\ b.begin = a.begin /\ b.len = a.len /\ b.sent = a.sent
      /\ b.off = a.off /\ b.eof = a.eof /\ b.err = a.err /\ b.buf = a.res
      /\ b.pos = a.rpos /\ b.out = 0 /\ b.res = Null /\ b.rpos = 0
      /\ b.want = 0
  BY <1>0 DEF TakeReserve, SerialAgent
<1>2. b \in SerialAgent
  <2>1. a.res \in Nat /\ a.rpos \in Nat
    BY <1>0 DEF SerialAgent
  <2> DEFINE d == [a EXCEPT !.buf = a.res, !.pos = a.rpos, !.out = 0]
  <2>2. d \in SerialAgent
    BY <1>0, <2>1 DEF SerialAgent
  <2>3. b = [d EXCEPT !.res = Null, !.rpos = 0, !.want = 0]
    BY DEF TakeReserve
  <2> HIDE DEF d, b
  <2> DEFINE e == [d EXCEPT !.res = Null]
  <2>4. e \in SerialAgent
    BY <2>2 DEF SerialAgent
  <2>5. b = [e EXCEPT !.rpos = 0, !.want = 0]
    BY <2>3
  <2> HIDE DEF e
  <2>6. \A x \in Nat, y \in Int : [e EXCEPT !.rpos = x, !.want = y] \in SerialAgent
    BY <2>4 DEF SerialAgent
  <2>7. 0 \in Nat /\ 0 \in Int
    OBVIOUS
  <2>8. [e EXCEPT !.rpos = 0, !.want = 0] \in SerialAgent
    BY <2>6, <2>7, Zenon
  <2> QED BY <2>5, <2>8, Zenon
<1> HIDE DEF b
<1>3. InLine(b, FALSE) /\ b.buf # Null
  BY <1>0, <1>1, <1>2 DEF InLine, SerialAgent, NextByte, Null
<1> QED BY <1>3 DEF b

\* A send of n bytes of the buffer.
SentBytes(a, n) == [a EXCEPT !.sent = @ + n, !.out = @ + n]

LEMMA BytesSent ==
    ASSUME NEW a, NEW reading, InLine(a, reading), a.buf # Null, NEW n \in 1 .. Left(a)
    PROVE  InLine(SentBytes(a, n), reading) /\ SentBytes(a, n).buf = a.buf
<1>4. n \in Nat /\ n <= a.buf - a.out
  BY DEF Left, InLine, SerialAgent, Null
<1>0. a \in SerialAgent
  BY DEF InLine
<1> DEFINE b == SentBytes(a, n)
<1>1. /\ b.kind = a.kind /\ b.begin = a.begin /\ b.len = a.len /\ b.sent = a.sent + n
      /\ b.off = a.off /\ b.eof = a.eof /\ b.err = a.err /\ b.buf = a.buf
      /\ b.pos = a.pos /\ b.out = a.out + n /\ b.res = a.res /\ b.rpos = a.rpos
      /\ b.want = a.want
  BY <1>0, <1>4 DEF SentBytes, SerialAgent
<1>2. b \in SerialAgent
  <2>1. a.sent + n \in Nat /\ a.out + n \in Nat
    BY <1>0, <1>4 DEF SerialAgent
  <2> DEFINE x == a.sent + n
             y == a.out + n
  <2> HIDE DEF x, y
  <2>2. [a EXCEPT !.sent = x, !.out = y] \in SerialAgent
    BY <1>0, <2>1 DEF SerialAgent, x, y
  <2> QED BY <2>2 DEF x, y, SentBytes
<1> HIDE DEF b
<1>3. InLine(b, reading) /\ b.buf = a.buf
  BY <1>0, <1>1, <1>2, <1>4 DEF InLine, SerialAgent, NextByte, Null
<1> QED BY <1>3 DEF b

\* transfer_data drops a buffer that is sent.
LEMMA BufferDropped ==
    ASSUME NEW a, NEW reading, InLine(a, reading), a.buf # Null
    PROVE  InLine(Drained(a), reading) /\ Drained(a).res = a.res
  BY DEF Drained, InLine, SerialAgent, NextByte, Null

-----------------------------------------------------------------------------
(* The parts of the invariant. *)

Waiting == {c \in ToSet(dispatch_queue) : client[c] = "got"}

\* The clients g_payload may count are finitely many.
LEMMA CountedFinite ==
    ASSUME JobsInv
    PROVE  /\ IsFiniteSet(ToSet(dispatch_queue)) /\ ToSet(dispatch_queue) \in SUBSET Clients
           /\ IsFiniteSet(Waiting) /\ Cardinality(Waiting) \in Nat
<1>1. IsFiniteSet(ToSet(dispatch_queue))
  BY OnceEach DEF JobsInv
<1>2. Waiting \subseteq ToSet(dispatch_queue)
  BY DEF Waiting
<1>3. ToSet(dispatch_queue) \in SUBSET Clients
  BY DEF JobsInv, ToSet
<1> QED BY <1>1, <1>2, <1>3, FS_Subset, FS_CardinalityType

\* Only one agent and its read change.
LEMMA OneAgent ==
    ASSUME AgentsInv, NEW c \in Clients,
           DOMAIN agent' = Clients, DOMAIN aio' = Clients, UNCHANGED orphan,
           AgentOK(agent'[c], aio'[c] # "none"),
           \A d \in Clients \ {c} : client'[d] = client[d],
           c \in ToSet(dispatch_queue') <=> agent'[c] # NoAgent,
           \A d \in Clients \ {c} : /\ agent'[d] = agent[d] /\ aio'[d] = aio[d]
                                    /\ d \in ToSet(dispatch_queue') <=> d \in ToSet(dispatch_queue)
    PROVE  AgentsInv'
<1>1. ASSUME NEW d \in Clients
      PROVE  /\ AgentOK(agent'[d], aio'[d] # "none") \/ Orphaned(d)'
             /\ (d \in ToSet(dispatch_queue') <=> agent'[d] # NoAgent)
  BY DEF AgentsInv, Orphaned
<1> QED BY <1>1 DEF AgentsInv

\* ~http_client releases the job and the agent, or leaves both to the dispatch
\* thread, marked.
LEMMA DestroyKeeps ==
    ASSUME PInv, NEW c \in Clients, client[c] \in {"recv", "got"}, destroy(c),
           UNCHANGED <<orphan, disp>>
    PROVE  PInv'
<1> USE DEF PInv
<1>0. /\ client \in [Clients -> {"none", "recv", "got", "gone"}]
      /\ client' = [client EXCEPT ![c] = "gone"] /\ session' = session \ {c}
      /\ session \in SUBSET {d \in Clients : client[d] = "got"} /\ Unlocked
      /\ payload' = payload - 1 /\ payload \in Int
  BY DEF JobsInv, destroy, leave, PayloadInv
<1>1. /\ client' \in [Clients -> {"none", "recv", "got", "gone"}] /\ client'[c] = "gone"
      /\ \A d \in Clients \ {c} : client'[d] = client[d]
      /\ session' \in SUBSET {d \in Clients : client'[d] = "got"}
  BY <1>0
<1>2. ToSet(dispatch_queue) \in SUBSET Clients
  BY CountedFinite
<1>3. DispInv'
  <2>1. disp'.pc \in {"top", "wait"}
    BY <1>0 DEF Unlocked
  <2> QED BY <2>1 DEF DispInv
<1>4. /\ ToSet(dispatch_queue') \ {c} = ToSet(dispatch_queue) \ {c}
      /\ JobsInv' /\ AgentsInv'
  <2>1. CASE c \notin ToSet(dispatch_queue)
    <3>1. UNCHANGED <<dispatch_queue, job, agent, aio>>
      BY <2>1 DEF destroy, delete_client
    <3>2. JobsInv'
      BY <1>1, <1>2, <2>1, <3>1 DEF JobsInv
    <3>3. AgentsInv'
      BY <1>1, <3>1 DEF AgentsInv, Orphaned
    <3> QED BY <3>1, <3>2, <3>3
  <2>2. CASE c \in ToSet(dispatch_queue) /\ close_fails(c)
    <3>1. job' = [job EXCEPT ![c].closing = TRUE] /\ UNCHANGED <<dispatch_queue, agent, aio>>
      BY <2>2 DEF destroy, delete_client
    <3>2. /\ job' \in [Clients -> JobType]
          /\ job'[c].closing /\ \A d \in Clients \ {c} : job'[d] = job[d]
      BY <3>1 DEF JobsInv, JobType
    <3>3. JobsInv'
      <4>1. \A d \in ToSet(dispatch_queue) : client'[d] = IF job'[d].closing THEN "gone" ELSE "got"
        BY <1>1, <1>2, <3>2 DEF JobsInv
      <4>2. \A d \in Clients : job'[d].closing => d \in ToSet(dispatch_queue)
        BY <2>2, <3>2 DEF JobsInv
      <4> QED BY <1>1, <3>1, <3>2, <4>1, <4>2 DEF JobsInv
    <3>4. AgentsInv'
      BY <1>1, <3>1 DEF AgentsInv, Orphaned
    <3> QED BY <3>1, <3>3, <3>4
  <2>3. CASE c \in ToSet(dispatch_queue) /\ ~close_fails(c)
    <3>1. forget(c)
      BY <2>3 DEF destroy, delete_client
    <3>2. dispatch_queue' \in Seq(Clients) /\ NoDup(dispatch_queue') /\ ToSet(dispatch_queue') = ToSet(dispatch_queue) \ {c}
      BY <2>3, <3>1, RemoveFirstOnce DEF JobsInv, forget
    <3>3. /\ job' \in [Clients -> JobType]
          /\ \A d \in Clients \ {c} : job'[d] = job[d]
      BY <3>1 DEF JobsInv, JobType, forget, NoJob
    <3>4. JobsInv'
      <4>1. ~job'[c].closing
        BY <3>1 DEF JobsInv, forget, NoJob
      <4>2. \A d \in ToSet(dispatch_queue') : client'[d] = IF job'[d].closing THEN "gone" ELSE "got"
        BY <1>1, <1>2, <3>2, <3>3 DEF JobsInv
      <4>3. \A d \in Clients : job'[d].closing => d \in ToSet(dispatch_queue')
        BY <3>2, <3>3, <4>1 DEF JobsInv
      <4> QED BY <1>1, <3>2, <3>3, <4>2, <4>3 DEF JobsInv
    <3>5. AgentsInv'
      <4>1. /\ DOMAIN agent' = Clients /\ DOMAIN aio' = Clients
            /\ agent'[c] = NoAgent /\ aio'[c] = "none"
            /\ \A d \in Clients \ {c} : agent'[d] = agent[d] /\ aio'[d] = aio[d]
        BY <3>1 DEF forget, AgentsInv
      <4>2. AgentOK(agent'[c], aio'[c] # "none")
        BY <4>1 DEF AgentOK
      <4> QED BY <1>1, <3>2, <4>1, <4>2, OneAgent
    <3> QED BY <3>2, <3>4, <3>5
  <2> QED BY <2>1, <2>2, <2>3
<1>5. Waiting' = Waiting \ {c}
  BY <1>1, <1>2, <1>4 DEF Waiting
<1>6. PayloadInv'
  <2>1. IsFiniteSet(Waiting) /\ Cardinality(Waiting) \in Nat /\ payload <= Cardinality(Waiting)
    BY CountedFinite DEF PayloadInv, PayloadNotOver, Waiting
  <2>2. Cardinality(Waiting \ {c}) = IF c \in Waiting THEN Cardinality(Waiting) - 1
                                     ELSE Cardinality(Waiting)
    BY <2>1, FS_RemoveElement
  <2>3. payload' <= Cardinality(Waiting')
    BY <1>0, <1>5, <2>1, <2>2
  <2> QED BY <1>0, <2>3 DEF PayloadInv, PayloadNotOver, Waiting
<1> QED BY <1>3, <1>4, <1>6

\* The life of a client that has no job changes.
LEMMA ClientKeeps ==
    ASSUME PInv, NEW c \in Clients, client[c] \in {"none", "recv"},
           NEW l \in {"none", "recv", "got", "gone"}, client' = [client EXCEPT ![c] = l],
           session' = IF l = "got" THEN session \union {c} ELSE session,
           UNCHANGED <<payload, dispatch_queue, job, agent, aio, orphan, disp>>
    PROVE  PInv'
<1> USE DEF PInv
<1>1. ToSet(dispatch_queue) \in SUBSET Clients /\ c \notin ToSet(dispatch_queue)
  BY CountedFinite DEF JobsInv
<1>2. /\ client' \in [Clients -> {"none", "recv", "got", "gone"}] /\ client'[c] = l
      /\ \A d \in Clients \ {c} : client'[d] = client[d]
  BY DEF JobsInv
<1>3. session' \in SUBSET {d \in Clients : client'[d] = "got"}
  BY <1>2 DEF JobsInv
<1>4. JobsInv'
  BY <1>1, <1>2, <1>3 DEF JobsInv
<1>5. Waiting' = Waiting
  BY <1>1, <1>2 DEF Waiting
<1>6. PayloadInv'
  BY <1>5 DEF PayloadInv, PayloadNotOver, Waiting
<1>7. AgentsInv' /\ DispInv'
  BY <1>2 DEF AgentsInv, Orphaned, DispInv
<1> QED BY <1>4, <1>6, <1>7

\* A client that cannot be answered goes with its agent, and may leave a read.
LEMMA ResponseKeeps ==
    ASSUME PInv, NEW c \in Clients, NEW q \in Requests, ResponseFails(c, q)
    PROVE  PInv'
<1> USE DEF PInv
<1>1. /\ client[c] = "recv" /\ Unlocked
      /\ client' = [client EXCEPT ![c] = "gone"] /\ session' = session \ {c}
      /\ payload' = payload - 1 /\ UNCHANGED <<dispatch_queue, job, agent, disp>>
      /\ \/ aio' = [aio EXCEPT ![c] = "queued"] /\ orphan' = orphan \union {c}
         \/ UNCHANGED <<aio, orphan>>
  BY DEF ResponseFails, leave
<1>2. /\ ToSet(dispatch_queue) \in SUBSET Clients /\ c \notin ToSet(dispatch_queue)
      /\ IsFiniteSet(Waiting) /\ Cardinality(Waiting) \in Nat
  BY <1>1, CountedFinite DEF JobsInv
<1>3. /\ client' \in [Clients -> {"none", "recv", "got", "gone"}] /\ client'[c] = "gone"
      /\ \A d \in Clients \ {c} : client'[d] = client[d]
  BY <1>1 DEF JobsInv
<1>4. JobsInv'
  <2>1. session' \in SUBSET {d \in Clients : client'[d] = "got"}
    BY <1>1, <1>3 DEF JobsInv
  <2> QED BY <1>1, <1>2, <1>3, <2>1 DEF JobsInv
<1>5. AgentsInv'
  <2>1. agent[c] = NoAgent
    BY <1>2 DEF AgentsInv
  <2>2. CASE aio' = [aio EXCEPT ![c] = "queued"] /\ orphan' = orphan \union {c}
    <3>1. Orphaned(c)'
      BY <1>1, <1>3, <2>1, <2>2 DEF Orphaned
    <3>2. DOMAIN aio' = Clients /\ \A d \in Clients \ {c} : aio'[d] = aio[d]
      BY <2>2 DEF AgentsInv
    <3> QED BY <1>1, <1>3, <2>2, <3>1, <3>2 DEF AgentsInv, Orphaned
  <2>3. CASE UNCHANGED <<aio, orphan>>
    BY <1>1, <1>3, <2>3 DEF AgentsInv, Orphaned
  <2> QED BY <1>1, <2>2, <2>3
<1>6. DispInv'
  BY <1>1 DEF DispInv
<1>7. Waiting' = Waiting
  BY <1>1, <1>2, <1>3 DEF Waiting
<1>8. PayloadInv'
  BY <1>1, <1>2, <1>7 DEF PayloadInv, PayloadNotOver, Waiting
<1> QED BY <1>4, <1>5, <1>6, <1>8

\* handle_request starts a transfer.
LEMMA TransferKeeps ==
    ASSUME PInv, NEW c \in Clients, NEW q \in Requests, Transfer(c, q)
    PROVE  PInv'
<1> USE DEF PInv
<1>1. /\ ToSet(dispatch_queue) \in SUBSET Clients /\ c \notin ToSet(dispatch_queue)
      /\ IsFiniteSet(Waiting) /\ Cardinality(Waiting) \in Nat
  BY CountedFinite DEF JobsInv, Transfer
<1>2. /\ client' \in [Clients -> {"none", "recv", "got", "gone"}] /\ client'[c] = "got"
      /\ \A d \in Clients \ {c} : client'[d] = client[d]
  BY DEF JobsInv, Transfer
<1>3. session' \in SUBSET {d \in Clients : client'[d] = "got"}
  BY <1>2 DEF JobsInv, Transfer
<1>4. dispatch_queue' \in Seq(Clients) /\ NoDup(dispatch_queue') /\ ToSet(dispatch_queue') = ToSet(dispatch_queue) \cup {c}
  BY <1>1, AppendOnce DEF JobsInv, Transfer, handle_start_transfer_data, push_job
<1>5. JobsInv'
  <2>1. ~job[c].closing
    BY <1>1 DEF JobsInv, Transfer
  <2> QED BY <1>1, <1>2, <1>3, <1>4, <2>1 DEF JobsInv, Transfer
<1>6. AgentsInv'
  <2>0. UNCHANGED orphan
    BY DEF Transfer
  <2>1. /\ mem_cache_transfer(asked(q)) \in MemAgent
        /\ InLine(serial_file_transfer(asked(q)), FALSE)
        /\ serial_file_transfer(asked(q)).res = Null
    BY RangeType, NewAgents
  <2>2. aio[c] = "none" /\ DOMAIN agent = Clients /\ DOMAIN aio = Clients
    <3>1. agent[c] = NoAgent /\ AgentOK(agent[c], aio[c] # "none")
      BY <1>1 DEF AgentsInv, Orphaned, Transfer
    <3>2. ~InLine(NoAgent, aio[c] # "none")
      BY DEF InLine, NoAgent, SerialAgent
    <3> QED BY <3>1, <3>2 DEF AgentOK, AgentsInv
  <2>3. CASE /\ agent' = [agent EXCEPT ![c] = mem_cache_transfer(asked(q))]
             /\ UNCHANGED aio
    <3>1. AgentOK(agent'[c], aio'[c] # "none") /\ agent'[c] # NoAgent
      BY <2>1, <2>2, <2>3 DEF AgentOK, MemAgent, NoAgent
    <3> QED BY <1>2, <1>4, <2>0, <2>2, <2>3, <3>1, OneAgent
  <2>4. CASE /\ agent' = [agent EXCEPT ![c] = start_read(serial_file_transfer(asked(q)))]
             /\ aio' = [aio EXCEPT ![c] = "queued"]
    <3>1. agent'[c] = start_read(serial_file_transfer(asked(q))) /\ aio'[c] = "queued"
      BY <2>2, <2>4
    <3>2. InLine(agent'[c], TRUE)
      BY <2>1, <3>1, StartRead
    <3>3. AgentOK(agent'[c], aio'[c] # "none") /\ agent'[c] # NoAgent
      BY <3>1, <3>2 DEF AgentOK, InLine, SerialAgent, NoAgent
    <3> QED BY <1>2, <1>4, <2>0, <2>2, <2>4, <3>3, OneAgent
  <2>5. CASE agent' = [agent EXCEPT ![c] = serial_file_transfer(asked(q))] /\ UNCHANGED aio
    <3>1. agent'[c] = serial_file_transfer(asked(q)) /\ aio'[c] = "none"
      BY <2>2, <2>5
    <3>2. InLine(agent'[c], FALSE)
      BY <2>1, <3>1
    <3>3. AgentOK(agent'[c], aio'[c] # "none") /\ agent'[c] # NoAgent
      BY <3>1, <3>2 DEF AgentOK, InLine, SerialAgent, NoAgent
    <3> QED BY <1>2, <1>4, <2>0, <2>2, <2>5, <3>3, OneAgent
  <2> QED BY <2>3, <2>4, <2>5 DEF Transfer, start_aio
<1>7. DispInv'
  <2>1. disp'.pc \in {"top", "begin"} /\ disp' \in DispType
    BY DEF DispInv, DispType, Places, Transfer, handle_start_transfer_data, push_job, Unlocked
  <2> QED BY <2>1 DEF DispInv
<1>8. Waiting' = Waiting \cup {c} /\ c \notin Waiting
  BY <1>1, <1>2, <1>4 DEF Waiting
<1>9. PayloadInv'
  <2>1. Cardinality(Waiting') = Cardinality(Waiting) + 1
    BY <1>1, <1>8, FS_AddElement
  <2>2. payload' = payload + 1 /\ payload \in Int /\ payload <= Cardinality(Waiting)
    BY DEF PayloadInv, PayloadNotOver, Waiting, Transfer, handle_start_transfer_data
  <2>3. payload' <= Cardinality(Waiting')
    BY <1>1, <2>1, <2>2
  <2> QED BY <2>2, <2>3 DEF PayloadInv, PayloadNotOver, Waiting
<1> QED BY <1>5, <1>6, <1>7, <1>9

\* The reactor thread.
LEMMA ReactorThreadKeeps == ASSUME PInv, ReactorThread PROVE PInv'
<1>1. PICK c \in Clients :
        \/ Open(c) \/ NoRequest(c) \/ HangUp(c) \/ handle_msg(c)
        \/ \E q \in Requests : Refuse(c, q) \/ Decline(c, q) \/ Miss(c, q)
                               \/ OpenFails(c, q) \/ ResponseFails(c, q) \/ Transfer(c, q)
  BY DEF ReactorThread
<1>2. CASE Open(c)
  BY <1>2, ClientKeeps DEF Open
<1>3. CASE NoRequest(c)
  BY <1>3, ClientKeeps DEF NoRequest
<1>4. CASE HangUp(c)
  BY <1>4, DestroyKeeps DEF HangUp
<1>5. CASE handle_msg(c)
  <2>1. CASE c \in session
    BY <1>5, <2>1, DestroyKeeps DEF handle_msg, PInv, JobsInv
  <2>2. CASE c \notin session
    BY <1>5, <2>2 DEF handle_msg, PInv, JobsInv, AgentsInv, Orphaned, DispInv, PayloadInv,
                        PayloadNotOver
  <2> QED BY <2>1, <2>2
<1>6. ASSUME NEW q \in Requests, Refuse(c, q) PROVE PInv'
  BY <1>6, ClientKeeps DEF Refuse
<1>7. ASSUME NEW q \in Requests, Miss(c, q) PROVE PInv'
  BY <1>7, ClientKeeps DEF Miss
<1>8. ASSUME NEW q \in Requests, Decline(c, q) \/ OpenFails(c, q) PROVE PInv'
  BY <1>8, DestroyKeeps DEF Decline, OpenFails
<1> QED BY <1>1, <1>2, <1>3, <1>4, <1>5, <1>6, <1>7, <1>8, TransferKeeps, ResponseKeeps

-----------------------------------------------------------------------------
(* The aio threads. *)

\* An agent whose read is pending is a serial one, if it is still there.
LEMMA ReaderIsSerial ==
    ASSUME AgentsInv, NEW c \in Clients, aio[c] # "none", ~Orphaned(c)
    PROVE  InLine(agent[c], TRUE) /\ agent[c].kind = "serial" /\ agent[c] # NoAgent
<1>1. AgentOK(agent[c], TRUE)
  BY DEF AgentsInv
<1>2. InLine(agent[c], TRUE)
  BY <1>1 DEF AgentOK
<1> QED BY <1>2 DEF InLine, SerialAgent, NoAgent

LEMMA AioThreadKeeps == ASSUME PInv, Defined, AioThread PROVE PInv'
<1> USE DEF PInv
<1>1. PICK c \in Clients : AioStart(c) \/ AioDone(c)
  BY DEF AioThread
<1>2. /\ UNCHANGED <<client, session, payload, dispatch_queue, job, orphan, notes, disp>>
      /\ aio[c] # "none" /\ DOMAIN agent = Clients /\ DOMAIN aio = Clients
  BY <1>1 DEF AioStart, AioDone, AgentsInv
<1>4. JobsInv' /\ PayloadInv'
  BY <1>2 DEF JobsInv, PayloadInv, PayloadNotOver
<1>o. CASE Orphaned(c)
  <2>1. AioStart(c)
    BY <1>1, <1>o DEF AioDone, Defined, Orphaned
  <2>2. /\ agent' = agent /\ DOMAIN aio' = Clients /\ Orphaned(c)'
        /\ \A d \in Clients \ {c} : aio'[d] = aio[d]
    BY <1>2, <1>o, <2>1 DEF AioStart, Orphaned
  <2>3. AgentsInv'
    BY <1>2, <2>2 DEF AgentsInv, Orphaned
  <2>4. DispInv'
    BY <1>2, <2>2 DEF DispInv
  <2> QED BY <1>4, <2>3, <2>4
<1> SUFFICES ASSUME ~Orphaned(c) PROVE PInv'
  BY <1>o
<1>3. InLine(agent[c], TRUE) /\ agent[c] # NoAgent /\ c \in ToSet(dispatch_queue)
  BY <1>2, ReaderIsSerial DEF AgentsInv
<1>5. /\ AgentsInv' /\ agent'[c].buf = agent[c].buf
      /\ \A d \in Clients \ {c} : agent'[d] = agent[d]
  <2>1. CASE AioStart(c)
    <3>1. /\ agent' = agent /\ aio'[c] = "running" /\ DOMAIN aio' = Clients
          /\ \A d \in Clients \ {c} : aio'[d] = aio[d]
      BY <1>2, <2>1 DEF AioStart
    <3>2. AgentOK(agent'[c], aio'[c] # "none")
      BY <1>3, <3>1 DEF AgentOK
    <3> QED BY <1>2, <1>3, <3>1, <3>2, OneAgent
  <2>2. CASE AioDone(c)
    <3> DEFINE a == agent[c]
               left == IF a.off > FileLen THEN 0 ELSE FileLen - a.off
               n == SmallerOf(a.want, left)
    <3>1. PICK error \in BOOLEAN :
            /\ a.want < 0 => error
            /\ agent' = [agent EXCEPT ![c] = handle_aio_read(a, job[c].closing, n, error)]
      BY <2>2 DEF AioDone
    <3>2. job[c].closing \in BOOLEAN
      BY DEF JobsInv, JobType
    <3>3. a.want \in Int /\ left \in Nat
      BY <1>3, PushAssumption DEF InLine, SerialAgent
    <3>4. n \in Int /\ (a.want >= 0 => n \in Nat)
      BY <3>3 DEF SmallerOf
    <3> HIDE DEF n
    <3>5. PICK k \in Nat : (a.want >= 0 => k = n) /\ (a.want < 0 => k = 0)
      BY <3>3, <3>4
    <3>6. handle_aio_read(a, job[c].closing, n, error) = handle_aio_read(a, job[c].closing, k, error)
      <4>1. CASE error
        BY <4>1 DEF handle_aio_read
      <4>2. CASE ~error
        <5>1. k = n
          BY <3>1, <3>3, <3>5, <4>2
        <5> QED BY <5>1
      <4> QED BY <4>1, <4>2
    <3> DEFINE b == handle_aio_read(a, job[c].closing, k, error)
    <3>7. InLine(b, FALSE) /\ b.buf = a.buf
      BY <1>3, <3>2, ReadDone
    <3> HIDE DEF b
    <3>8. /\ agent'[c] = b /\ aio'[c] = "none" /\ DOMAIN aio' = Clients /\ DOMAIN agent' = Clients
          /\ \A d \in Clients \ {c} : aio'[d] = aio[d] /\ agent'[d] = agent[d]
      BY <1>2, <2>2, <3>1, <3>6 DEF AioDone, b
    <3>9. AgentOK(agent'[c], aio'[c] # "none") /\ agent'[c] # NoAgent
      BY <3>7, <3>8 DEF AgentOK, InLine, SerialAgent, NoAgent
    <3> QED BY <1>2, <1>3, <3>7, <3>8, <3>9, OneAgent
  <2> QED BY <1>1, <2>1, <2>2
<1>6. DispInv'
  <2>1. ASSUME disp.pc = "send", agent'[dispatch_queue[disp.i]].kind = "serial"
        PROVE  agent'[dispatch_queue[disp.i]].buf # Null
    <3>1. dispatch_queue[disp.i] \in Clients
      BY <2>1 DEF DispInv, JobsInv
    <3>2. agent[c].kind = "serial"
      BY <1>3 DEF InLine, SerialAgent
    <3> QED BY <1>5, <2>1, <3>1, <3>2 DEF DispInv
  <2> QED BY <1>2, <2>1 DEF DispInv
<1> QED BY <1>4, <1>5, <1>6

-----------------------------------------------------------------------------
(* The dispatch thread. *)

\* What the fields of a place are after a step.
LEMMA PlaceGoto ==
    ASSUME NEW d \in DispType, NEW p \in Places
    PROVE  Goto(d, p) \in DispType /\ Goto(d, p).pc = p /\ Goto(d, p).i = d.i
  BY DEF Goto, DispType

LEMMA PlaceNext ==
    ASSUME NEW d \in DispType
    PROVE  Next_i(d) \in DispType /\ Next_i(d).pc = "visit"
<1>1. d.i + 1 \in Nat \ {0} /\ "visit" \in Places
  BY DEF DispType, Places
<1> DEFINE j == d.i + 1
<1> HIDE DEF j
<1>2. [d EXCEPT !.pc = "visit", !.i = j] \in DispType /\ [d EXCEPT !.pc = "visit", !.i = j].pc = "visit"
  BY <1>1 DEF DispType, j
<1> QED BY <1>2 DEF Next_i, j

LEMMA PlaceSent ==
    ASSUME NEW d \in DispType, NEW n \in Nat
    PROVE  /\ [d EXCEPT !.sent = n] \in DispType
           /\ [d EXCEPT !.sent = n].pc = d.pc /\ [d EXCEPT !.sent = n].i = d.i
  BY DEF DispType

LEMMA PlaceStopped ==
    ASSUME NEW d \in DispType
    PROVE  /\ [d EXCEPT !.stopped = @ + 1] \in DispType
           /\ [d EXCEPT !.stopped = @ + 1].pc = d.pc
<1>1. d.stopped + 1 \in Nat
  BY DEF DispType
<1> DEFINE n == d.stopped + 1
<1> HIDE DEF n
<1>2. [d EXCEPT !.stopped = n] \in DispType /\ [d EXCEPT !.stopped = n].pc = d.pc
  BY <1>1 DEF DispType, n
<1> QED BY <1>2 DEF n

LEMMA PlaceRound ==
    ASSUME NEW d \in DispType, NEW p \in Places, NEW e,
           e = [d EXCEPT !.pc = p, !.i = 1, !.stopped = 0]
    PROVE  e \in DispType /\ e.pc = p
<1>1. ASSUME NEW i \in Nat \ {0}, NEW n \in Nat
      PROVE  /\ [d EXCEPT !.pc = p, !.i = i, !.stopped = n] \in DispType
             /\ [d EXCEPT !.pc = p, !.i = i, !.stopped = n].pc = p
  BY DEF DispType
<1>2. PICK i \in Nat \ {0}, n \in Nat : i = 1 /\ n = 0
  OBVIOUS
<1>3. e = [d EXCEPT !.pc = p, !.i = i, !.stopped = n]
  BY <1>2
<1>4. /\ [d EXCEPT !.pc = p, !.i = i, !.stopped = n] \in DispType
      /\ [d EXCEPT !.pc = p, !.i = i, !.stopped = n].pc = p
  BY <1>1, Zenon
<1> QED BY <1>3, <1>4, Zenon

LEMMA PlaceIdle ==
    ASSUME NEW d \in DispType, NEW b \in BOOLEAN, NEW e, e = [d EXCEPT !.idle = b]
    PROVE  e \in DispType /\ e.pc = d.pc
<1>1. [d EXCEPT !.idle = b] \in DispType /\ [d EXCEPT !.idle = b].pc = d.pc
  BY DEF DispType
<1> QED BY <1>1, Zenon

\* The inner loop of dispatch_data goes round again, or on to the next job.
LEMMA PlaceAgain ==
    ASSUME NEW d \in DispType
    PROVE  /\ [d EXCEPT !.pc = "transfer", !.sent = 0] \in DispType
           /\ [d EXCEPT !.pc = "transfer", !.sent = 0].pc = "transfer"
           /\ [d EXCEPT !.pc = "transfer", !.sent = 0].i = d.i
           /\ [Next_i(d) EXCEPT !.sent = 0] \in DispType
           /\ [Next_i(d) EXCEPT !.sent = 0].pc = "visit"
<1>1. "transfer" \in Places /\ 0 \in Nat
  BY DEF Places
<1> DEFINE g == Goto(d, "transfer")
           h == Next_i(d)
<1>2. g \in DispType /\ g.pc = "transfer" /\ g.i = d.i
  BY <1>1, PlaceGoto
<1>3. h \in DispType /\ h.pc = "visit"
  BY PlaceNext
<1>4. [d EXCEPT !.pc = "transfer", !.sent = 0] = [g EXCEPT !.sent = 0]
  BY DEF Goto
<1> HIDE DEF g, h
<1>5. [g EXCEPT !.sent = 0] \in DispType /\ [g EXCEPT !.sent = 0].pc = "transfer" /\ [g EXCEPT !.sent = 0].i = d.i
  BY <1>1, <1>2, PlaceSent
<1>6. [h EXCEPT !.sent = 0] \in DispType /\ [h EXCEPT !.sent = 0].pc = "visit"
  BY <1>1, <1>3, PlaceSent
<1> QED BY <1>4, <1>5, <1>6 DEF h

\* The budget and the end of one job change.
LEMMA JobBudget ==
    ASSUME NEW f \in [Clients -> JobType], NEW c \in Clients, NEW x \in Int, NEW g,
           g = [f EXCEPT ![c].budget = x]
    PROVE  g \in [Clients -> JobType] /\ \A d \in Clients : g[d].closing = f[d].closing
<1>1. [f[c] EXCEPT !.budget = x] \in JobType /\ [f[c] EXCEPT !.budget = x].closing = f[c].closing
  BY DEF JobType
<1>2. [f EXCEPT ![c].budget = x] \in [Clients -> JobType]
  BY <1>1
<1>3. \A d \in Clients : [f EXCEPT ![c].budget = x][d].closing = f[d].closing
  BY <1>1
<1> QED BY <1>2, <1>3, Zenon

LEMMA JobStopped ==
    ASSUME NEW f \in [Clients -> JobType], NEW c \in Clients, NEW b \in BOOLEAN, NEW g,
           g = [f EXCEPT ![c].stopped = b]
    PROVE  g \in [Clients -> JobType] /\ \A d \in Clients : g[d].closing = f[d].closing
<1>1. [f[c] EXCEPT !.stopped = b] \in JobType /\ [f[c] EXCEPT !.stopped = b].closing = f[c].closing
  BY DEF JobType
<1>2. [f EXCEPT ![c].stopped = b] \in [Clients -> JobType]
  BY <1>1
<1>3. \A d \in Clients : [f EXCEPT ![c].stopped = b][d].closing = f[d].closing
  BY <1>1
<1> QED BY <1>2, <1>3, Zenon

\* The job dispatch_data works on.
LEMMA JobAtHand ==
    ASSUME JobsInv, AgentsInv, disp.i \in 1 .. Len(dispatch_queue)
    PROVE  /\ dispatch_queue[disp.i] \in Clients /\ dispatch_queue[disp.i] \in ToSet(dispatch_queue)
           /\ agent[dispatch_queue[disp.i]] # NoAgent
           /\ AgentOK(agent[dispatch_queue[disp.i]], aio[dispatch_queue[disp.i]] # "none")
<1>1. dispatch_queue[disp.i] \in Clients /\ dispatch_queue[disp.i] \in ToSet(dispatch_queue)
  BY DEF JobsInv, ToSet
<1> QED BY <1>1 DEF AgentsInv, Orphaned

\* The budget and the end of a job change, the rest of it does not.
LEMMA JobKeeps ==
    ASSUME JobsInv, PayloadInv, UNCHANGED <<client, session, payload, dispatch_queue>>,
           job' \in [Clients -> JobType],
           \A d \in Clients : job'[d].closing = job[d].closing
    PROVE  JobsInv' /\ PayloadInv'
<1>1. ToSet(dispatch_queue) \in SUBSET Clients
  BY CountedFinite
<1> QED BY <1>1 DEF JobsInv, PayloadInv, PayloadNotOver

\* What dispatch_data does with a result of transfer_data.
LEMMA AfterKeeps ==
    ASSUME PInv, NEW c \in Clients, NEW sent \in Int, NEW total, NEW result \in Int,
           After(c, sent, total, result), disp.pc \in {"transfer", "send"},
           UNCHANGED <<client, session, payload, dispatch_queue>>
    PROVE  JobsInv' /\ PayloadInv' /\ DispInv'
<1> USE DEF PInv
<1> DEFINE end == total = agent[c].len \/ result < 0
<1>1. /\ job' = [job EXCEPT ![c].budget = @ - sent, ![c].stopped = end]
      /\ disp' = IF end \/ result = 0 THEN [Next_i(disp) EXCEPT !.sent = 0]
                 ELSE [disp EXCEPT !.pc = "transfer", !.sent = 0]
  BY DEF After
<1>2. end \in BOOLEAN
  OBVIOUS
<1> HIDE DEF end
<1>3. /\ job' \in [Clients -> JobType]
      /\ \A d \in Clients : job'[d].closing = job[d].closing
  <2>1. job \in [Clients -> JobType] /\ job[c].budget - sent \in Int
    BY DEF JobsInv, JobType
  <2> DEFINE x == job[c].budget - sent
             g == [job EXCEPT ![c].budget = x]
  <2>2. job' = [g EXCEPT ![c].stopped = end]
    BY <1>1
  <2> HIDE DEF x
  <2>3. x \in Int /\ g = [job EXCEPT ![c].budget = x]
    BY <2>1 DEF x
  <2> HIDE DEF g
  <2>4. g \in [Clients -> JobType] /\ \A d \in Clients : g[d].closing = job[d].closing
    BY <2>1, <2>3, JobBudget
  <2>5. PICK b \in BOOLEAN : b = end
    BY <1>2
  <2>6. job' = [g EXCEPT ![c].stopped = b]
    BY <2>2, <2>5
  <2>7. job' \in [Clients -> JobType] /\ \A d \in Clients : job'[d].closing = g[d].closing
    BY <2>4, <2>6, JobStopped
  <2> QED BY <2>4, <2>7
<1>4. JobsInv' /\ PayloadInv'
  BY <1>3, JobKeeps
<1>5. /\ disp' \in DispType
      /\ disp'.pc = "visit" \/ (disp'.pc = "transfer" /\ disp'.i = disp.i)
  <2>1. CASE end \/ result = 0
    BY <1>1, <2>1, PlaceAgain DEF DispInv
  <2>2. CASE ~(end \/ result = 0)
    BY <1>1, <2>2, PlaceAgain DEF DispInv
  <2> QED BY <2>1, <2>2
<1>6. DispInv'
  BY <1>5 DEF DispInv
<1> QED BY <1>4, <1>6

\* svc, and the ends of a round.
LEMMA RoundKeeps == ASSUME PInv, svc \/ RoundBegins \/ RoundEnds PROVE PInv'
<1> USE DEF PInv
<1>1. UNCHANGED <<client, session, payload, dispatch_queue, job, agent, aio, orphan>>
  BY DEF svc, RoundBegins, RoundEnds
<1>2. JobsInv' /\ AgentsInv' /\ PayloadInv'
  BY <1>1 DEF JobsInv, AgentsInv, Orphaned, PayloadInv, PayloadNotOver
<1>3. /\ disp' \in DispType
      /\ disp'.pc \in {"top", "wait", "begin", "visit"}
  <2>0. /\ disp \in DispType /\ 1 \in Nat \ {0} /\ 0 \in Nat
        /\ {"top", "wait", "begin", "visit"} \subseteq Places
    BY DEF DispInv, Places
  <2>1. CASE svc
    <3>1. PICK p \in {"wait", "begin"} : disp' = Goto(disp, p)
      BY <2>1 DEF svc
    <3>2. p \in Places
      BY <2>0
    <3> QED BY <2>0, <3>1, <3>2, PlaceGoto
  <2>2. CASE RoundBegins
    <3>1. disp' = [disp EXCEPT !.pc = "visit", !.i = 1, !.stopped = 0] /\ "visit" \in Places
      BY <2>0, <2>2 DEF RoundBegins
    <3>2. PICK p \in Places : p = "visit"
      BY <3>1
    <3>3. disp' = [disp EXCEPT !.pc = p, !.i = 1, !.stopped = 0]
      BY <3>1, <3>2
    <3>4. disp' \in DispType /\ disp'.pc = p
      BY <2>0, <3>3, PlaceRound
    <3> QED BY <3>2, <3>4
  <2>3. CASE RoundEnds
    <3> DEFINE b == disp.stopped = Len(dispatch_queue)
               e == [disp EXCEPT !.pc = "top", !.i = 1, !.stopped = 0]
    <3>1. b \in BOOLEAN /\ disp' = [e EXCEPT !.idle = b] /\ "top" \in Places
      BY <2>0, <2>3 DEF RoundEnds
    <3>2. PICK p \in Places : p = "top" /\ e = [disp EXCEPT !.pc = p, !.i = 1, !.stopped = 0]
      BY <3>1
    <3> HIDE DEF b, e
    <3>r. e = [disp EXCEPT !.pc = p, !.i = 1, !.stopped = 0]
      BY <3>2
    <3>3. e \in DispType /\ e.pc = p
      BY <2>0, <3>r, PlaceRound
    <3>4. disp' \in DispType /\ disp'.pc = e.pc
      BY <3>1, <3>3, PlaceIdle, Zenon
    <3> QED BY <3>2, <3>3, <3>4
  <2> QED BY <2>1, <2>2, <2>3
<1>4. DispInv'
  BY <1>3 DEF DispInv
<1> QED BY <1>2, <1>4

\* A visit: the job of a client that is gone is released once its read is done,
\* another one is given its bytes of this round.
LEMMA VisitKeeps == ASSUME PInv, Visit PROVE PInv'
<1> USE DEF PInv
<1> DEFINE c == dispatch_queue[disp.i]
<1>1. disp.pc = "visit" /\ disp.i \in 1 .. Len(dispatch_queue)
  BY DEF Visit, DispInv, DispType, JobsInv
<1>2. c \in Clients /\ c \in ToSet(dispatch_queue) /\ ToSet(dispatch_queue) \in SUBSET Clients
  BY <1>1, JobAtHand, CountedFinite
<1> HIDE DEF c
<1>3. CASE job[c].closing
  <2>1. CheckPending(c)
    BY <1>3 DEF Visit, c
  <2>2. CASE close_fails(c)
    <3>1. UNCHANGED <<client, session, payload, dispatch_queue, job, agent, aio, orphan>> /\ disp' = Next_i(disp)
      BY <2>1, <2>2 DEF CheckPending
    <3>2. DispInv'
      BY <3>1, PlaceNext DEF DispInv
    <3> QED BY <3>1, <3>2 DEF JobsInv, AgentsInv, Orphaned, PayloadInv, PayloadNotOver
  <2>3. CASE ~close_fails(c)
    <3>1. forget(c) /\ UNCHANGED <<client, session, payload, orphan, disp>>
      BY <2>1, <2>3 DEF CheckPending
    <3>2. dispatch_queue' \in Seq(Clients) /\ NoDup(dispatch_queue') /\ ToSet(dispatch_queue') = ToSet(dispatch_queue) \ {c}
      BY <1>2, <3>1, RemoveFirstOnce DEF JobsInv, forget
    <3>3. /\ job' \in [Clients -> JobType]
          /\ ~job'[c].closing /\ \A d \in Clients \ {c} : job'[d] = job[d]
      BY <1>2, <3>1 DEF JobsInv, JobType, forget, NoJob
    <3>4. JobsInv'
      <4>1. \A d \in ToSet(dispatch_queue') : client[d] = IF job'[d].closing THEN "gone" ELSE "got"
        BY <1>2, <3>2, <3>3 DEF JobsInv
      <4>2. \A d \in Clients : job'[d].closing => d \in ToSet(dispatch_queue')
        BY <3>2, <3>3 DEF JobsInv
      <4> QED BY <3>1, <3>2, <3>3, <4>1, <4>2 DEF JobsInv
    <3>5. AgentsInv'
      <4>1. /\ DOMAIN agent' = Clients /\ DOMAIN aio' = Clients
            /\ agent'[c] = NoAgent /\ aio'[c] = "none"
            /\ \A d \in Clients \ {c} : agent'[d] = agent[d] /\ aio'[d] = aio[d]
        BY <1>2, <3>1 DEF forget, AgentsInv
      <4>2. AgentOK(agent'[c], aio'[c] # "none")
        BY <4>1 DEF AgentOK
      <4> QED BY <1>2, <3>1, <3>2, <4>1, <4>2, OneAgent
    <3>6. Waiting' = Waiting
      BY <1>2, <1>3, <3>1, <3>2 DEF Waiting, JobsInv
    <3>7. PayloadInv'
      BY <3>1, <3>6 DEF PayloadInv, PayloadNotOver, Waiting
    <3>8. DispInv'
      BY <1>1, <3>1 DEF DispInv
    <3> QED BY <3>4, <3>5, <3>7, <3>8
  <2> QED BY <2>2, <2>3
<1>4. CASE ~job[c].closing
  <2>1. /\ UNCHANGED <<client, session, payload, dispatch_queue, agent, aio, orphan>>
        /\ \/ /\ disp' = [Next_i(disp) EXCEPT !.stopped = @ + 1]
              /\ UNCHANGED job
           \/ out_of_bandwidth(c)
           \/ /\ job' = [job EXCEPT ![c].budget = @ + Quantum]
              /\ disp' = [disp EXCEPT !.pc = "transfer", !.sent = 0]
    BY <1>4 DEF Visit, c
  <2>2. /\ job' \in [Clients -> JobType]
        /\ \A d \in Clients : job'[d].closing = job[d].closing
    <3>1. 0 \in Int /\ job[c].budget + Quantum \in Int /\ job \in [Clients -> JobType] /\ TRUE \in BOOLEAN
      BY <1>2, PushAssumption DEF JobsInv, JobType
    <3>2. CASE job' = job
      BY <3>2 DEF JobsInv
    <3>3. CASE job' = [job EXCEPT ![c].budget = 0]
      BY <1>2, <3>1, <3>3, JobBudget
    <3>4. CASE job' = [job EXCEPT ![c].budget = @ + Quantum]
      <4> DEFINE x == job[c].budget + Quantum
      <4>1. job' = [job EXCEPT ![c].budget = x] /\ x \in Int
        BY <3>1, <3>4
      <4> HIDE DEF x
      <4> QED BY <1>2, <3>1, <4>1, JobBudget
    <3> QED BY <2>1, <3>2, <3>3, <3>4 DEF out_of_bandwidth
  <2>3. JobsInv' /\ PayloadInv'
    BY <2>1, <2>2, JobKeeps
  <2>4. AgentsInv'
    BY <2>1 DEF AgentsInv, Orphaned
  <2>5. /\ disp' \in DispType
        /\ disp'.pc = "visit" \/ (disp'.pc = "transfer" /\ disp'.i = disp.i)
    <3>1. CASE disp' = [Next_i(disp) EXCEPT !.stopped = @ + 1]
      BY <3>1, PlaceNext, PlaceStopped DEF DispInv
    <3>2. CASE disp' = Next_i(disp)
      BY <3>2, PlaceNext DEF DispInv
    <3>3. CASE disp' = [disp EXCEPT !.pc = "transfer", !.sent = 0]
      BY <3>3, PlaceAgain DEF DispInv
    <3> QED BY <2>1, <3>1, <3>2, <3>3 DEF out_of_bandwidth
  <2>6. DispInv'
    BY <1>1, <2>1, <2>5 DEF DispInv
  <2> QED BY <2>3, <2>4, <2>6
<1> QED BY <1>3, <1>4

\* transfer_data up to the first send.
LEMMA FetchKeeps == ASSUME PInv, FetchBuffer PROVE PInv'
<1> USE DEF PInv
<1> DEFINE c == dispatch_queue[disp.i]
           a == agent[c]
<1>1. /\ disp.pc = "transfer" /\ disp.i \in 1 .. Len(dispatch_queue) /\ disp \in DispType
      /\ UNCHANGED <<client, session, payload, dispatch_queue, orphan>>
      /\ DOMAIN agent = Clients /\ DOMAIN aio = Clients
  BY DEF FetchBuffer, DispInv, AgentsInv
<1>2. /\ c \in Clients /\ c \in ToSet(dispatch_queue) /\ a # NoAgent /\ AgentOK(a, aio[c] # "none")
  BY <1>1, JobAtHand
<1>3. CASE disp' = Next_i(disp) /\ UNCHANGED <<job, agent, aio>>
  <2>1. disp' \in DispType /\ disp'.pc = "visit"
    BY <1>1, <1>3, PlaceNext
  <2> QED BY <1>1, <1>3, <2>1 DEF JobsInv, AgentsInv, Orphaned, DispInv, PayloadInv, PayloadNotOver
<1>4. CASE /\ a.kind = "mem" \/ (a.kind = "serial" /\ a.buf # Null)
           /\ disp' = Goto(disp, "send") /\ UNCHANGED <<job, agent, aio>>
  <2>1. disp' \in DispType /\ disp'.pc = "send" /\ disp'.i = disp.i
    BY <1>1, <1>4, PlaceGoto DEF Places
  <2> QED BY <1>1, <1>4, <2>1 DEF JobsInv, AgentsInv, Orphaned, DispInv, PayloadInv, PayloadNotOver
<1>A. ASSUME After(c, 0, a.sent, 0) PROVE JobsInv' /\ PayloadInv' /\ DispInv'
  <2> HIDE DEF c, a
  <2>1. 0 \in Int /\ UNCHANGED <<client, session, payload, dispatch_queue>>
    BY <1>1
  <2> QED BY <1>1, <1>2, <1>A, <2>1, AfterKeeps
<1>5. CASE After(c, 0, a.sent, 0) /\ agent' = agent /\ aio' = aio
  <2>1. JobsInv' /\ PayloadInv' /\ DispInv'
    BY <1>5, <1>A
  <2> QED BY <1>1, <1>5, <2>1 DEF AgentsInv, Orphaned
<1>8. CASE /\ agent' = [agent EXCEPT ![c] = a] /\ aio' = aio
           /\ After(c, 0, a.sent, 0)
  <2>1. JobsInv' /\ PayloadInv' /\ DispInv'
    BY <1>8, <1>A
  <2>2. agent'[c] = a /\ DOMAIN agent' = Clients /\ \A d \in Clients \ {c} : agent'[d] = agent[d]
    BY <1>1, <1>2, <1>8
  <2>3. \A d \in Clients : agent'[d] = agent[d]
    BY <2>2
  <2> HIDE DEF c, a
  <2> QED BY <1>1, <1>8, <2>1, <2>2, <2>3 DEF AgentsInv, Orphaned
<1>6. CASE /\ aio[c] = "none" /\ a.res = Null /\ a.kind = "serial"
           /\ agent' = [agent EXCEPT ![c] = start_read(a)]
           /\ aio' = [aio EXCEPT ![c] = "queued"]
           /\ After(c, 0, a.sent, 0)
  <2>1. JobsInv' /\ PayloadInv' /\ DispInv'
    BY <1>6, <1>A
  <2>2. InLine(a, FALSE)
    BY <1>2, <1>6 DEF AgentOK, NoAgent, MemAgent
  <2>3. InLine(start_read(a), TRUE)
    BY <1>6, <2>2, StartRead
  <2> HIDE DEF a
  <2>4. AgentOK(start_read(a), TRUE) /\ start_read(a) # NoAgent
    BY <2>3 DEF AgentOK, InLine, SerialAgent, NoAgent
  <2>5. /\ agent'[c] = start_read(a) /\ aio'[c] = "queued" /\ DOMAIN agent' = Clients /\ DOMAIN aio' = Clients
        /\ \A d \in Clients \ {c} : agent'[d] = agent[d] /\ aio'[d] = aio[d]
    BY <1>1, <1>2, <1>6
  <2>6. AgentsInv'
    BY <1>1, <1>2, <2>4, <2>5, OneAgent
  <2> QED BY <2>1, <2>6
<1>7. CASE /\ aio[c] = "none" /\ a.res # Null /\ a.kind = "serial" /\ a.buf = Null
           /\ agent' = [agent EXCEPT ![c] = TakeReserve(a)]
           /\ disp' = Goto(disp, "send")
           /\ UNCHANGED <<job, aio>>
  <2>1. InLine(a, FALSE)
    BY <1>2, <1>7 DEF AgentOK, NoAgent, MemAgent
  <2>2. InLine(TakeReserve(a), FALSE) /\ TakeReserve(a).buf # Null
    BY <1>7, <2>1, ReserveTaken
  <2>3. /\ agent'[c] = TakeReserve(a) /\ aio'[c] = "none" /\ DOMAIN agent' = Clients /\ DOMAIN aio' = Clients
        /\ \A d \in Clients \ {c} : agent'[d] = agent[d] /\ aio'[d] = aio[d]
    BY <1>1, <1>2, <1>7
  <2> HIDE DEF a
  <2>4. AgentOK(TakeReserve(a), FALSE) /\ TakeReserve(a) # NoAgent
    BY <2>2 DEF AgentOK, InLine, SerialAgent, NoAgent
  <2>5. AgentsInv'
    BY <1>1, <1>2, <2>3, <2>4, OneAgent
  <2>6. disp' \in DispType /\ disp'.pc = "send" /\ disp'.i = disp.i
    BY <1>1, <1>7, PlaceGoto DEF Places
  <2>7. DispInv'
    BY <1>1, <2>2, <2>3, <2>6 DEF DispInv
  <2> QED BY <1>1, <1>7, <2>5, <2>7 DEF JobsInv, PayloadInv, PayloadNotOver
<1> QED BY <1>2, <1>3, <1>4, <1>5, <1>6, <1>7, <1>8 DEF FetchBuffer, TakeReserve, start_aio

\* A send of some bytes, or one that blocks or fails.
LEMMA SendKeeps == ASSUME PInv, Send PROVE PInv'
<1> USE DEF PInv
<1> DEFINE c == dispatch_queue[disp.i]
           a == agent[c]
<1>1. /\ disp.pc = "send" /\ disp.i \in 1 .. Len(dispatch_queue) /\ disp \in DispType
      /\ UNCHANGED <<client, session, payload, dispatch_queue, aio, orphan>>
      /\ DOMAIN agent = Clients /\ DOMAIN aio = Clients
      /\ a.kind = "serial" => a.buf # Null
  BY DEF Send, DispInv, AgentsInv
<1>2. /\ c \in Clients /\ c \in ToSet(dispatch_queue) /\ a # NoAgent /\ AgentOK(a, aio[c] # "none")
  BY <1>1, JobAtHand
<1>3. disp.sent \in Nat
  BY <1>1 DEF DispType
<1>4. CASE \E result \in {0, -1} : After(c, disp.sent, a.sent, result) /\ UNCHANGED agent
  <2>1. PICK result \in {0, -1} : After(c, disp.sent, a.sent, result) /\ UNCHANGED agent
    BY <1>4
  <2>2. JobsInv' /\ PayloadInv' /\ DispInv'
    BY <1>1, <1>2, <1>3, <2>1, AfterKeeps
  <2> QED BY <1>1, <2>1, <2>2 DEF AgentsInv, Orphaned
<1>5. ASSUME NEW n \in 1 .. SmallerOf(Packet, Left(a)),
             agent' = [agent EXCEPT ![c] = IF a.kind = "mem" THEN [a EXCEPT !.sent = @ + n]
                                           ELSE SentBytes(a, n)],
             disp' = [disp EXCEPT !.sent = @ + n],
             UNCHANGED job
      PROVE  PInv'
  <2> DEFINE b == IF a.kind = "mem" THEN [a EXCEPT !.sent = @ + n] ELSE SentBytes(a, n)
  <2>1. AgentOK(b, aio[c] # "none") /\ b # NoAgent /\ (b.kind = "serial" => b.buf # Null)
    <3>1. CASE a.kind = "mem"
      <4>1. a \in MemAgent /\ aio[c] = "none"
        BY <1>2, <3>1 DEF AgentOK, InLine, SerialAgent
      <4>2. SmallerOf(Packet, Left(a)) \in Int
        BY <3>1, <4>1, PushAssumption DEF SmallerOf, Left, MemAgent
      <4>3. a.sent + n \in Nat
        BY <4>1, <4>2 DEF MemAgent
      <4>4. b \in MemAgent
        BY <3>1, <4>1, <4>3 DEF MemAgent
      <4> HIDE DEF b
      <4> QED BY <4>1, <4>4 DEF AgentOK, MemAgent, NoAgent
    <3>2. CASE a.kind # "mem"
      <4>1. InLine(a, aio[c] # "none")
        BY <1>2, <3>2 DEF AgentOK, MemAgent
      <4>2. a.kind = "serial" /\ a.buf # Null
        BY <1>1, <4>1 DEF InLine, SerialAgent
      <4>3. n \in 1 .. Left(a)
        <5>1. Left(a) \in Int
          BY <4>1, <4>2 DEF Left, InLine, SerialAgent, Null
        <5> QED BY <5>1, PushAssumption DEF SmallerOf
      <4>4. InLine(b, aio[c] # "none") /\ b.buf # Null
        BY <3>2, <4>1, <4>2, <4>3, BytesSent
      <4> HIDE DEF b
      <4> QED BY <4>4 DEF AgentOK, InLine, SerialAgent, NoAgent
    <3> QED BY <3>1, <3>2
  <2> HIDE DEF b
  <2>2. agent' = [agent EXCEPT ![c] = b]
    BY <1>5 DEF b
  <2>3. agent'[c] = b /\ DOMAIN agent' = Clients /\ \A d \in Clients \ {c} : agent'[d] = agent[d]
    BY <1>1, <1>2, <2>2
  <2>4. AgentsInv'
    BY <1>1, <1>2, <2>1, <2>3, OneAgent
  <2>5. disp' \in DispType /\ disp'.pc = "send" /\ disp'.i = disp.i
    <3>1. n \in Nat
      BY <1>2 DEF SmallerOf
    <3> DEFINE m == disp.sent + n
    <3>2. m \in Nat /\ disp' = [disp EXCEPT !.sent = m]
      BY <1>3, <1>5, <3>1
    <3> HIDE DEF m
    <3> QED BY <1>1, <3>2, PlaceSent
  <2>6. DispInv'
    BY <1>1, <2>1, <2>3, <2>5 DEF DispInv
  <2> QED BY <1>1, <1>5, <2>4, <2>6 DEF JobsInv, PayloadInv, PayloadNotOver
<1> QED BY <1>4, <1>5 DEF Send, SentBytes

\* The rest of transfer_data.
LEMMA PrefetchKeeps == ASSUME PInv, Prefetch PROVE PInv'
<1> USE DEF PInv
<1> DEFINE c == dispatch_queue[disp.i]
           a == agent[c]
           e == Drained(a)
           over == a.eof \/ a.err
           read == ~over /\ aio[c] = "none" /\ a.res = Null /\ a.off - a.begin # a.len
           result == IF over /\ e.buf = Null THEN IF a.err THEN 1 ELSE -1 ELSE disp.sent
<1>1. /\ disp.pc = "send" /\ disp.i \in 1 .. Len(dispatch_queue) /\ disp \in DispType
      /\ UNCHANGED <<client, session, payload, dispatch_queue, orphan>>
      /\ DOMAIN agent = Clients /\ DOMAIN aio = Clients
      /\ a.kind = "serial" => a.buf # Null
  BY DEF Prefetch, DispInv, AgentsInv
<1>2. c \in Clients /\ c \in ToSet(dispatch_queue) /\ a # NoAgent /\ AgentOK(a, aio[c] # "none")
  BY <1>1, JobAtHand
<1>3. disp.sent \in Int /\ result \in Int
  BY <1>1 DEF DispType
<1>4. CASE After(c, disp.sent, a.sent, disp.sent) /\ UNCHANGED <<agent, aio>>
  <2>1. JobsInv' /\ PayloadInv' /\ DispInv'
    BY <1>1, <1>2, <1>3, <1>4, AfterKeeps
  <2> QED BY <1>1, <1>4, <2>1 DEF AgentsInv, Orphaned
<1>5. CASE /\ a.kind # "mem"
           /\ IF read THEN start_aio(c, e) ELSE agent' = [agent EXCEPT ![c] = e] /\ UNCHANGED aio
           /\ After(c, disp.sent, a.sent, result)
  <2>1. JobsInv' /\ PayloadInv' /\ DispInv'
    <3> HIDE DEF result
    <3> QED BY <1>1, <1>2, <1>3, <1>5, AfterKeeps
  <2>2. InLine(a, aio[c] # "none") /\ a.buf # Null
    <3>1. InLine(a, aio[c] # "none")
      BY <1>2, <1>5 DEF AgentOK, MemAgent
    <3> QED BY <1>1, <3>1 DEF InLine, SerialAgent
  <2>3. InLine(e, aio[c] # "none") /\ e.res = a.res
    BY <2>2, BufferDropped
  <2> HIDE DEF e, over
  <2>4. CASE read /\ agent' = [agent EXCEPT ![c] = start_read(e)] /\ aio' = [aio EXCEPT ![c] = "queued"]
    <3>1. aio[c] = "none" /\ a.res = Null
      BY <2>4
    <3>2. InLine(e, FALSE)
      BY <2>3, <3>1
    <3>3. InLine(start_read(e), TRUE)
      BY <2>3, <3>1, <3>2, StartRead
    <3>4. AgentOK(start_read(e), TRUE) /\ start_read(e) # NoAgent
      BY <3>3 DEF AgentOK, InLine, SerialAgent, NoAgent
    <3>6. /\ agent'[c] = start_read(e) /\ aio'[c] = "queued" /\ DOMAIN agent' = Clients /\ DOMAIN aio' = Clients
          /\ \A d \in Clients \ {c} : agent'[d] = agent[d] /\ aio'[d] = aio[d]
      BY <1>1, <1>2, <2>4
    <3>7. AgentsInv'
      BY <1>1, <1>2, <3>4, <3>6, OneAgent
    <3> QED BY <2>1, <3>7
  <2>5. CASE agent' = [agent EXCEPT ![c] = e] /\ aio' = aio
    <3>1. AgentOK(e, aio[c] # "none") /\ e # NoAgent
      BY <2>3 DEF AgentOK, InLine, SerialAgent, NoAgent
    <3>3. /\ agent'[c] = e /\ DOMAIN agent' = Clients /\ DOMAIN aio' = Clients
          /\ \A d \in Clients \ {c} : agent'[d] = agent[d] /\ aio'[d] = aio[d]
      BY <1>1, <1>2, <2>5
    <3>4. AgentsInv'
      BY <1>1, <1>2, <2>5, <3>1, <3>3, OneAgent
    <3> QED BY <2>1, <3>4
  <2> QED BY <1>5, <2>4, <2>5 DEF start_aio
<1> QED BY <1>4, <1>5 DEF Prefetch

-----------------------------------------------------------------------------
\* The invariant holds initially and every step of the three threads keeps it.
THEOREM PInvInvariant == PushSpec => []PInv
<1>1. PushInit => PInv
  <2> SUFFICES ASSUME PushInit PROVE PInv
    OBVIOUS
  <2>0. dispatch_queue = <<>> /\ ToSet(dispatch_queue) = {} /\ dispatch_queue \in Seq(Clients) /\ NoDup(dispatch_queue)
    BY DEF PushInit, ToSet, NoDup
  <2>1. JobsInv
    BY <2>0 DEF PushInit, JobsInv, JobType, NoJob
  <2>2. AgentsInv
    BY <2>0 DEF PushInit, AgentsInv, AgentOK
  <2>3. DispInv
    BY DEF PushInit, DispInv, DispType, Places
  <2>4. PayloadInv
    <3>1. {c \in ToSet(dispatch_queue) : client[c] = "got"} = {}
      BY <2>0
    <3>2. Cardinality({c \in ToSet(dispatch_queue) : client[c] = "got"}) = 0
      BY <3>1, FS_EmptySet
    <3>3. payload = 0
      BY DEF PushInit
    <3> QED BY <3>2, <3>3 DEF PayloadInv, PayloadNotOver
  <2> QED BY <2>1, <2>2, <2>3, <2>4 DEF PInv
<1>2. PInv /\ [PushNext]_push_vars => PInv'
  <2> SUFFICES ASSUME PInv, [PushNext]_push_vars PROVE PInv'
    OBVIOUS
  <2>1. CASE UNCHANGED push_vars
    BY <2>1 DEF push_vars, PInv, JobsInv, AgentsInv, Orphaned, DispInv, PayloadInv, PayloadNotOver
  <2>2. CASE DispatchThread
    BY <2>2, RoundKeeps, VisitKeeps, FetchKeeps, SendKeeps, PrefetchKeeps DEF DispatchThread
  <2> QED BY <2>1, <2>2, ReactorThreadKeeps, AioThreadKeeps DEF PushNext
<1> QED BY <1>1, <1>2, PTL DEF PushSpec

\* The three threads use each other's objects only while they exist: dispatch_data
\* finds the http_client of every job that is not closing, and a read whose agent
\* was deleted is one of a client that could not be answered and never had a job.
\* (Such reads there are: ReadsHaveAgents is false of the code.  A behaviour ends
\* where an aio thread takes one up.)
THEOREM TheLivingAreUsed == PushSpec => []UsesTheLiving
<1>1. PInv => UsesTheLiving
  <2> SUFFICES ASSUME PInv PROVE ClientOutlivesJob /\ AgentOutlivesRead
    BY DEF UsesTheLiving
  <2>1. ClientOutlivesJob
    BY DEF PInv, JobsInv, ClientOutlivesJob
  <2>2. AgentOutlivesRead
    BY ReaderIsSerial DEF PInv, AgentsInv, Orphaned, AgentOutlivesRead
  <2> QED BY <2>1, <2>2
<1> QED BY <1>1, PInvInvariant, PTL

\* A serial transfer sends every byte of the range from its own place, whatever
\* the reads return and whenever, and g_payload never counts more clients than
\* are being served.
THEOREM FilesServedRight == PushSpec => []ServedRight
<1>1. PInv => ServedRight
  <2> SUFFICES ASSUME PInv PROVE InOrder /\ PayloadNotOver
    BY DEF ServedRight
  <2>1. ASSUME NEW c \in Clients, agent[c].kind = "serial", agent[c].buf # Null
        PROVE  agent[c].pos + agent[c].out = agent[c].begin + agent[c].sent
    <3>1. AgentOK(agent[c], aio[c] # "none")
      BY <2>1 DEF PInv, AgentsInv, Orphaned, NoAgent
    <3>2. InLine(agent[c], aio[c] # "none")
      BY <2>1, <3>1 DEF AgentOK, MemAgent, NoAgent
    <3> QED BY <2>1, <3>2 DEF InLine
  <2> QED BY <2>1 DEF InOrder, PInv, PayloadInv
<1> QED BY <1>1, PInvInvariant, PTL
=============================================================================

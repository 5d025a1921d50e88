------------------------- MODULE AsynchFileIOProofs -------------------------
(***************************************************************************)
(* Theorems about ndk::asynch_file_io, for any handles, clients, requests  *)
(* and any number of worker threads.                                       *)
(***************************************************************************)
EXTENDS AsynchFileIO, DataLemmas

\* The types of everything but queue_list_size_, which follows from the counts
\* below.  A client that has a node can post: the ids do not run out.
Typed ==
    /\ posted \in Seq(Handles)
    /\ fd_pool \in [Handles -> Seq(Request)]
    /\ fd_prio \in [Handles -> Int]
    /\ queue_list \in Seq(Handles)
    /\ running_list \subseteq ids
    /\ pc \in [Workers -> {"enter", "wait", "woken", "io", "called", "free"}]
    /\ batch \in [Workers -> Seq(Request)]
    /\ at \in [Workers -> Nat]
    /\ callbacks \in [1 .. MaxIds -> Nat]
    /\ canceled \subseteq ids /\ told \subseteq ids
    /\ starting \subseteq Clients /\ IsFiniteSet(starting)
    /\ Len(posted) + Cardinality(starting) <= MaxIds

\* Where a worker is in its batch.
Phases ==
    \A w \in Workers :
        /\ pc[w] \in {"enter", "wait", "woken"} => batch[w] = <<>>
        /\ pc[w] \in {"io", "called"} => at[w] \in 1 .. Len(batch[w])
        /\ pc[w] = "free" => at[w] = Len(batch[w])

\* The handler of the i-th request of w's batch has been called.
Done(w, i) == i < at[w] \/ (i = at[w] /\ pc[w] # "io")

\* A queued request is queued once, under its handle, and nothing has happened
\* to it.
QueuedOnce ==
    /\ \A h \in Handles : \A i \in DOMAIN fd_pool[h] :
          /\ fd_pool[h][i].id \in ids /\ posted[fd_pool[h][i].id] = h
          /\ callbacks[fd_pool[h][i].id] = 0
          /\ fd_pool[h][i].id \notin canceled /\ fd_pool[h][i].id \notin told
    /\ \A h \in Handles : \A i, j \in DOMAIN fd_pool[h] :
          fd_pool[h][i].id = fd_pool[h][j].id => i = j

\* A request of a batch is in no other, nor queued; until its handler is called
\* it is in the running list and nobody was told that it is cancelled.
BatchedOnce ==
    /\ \A w \in Workers : \A i \in DOMAIN batch[w] :
          /\ batch[w][i].id \in ids /\ batch[w][i].id \notin canceled
          /\ batch[w][i].id \notin Queued
          /\ callbacks[batch[w][i].id] = IF Done(w, i) THEN 1 ELSE 0
          /\ Done(w, i) \/ (batch[w][i].id \in running_list /\ batch[w][i].id \notin told)
    /\ \A v, w \in Workers : \A i \in DOMAIN batch[v], j \in DOMAIN batch[w] :
          batch[v][i].id = batch[w][j].id => v = w /\ i = j

\* Every other request was called once or cancelled, and no request of the
\* future has been called.
Settled ==
    /\ \A id \in ids : id \notin Queued /\ (\A w \in Workers : id \notin IdsOf(batch[w]))
                          => callbacks[id] = IF id \in canceled THEN 0 ELSE 1
    /\ \A id \in 1 .. MaxIds : id \notin ids => callbacks[id] = 0

IInv == Typed /\ Phases /\ QueuedOnce /\ BatchedOnce /\ Settled /\ Ordered

-----------------------------------------------------------------------------
(* The operators of the model.                                             *)

\* The requests that are queued, by place.
LEMMA QueuedAt ==
    ASSUME NEW id
    PROVE  id \in Queued <=> \E h \in Handles : \E i \in DOMAIN fd_pool[h] : fd_pool[h][i].id = id
  BY DEF Queued, IdsOf

\* The same after a step.
LEMMA QueuedAtNext ==
    ASSUME NEW id
    PROVE  id \in Queued' <=>
              \E h \in Handles : \E i \in DOMAIN fd_pool'[h] : fd_pool'[h][i].id = id
  BY DEF Queued, IdsOf

\* Signalling changes nobody's place but that of one waiter.
LEMMA SignalMoves ==
    ASSUME signal, NEW P, pc \in [Workers -> P], "woken" \in P
    PROVE  /\ pc' \in [Workers -> P]
           /\ \A w \in Workers : pc'[w] = pc[w] \/ (pc[w] = "wait" /\ pc'[w] = "woken")
  BY DEF signal, At

\* The place of a new handle: behind no lower priority, before no higher one.
LEMMA ListPlaceOrdered ==
    ASSUME Typed, NEW p \in Int,
           \A i, j \in DOMAIN queue_list :
              i < j => fd_prio[queue_list[i]] >= fd_prio[queue_list[j]]
    PROVE  /\ ListPlace(p) \in 1 .. Len(queue_list) + 1
           /\ \A i \in 1 .. Len(queue_list) :
                 IF i < ListPlace(p) THEN fd_prio[queue_list[i]] >= p
                                     ELSE fd_prio[queue_list[i]] <= p
<1> DEFINE found == {i \in 1 .. Len(queue_list) : p > fd_prio[queue_list[i]]}
<1>0. /\ Len(queue_list) \in Nat /\ DOMAIN queue_list = 1 .. Len(queue_list)
      /\ \A i \in 1 .. Len(queue_list) : queue_list[i] \in Handles /\ fd_prio[queue_list[i]] \in Int
    BY DEF Typed
<1>1. ListPlace(p) = IF found = {} THEN Len(queue_list) + 1 ELSE Min(found)
    BY DEF ListPlace, Place
<1>2. CASE found = {}
    BY <1>0, <1>1, <1>2
<1>3. CASE found # {}
  <2>1. found \in SUBSET Nat
      BY <1>0
  <2>2. Min(found) \in found /\ \A m \in found : Min(found) <= m
      BY <1>3, <2>1, MinIsLeast
  <2> HIDE DEF found
  <2>3. ListPlace(p) = Min(found)
      BY <1>1, <1>3
  <2>4. ListPlace(p) \in 1 .. Len(queue_list) /\ p > fd_prio[queue_list[ListPlace(p)]]
      BY <2>2, <2>3 DEF found
  <2>5. \A i \in 1 .. Len(queue_list) : i < ListPlace(p) => fd_prio[queue_list[i]] >= p
    <3> SUFFICES ASSUME NEW i \in 1 .. Len(queue_list), i < ListPlace(p),
                        ~(fd_prio[queue_list[i]] >= p)
                 PROVE  FALSE
        OBVIOUS
    <3>1. i \in found
        BY <1>0 DEF found
    <3> QED
        BY <1>0, <2>2, <2>3, <2>4, <3>1
  <2>6. \A i \in 1 .. Len(queue_list) : ~(i < ListPlace(p)) => fd_prio[queue_list[i]] <= p
    <3> SUFFICES ASSUME NEW i \in 1 .. Len(queue_list), ~(i < ListPlace(p))
                 PROVE  fd_prio[queue_list[i]] <= p
        OBVIOUS
    <3>1. fd_prio[queue_list[ListPlace(p)]] >= fd_prio[queue_list[i]]
        BY <1>0, <2>4
    <3> QED
        BY <1>0, <2>4, <3>1
  <2> QED
      BY <1>0, <2>4, <2>5, <2>6
<1> QED
    BY <1>2, <1>3

\* The place of a new request among those of its handle.
LEMMA PoolPlaceOrdered ==
    ASSUME NEW s \in Seq(Request), s # <<>>, NEW r \in Request,
           \A i, j \in DOMAIN s : i < j => s[i].io_prio >= s[j].io_prio
    PROVE  /\ PoolPlace(s, r) \in 1 .. Len(s) + 1
           /\ \A i \in 1 .. Len(s) :
                 IF i < PoolPlace(s, r) THEN s[i].io_prio >= r.io_prio
                                        ELSE s[i].io_prio <= r.io_prio
<1> DEFINE Sooner(x) == \/ r.io_prio > x.io_prio
                        \/ r.io_prio = x.io_prio /\ r.offset < x.offset
           found == {i \in 3 .. Len(s) : Sooner(s[i])}
           p == Place(s, 3, LAMBDA x : \/ r.io_prio > x.io_prio
                                       \/ r.io_prio = x.io_prio /\ r.offset < x.offset)
<1>a. /\ Len(s) \in Nat \ {0} /\ DOMAIN s = 1 .. Len(s)
      /\ \A i \in 1 .. Len(s) : s[i] \in Request
    OBVIOUS
<1>0. /\ Len(s) \in Nat \ {0} /\ DOMAIN s = 1 .. Len(s) /\ r.io_prio \in Int
      /\ \A i \in 1 .. Len(s) : s[i].io_prio \in Int
    BY <1>a DEF Request
<1>b. r.offset \in Nat /\ \A i \in 1 .. Len(s) : s[i].offset \in Nat
    BY <1>a DEF Request
<1>1. p = IF found = {} THEN Len(s) + 1 ELSE Min(found)
    BY DEF Place
<1>2. CASE r.io_prio > s[1].io_prio
    BY <1>0, <1>2 DEF PoolPlace
<1>3. CASE r.io_prio <= s[1].io_prio /\ Len(s) > 1 /\ r.io_prio > s[2].io_prio
    BY <1>0, <1>3, SMTT(20) DEF PoolPlace
<1>4. CASE r.io_prio <= s[1].io_prio /\ Len(s) = 1
    BY <1>0, <1>4 DEF PoolPlace
<1>5. CASE r.io_prio <= s[1].io_prio /\ Len(s) > 1 /\ r.io_prio <= s[2].io_prio
  <2>0. PoolPlace(s, r) = p
      BY <1>0, <1>5 DEF PoolPlace
  <2>1. CASE found = {}
    <3>1. p = Len(s) + 1
        BY <1>1, <2>1
    <3>2. \A i \in 3 .. Len(s) : r.io_prio <= s[i].io_prio
        BY <1>0, <2>1
    <3> HIDE DEF p, found
    <3> QED
        BY <1>0, <1>5, <2>0, <3>1, <3>2, SMTT(20)
  <2>2. CASE found # {}
    <3>1. found \in SUBSET Nat
        BY <1>0
    <3>2. Min(found) \in found /\ \A m \in found : Min(found) <= m
        BY <2>2, <3>1, MinIsLeast
    <3>3. p = Min(found)
        BY <1>1, <2>2
    <3>4. p \in 3 .. Len(s) /\ r.io_prio >= s[p].io_prio
      <4>1. p \in found
          BY <3>2, <3>3
      <4> HIDE DEF p
      <4>2. p \in 3 .. Len(s) /\ Sooner(s[p])
          BY <4>1
      <4>3. p \in 1 .. Len(s)
          BY <1>0, <4>2
      <4> QED
          BY <1>0, <4>2, <4>3
    <3>5. \A i \in 3 .. Len(s) : i < p => r.io_prio <= s[i].io_prio
      <4> SUFFICES ASSUME NEW i \in 3 .. Len(s), i < p, ~(r.io_prio <= s[i].io_prio)
                   PROVE  FALSE
          OBVIOUS
      <4>1. i \in found
          BY <1>0
      <4> HIDE DEF p, found
      <4> QED
          BY <1>0, <3>2, <3>3, <3>4, <4>1
    <3> HIDE DEF p, found
    <3>6. \A i \in 1 .. Len(s) : i < p => r.io_prio <= s[i].io_prio
        BY <1>0, <1>5, <3>5
    <3>7. \A i \in 1 .. Len(s) : ~(i < p) => s[i].io_prio <= r.io_prio
        BY <1>0, <3>4
    <3> QED
        BY <1>0, <2>0, <3>4, <3>6, <3>7
  <2> QED
      BY <2>1, <2>2
<1>6. s[1].io_prio \in Int /\ (Len(s) > 1 => s[2].io_prio \in Int)
    BY <1>0
<1> QED
    BY <1>0, <1>2, <1>3, <1>4, <1>5, <1>6

-----------------------------------------------------------------------------
(* What the steps do to the queue.                                         *)

\* start_aio gives the request the next id.
LEMMA StartIds ==
    ASSUME Typed, NEW c \in Clients, NEW p \in Posts, start_aio(c, p)
    PROVE  /\ p.handle \in Handles /\ p.fd_prio \in Int
           /\ posted' \in Seq(Handles) /\ Len(posted') = Len(posted) + 1
           /\ Len(posted) \in Nat /\ Len(posted) + 1 \in 1 .. MaxIds
           /\ posted'[Len(posted) + 1] = p.handle /\ \A id \in ids : posted'[id] = posted[id]
           /\ [id |-> Len(posted) + 1, io_prio |-> p.io_prio, offset |-> p.offset] \in Request
           /\ IsFiniteSet(starting') /\ Len(posted') + Cardinality(starting') <= MaxIds
           /\ Cardinality(starting) \in Nat /\ Cardinality(starting') = Cardinality(starting) - 1
<1>1. p \in [handle : Handles, fd_prio : Int, io_prio : Int, offset : Nat] /\ MaxIds \in Nat
    BY AsynchFileIOAssumption
<1>2. c \in starting /\ starting' = starting \ {c} /\ posted' = Append(posted, p.handle)
    BY DEF start_aio
<1>3. IsFiniteSet(starting) /\ Len(posted) + Cardinality(starting) <= MaxIds /\ posted \in Seq(Handles)
    BY DEF Typed
<1>4. /\ IsFiniteSet(starting') /\ Cardinality(starting') = Cardinality(starting) - 1
    BY <1>2, <1>3, FS_RemoveElement
<1>5. Cardinality(starting) \in Nat /\ Cardinality(starting') \in Nat
    BY <1>3, <1>4, FS_CardinalityType
<1>6. Len(posted) \in Nat /\ Len(posted) + 1 \in 1 .. MaxIds
    BY <1>1, <1>3, <1>4, <1>5
<1>7. /\ posted' \in Seq(Handles) /\ Len(posted') = Len(posted) + 1
      /\ posted'[Len(posted) + 1] = p.handle /\ \A id \in ids : posted'[id] = posted[id]
    BY <1>1, <1>2, <1>3 DEF ids
<1>8. [id |-> Len(posted) + 1, io_prio |-> p.io_prio, offset |-> p.offset] \in Request
    BY <1>1, <1>6 DEF Request
<1> QED
    BY <1>1, <1>3, <1>4, <1>5, <1>6, <1>7, <1>8

\* It is put into the queue of its handle, at a place k.
LEMMA StartGrows ==
    ASSUME Typed, Ordered, NEW c \in Clients, NEW p \in Posts, start_aio(c, p)
    PROVE  LET h == p.handle
               r == [id |-> Len(posted) + 1, io_prio |-> p.io_prio, offset |-> p.offset]
           IN  /\ fd_pool' \in [Handles -> Seq(Request)]
               /\ \A g \in Handles : g # h => fd_pool'[g] = fd_pool[g]
               /\ \E k \in 1 .. Len(fd_pool[h]) + 1 :
                     /\ Grown(fd_pool'[h], fd_pool[h], k, r)
                     /\ \A i \in 1 .. Len(fd_pool[h]) :
                           IF i < k THEN fd_pool[h][i].io_prio >= r.io_prio
                                    ELSE fd_pool[h][i].io_prio <= r.io_prio
<1> DEFINE h == p.handle
           r == [id |-> Len(posted) + 1, io_prio |-> p.io_prio, offset |-> p.offset]
           s == fd_pool[h]
<1>1. h \in Handles /\ r \in Request
    BY StartIds
<1>2. fd_pool \in [Handles -> Seq(Request)] /\ s \in Seq(Request)
    BY <1>1 DEF Typed
<1> SUFFICES /\ fd_pool' \in [Handles -> Seq(Request)]
             /\ \A g \in Handles : g # h => fd_pool'[g] = fd_pool[g]
             /\ \E k \in 1 .. Len(s) + 1 :
                   /\ Grown(fd_pool'[h], s, k, r)
                   /\ \A i \in 1 .. Len(s) :
                         IF i < k THEN s[i].io_prio >= r.io_prio ELSE s[i].io_prio <= r.io_prio
    OBVIOUS
<1>3. CASE s = <<>>
  <2>1. fd_pool' = [fd_pool EXCEPT ![h] = <<r>>]
      BY <1>3 DEF start_aio
  <2> HIDE DEF h, r
  <2>2. fd_pool'[h] = <<r>> /\ <<r>> \in Seq(Request) /\ Len(s) = 0
      BY <1>1, <1>2, <1>3, <2>1
  <2>3. Grown(fd_pool'[h], s, 1, r)
      BY <2>2 DEF Grown
  <2> QED
      BY <1>1, <1>2, <1>3, <2>1, <2>2, <2>3
<1>4. CASE s # <<>>
  <2>1. fd_pool' = [fd_pool EXCEPT ![h] = InsertAt(s, PoolPlace(s, r), r)]
      BY <1>4 DEF start_aio
  <2>2. \A i, j \in DOMAIN s : i < j => s[i].io_prio >= s[j].io_prio
      BY <1>1 DEF Ordered
  <2> HIDE DEF h, r, s
  <2> DEFINE k == PoolPlace(s, r)
  <2>3. /\ k \in 1 .. Len(s) + 1
        /\ \A i \in 1 .. Len(s) :
              IF i < k THEN s[i].io_prio >= r.io_prio ELSE s[i].io_prio <= r.io_prio
      BY <1>1, <1>2, <1>4, <2>2, PoolPlaceOrdered
  <2> HIDE DEF k
  <2>4. InsertAt(s, k, r) \in Seq(Request) /\ Grown(InsertAt(s, k, r), s, k, r)
      BY <1>1, <1>2, <2>3, InsertedGrown
  <2>5. fd_pool' = [fd_pool EXCEPT ![h] = InsertAt(s, k, r)]
      BY <2>1 DEF k
  <2>6. fd_pool' \in [Handles -> Seq(Request)] /\ fd_pool'[h] = InsertAt(s, k, r)
      BY <1>1, <1>2, <2>4, <2>5
  <2> QED
      BY <1>1, <1>2, <2>3, <2>4, <2>5, <2>6
<1> QED
    BY <1>3, <1>4

\* A grown queue is still ordered when the new element is in its place.
LEMMA GrownOrdered ==
    ASSUME NEW s \in Seq(Request), NEW r \in Request, NEW k \in 1 .. Len(s) + 1, NEW t,
           Grown(t, s, k, r),
           \A i, j \in DOMAIN s : i < j => s[i].io_prio >= s[j].io_prio,
           \A i \in 1 .. Len(s) :
              IF i < k THEN s[i].io_prio >= r.io_prio ELSE s[i].io_prio <= r.io_prio
    PROVE  \A i, j \in DOMAIN t : i < j => t[i].io_prio >= t[j].io_prio
<1>1. DOMAIN s = 1 .. Len(s) /\ \A i \in DOMAIN s : s[i] \in Request
    OBVIOUS
<1>2. r.io_prio \in Int /\ \A i \in DOMAIN s : s[i].io_prio \in Int
    BY <1>1 DEF Request
<1>3. Pairs(t, s, k, r)
    BY GrownPairs
<1> SUFFICES ASSUME NEW i \in DOMAIN t, NEW j \in DOMAIN t, i < j
             PROVE  t[i].io_prio >= t[j].io_prio
    OBVIOUS
<1>4. CASE \E a, b \in DOMAIN s : a < b /\ t[i] = s[a] /\ t[j] = s[b]
    BY <1>4
<1>5. CASE \E a \in DOMAIN s : a < k /\ t[i] = s[a] /\ t[j] = r
    BY <1>1, <1>2, <1>5
<1>6. CASE \E b \in DOMAIN s : ~(b < k) /\ t[i] = r /\ t[j] = s[b]
    BY <1>1, <1>2, <1>6
<1> QED
    BY <1>3, <1>4, <1>5, <1>6 DEF Pairs

\* A list of different handles with falling priorities e.
ByPrio(q, e) == \A i, j \in DOMAIN q : i < j => q[i] # q[j] /\ e[q[i]] >= e[q[j]]

\* The place k suits the priority p.
Suits(q, e, k, p) == \A i \in 1 .. Len(q) : IF i < k THEN e[q[i]] >= p ELSE e[q[i]] <= p

\* f gives h the priority p and the other handles those of e.
SetsPrio(f, e, h, p) == f[h] = p /\ \A g \in Handles : g # h => f[g] = e[g]

\* A list of handles with one more, in its place.
LEMMA ListGrown ==
    ASSUME NEW q \in Seq(Handles), NEW k \in 1 .. Len(q) + 1, NEW h \in Handles, h \notin ToSet(q),
           NEW e \in [Handles -> Int], NEW f \in [Handles -> Int], NEW p \in Int,
           ByPrio(q, e), Suits(q, e, k, p), SetsPrio(f, e, h, p)
    PROVE  LET t == InsertAt(q, k, h)
           IN  /\ t \in Seq(Handles) /\ Len(t) = Len(q) + 1
               /\ ToSet(t) = ToSet(q) \cup {h} /\ ByPrio(t, f)
<1> DEFINE t == InsertAt(q, k, h)
<1>0. t \in Seq(Handles) /\ Len(t) = Len(q) + 1 /\ Grown(t, q, k, h)
    BY InsertedGrown
<1> HIDE DEF t
<1>1. ToSet(t) = ToSet(q) \cup {h} /\ Pairs(t, q, k, h)
    BY <1>0, GrownPairs
<1>2. \A i \in DOMAIN q : q[i] \in Handles /\ q[i] # h /\ f[q[i]] = e[q[i]] /\ e[q[i]] \in Int
    BY DEF ToSet, SetsPrio
<1>3. \A a, b \in DOMAIN q : a < b => q[a] # q[b] /\ f[q[a]] >= f[q[b]]
    BY <1>2 DEF ByPrio
<1>4. \A a \in DOMAIN q : IF a < k THEN f[q[a]] >= f[h] ELSE f[h] >= f[q[a]]
    BY <1>2 DEF Suits, SetsPrio
<1>5. ASSUME NEW i \in DOMAIN t, NEW j \in DOMAIN t, i < j
      PROVE  t[i] # t[j] /\ f[t[i]] >= f[t[j]]
  <2>1. CASE \E a, b \in DOMAIN q : a < b /\ t[i] = q[a] /\ t[j] = q[b]
      BY <1>3, <2>1
  <2>2. CASE \E a \in DOMAIN q : a < k /\ t[i] = q[a] /\ t[j] = h
      BY <1>2, <1>4, <2>2
  <2>3. CASE \E b \in DOMAIN q : ~(b < k) /\ t[i] = h /\ t[j] = q[b]
      BY <1>2, <1>4, <2>3
  <2> QED
      BY <1>1, <1>5, <2>1, <2>2, <2>3 DEF Pairs
<1> QED
    BY <1>0, <1>1, <1>5 DEF t, ByPrio

\* queue_list_ stays ordered when its handle is put in.
LEMMA StartOrdered ==
    ASSUME Typed, Ordered, NEW c \in Clients, NEW p \in Posts, start_aio(c, p)
    PROVE  /\ queue_list' \in Seq(Handles) /\ fd_prio' \in [Handles -> Int]
           /\ Len(queue_list') \in Nat /\ Len(queue_list') <= Len(queue_list) + 1
           /\ Ordered'
<1> DEFINE h == p.handle
           r == [id |-> Len(posted) + 1, io_prio |-> p.io_prio, offset |-> p.offset]
           s == fd_pool[h]
<1>1. h \in Handles /\ r \in Request /\ p.fd_prio \in Int
    BY StartIds
<1>2. /\ fd_pool \in [Handles -> Seq(Request)] /\ s \in Seq(Request)
      /\ queue_list \in Seq(Handles) /\ fd_prio \in [Handles -> Int]
      /\ DOMAIN queue_list = 1 .. Len(queue_list) /\ Len(queue_list) \in Nat
    BY <1>1 DEF Typed
<1>3. /\ \A g \in Handles : g # h => fd_pool'[g] = fd_pool[g]
      /\ \E k \in 1 .. Len(s) + 1 :
            /\ Grown(fd_pool'[h], s, k, r)
            /\ \A i \in 1 .. Len(s) :
                  IF i < k THEN s[i].io_prio >= r.io_prio ELSE s[i].io_prio <= r.io_prio
    BY StartGrows
<1>a. (s = <<>>) => /\ fd_prio' = [fd_prio EXCEPT ![h] = p.fd_prio]
                    /\ queue_list' = InsertAt(queue_list, ListPlace(p.fd_prio), h)
    BY DEF start_aio
<1>b. (s # <<>>) => fd_prio' = fd_prio /\ queue_list' = queue_list
    BY DEF start_aio
<1>c. /\ ToSet(queue_list) = {g \in Handles : fd_pool[g] # <<>>}
      /\ \A i, j \in DOMAIN queue_list :
            i < j => queue_list[i] # queue_list[j] /\ fd_prio[queue_list[i]] >= fd_prio[queue_list[j]]
      /\ \A g \in Handles : \A i, j \in DOMAIN fd_pool[g] :
            i < j => fd_pool[g][i].io_prio >= fd_pool[g][j].io_prio
    BY DEF Ordered
<1>s. \A i, j \in DOMAIN s : i < j => s[i].io_prio >= s[j].io_prio
    BY <1>1, <1>c
<1> HIDE DEF h, r
<1>4. \A i, j \in DOMAIN fd_pool'[h] : i < j => fd_pool'[h][i].io_prio >= fd_pool'[h][j].io_prio
    BY <1>1, <1>2, <1>3, <1>s, GrownOrdered
<1>5. \A g \in Handles : \A i, j \in DOMAIN fd_pool'[g] :
          i < j => fd_pool'[g][i].io_prio >= fd_pool'[g][j].io_prio
    BY <1>3, <1>4, <1>c
<1>6. fd_pool'[h] # <<>>
    BY <1>2, <1>3 DEF Grown
<1>7. CASE s # <<>>
  <2>1. ToSet(queue_list') = {g \in Handles : fd_pool'[g] # <<>>}
      BY <1>1, <1>3, <1>6, <1>7, <1>b, <1>c DEF ToSet
  <2> QED
      BY <1>2, <1>5, <1>7, <1>b, <1>c, <2>1 DEF Ordered
<1>8. CASE s = <<>>
  <2> DEFINE k == ListPlace(p.fd_prio)
  <2>1. k \in 1 .. Len(queue_list) + 1 /\ Suits(queue_list, fd_prio, k, p.fd_prio)
      BY <1>1, <1>c, ListPlaceOrdered DEF Suits
  <2>2. queue_list' = InsertAt(queue_list, k, h)
      BY <1>8, <1>a DEF k
  <2> HIDE DEF k
  <2>3. h \notin ToSet(queue_list) /\ ByPrio(queue_list, fd_prio)
      BY <1>8, <1>c DEF ByPrio
  <2>4. fd_prio' \in [Handles -> Int] /\ SetsPrio(fd_prio', fd_prio, h, p.fd_prio)
      BY <1>1, <1>2, <1>8, <1>a DEF SetsPrio
  <2>5. \A f \in [Handles -> Int] : SetsPrio(f, fd_prio, h, p.fd_prio) =>
              LET t == InsertAt(queue_list, k, h)
              IN  /\ t \in Seq(Handles) /\ Len(t) = Len(queue_list) + 1
                  /\ ToSet(t) = ToSet(queue_list) \cup {h} /\ ByPrio(t, f)
      BY <1>1, <1>2, <2>1, <2>3, ListGrown
  <2>6. /\ queue_list' \in Seq(Handles) /\ Len(queue_list') = Len(queue_list) + 1
        /\ ToSet(queue_list') = ToSet(queue_list) \cup {h} /\ ByPrio(queue_list', fd_prio')
      BY <2>2, <2>4, <2>5
  <2>7. ToSet(queue_list') = {g \in Handles : fd_pool'[g] # <<>>}
      BY <1>1, <1>3, <1>6, <1>8, <1>c, <2>6
  <2>8. Ordered'
      BY <1>5, <2>6, <2>7 DEF Ordered, ByPrio
  <2> QED
      BY <1>2, <2>4, <2>6, <2>8
<1> QED
    BY <1>7, <1>8

\* The requests queued before are queued still, and the new one is.
LEMMA StartQueues ==
    ASSUME Typed, QueuedOnce, Ordered, NEW c \in Clients, NEW p \in Posts, start_aio(c, p)
    PROVE  LET N == Len(posted) + 1
           IN  /\ \A g \in Handles : \A i \in DOMAIN fd_pool'[g] :
                     \/ \E a \in DOMAIN fd_pool[g] : fd_pool'[g][i].id = fd_pool[g][a].id
                     \/ g = p.handle /\ fd_pool'[g][i].id = N
               /\ \A g \in Handles : \A i, j \in DOMAIN fd_pool'[g] :
                     fd_pool'[g][i].id = fd_pool'[g][j].id => i = j
               /\ N \notin Queued /\ Queued' = Queued \cup {N}
<1> DEFINE h == p.handle
           N == Len(posted) + 1
           r == [id |-> N, io_prio |-> p.io_prio, offset |-> p.offset]
           s == fd_pool[h]
           t == fd_pool'[h]
<1>1. h \in Handles /\ r \in Request /\ r.id = N /\ Len(posted) \in Nat
    BY StartIds
<1>2. s \in Seq(Request) /\ DOMAIN s \subseteq Int
    BY <1>1 DEF Typed
<1>3. PICK k \in 1 .. Len(s) + 1 : Grown(t, s, k, r)
    BY StartGrows
<1>4. \A g \in Handles : g # h => fd_pool'[g] = fd_pool[g]
    BY StartGrows
<1>5. \A g \in Handles : \A a \in DOMAIN fd_pool[g] : fd_pool[g][a].id # N
    BY <1>1 DEF QueuedOnce, ids
<1>6. \A g \in Handles : \A i, j \in DOMAIN fd_pool[g] : fd_pool[g][i].id = fd_pool[g][j].id => i = j
    BY DEF QueuedOnce
<1>7. DOMAIN t \subseteq Int
    BY <1>2, <1>3 DEF Grown
<1> HIDE DEF h, N, r, t
<1>8. ToSet(t) = ToSet(s) \cup {r} /\ Pairs(t, s, k, r)
    BY <1>1, <1>2, <1>3, GrownPairs
<1>9. \A i \in DOMAIN t : t[i] = r \/ \E a \in DOMAIN s : t[i] = s[a]
    BY <1>8 DEF ToSet
<1>10. ASSUME NEW i \in DOMAIN t, NEW j \in DOMAIN t, i < j PROVE t[i].id # t[j].id
  <2>1. CASE \E a, b \in DOMAIN s : a < b /\ t[i] = s[a] /\ t[j] = s[b]
      BY <1>1, <1>2, <1>6, <2>1
  <2>2. CASE (\E a \in DOMAIN s : t[i] = s[a] /\ t[j] = r) \/ (\E b \in DOMAIN s : t[i] = r /\ t[j] = s[b])
      BY <1>1, <1>5, <2>2
  <2> QED
      BY <1>8, <1>10, <2>1, <2>2 DEF Pairs
<1>11. \A i, j \in DOMAIN t : t[i].id = t[j].id => i = j
    BY <1>7, <1>10
<1>12. \A g \in Handles : \A i \in DOMAIN fd_pool'[g] :
          \/ \E a \in DOMAIN fd_pool[g] : fd_pool'[g][i].id = fd_pool[g][a].id
          \/ g = h /\ fd_pool'[g][i].id = N
    BY <1>1, <1>4, <1>9 DEF t
<1>13. \A g \in Handles : \A i, j \in DOMAIN fd_pool'[g] : fd_pool'[g][i].id = fd_pool'[g][j].id => i = j
    BY <1>4, <1>6, <1>11 DEF t
<1>14. N \notin Queued
    BY <1>5, QueuedAt
<1>15. \A g \in Handles : \A a \in DOMAIN fd_pool[g] :
          \E i \in DOMAIN fd_pool'[g] : fd_pool'[g][i].id = fd_pool[g][a].id
  <2>1. \A a \in DOMAIN s : \E i \in DOMAIN t : t[i] = s[a]
      BY <1>8 DEF ToSet
  <2> QED
      BY <1>4, <2>1 DEF t
<1>16. \E i \in DOMAIN fd_pool'[h] : fd_pool'[h][i].id = N
    BY <1>1, <1>8 DEF ToSet, t
<1>17. \A id : id \in Queued' <=> id \in Queued \/ id = N
    BY <1>1, <1>12, <1>15, <1>16, QueuedAt, QueuedAtNext
<1>18. Queued' = Queued \cup {N}
    BY <1>17
<1> QED
    BY <1>12, <1>13, <1>14, <1>18 DEF h, N

\* start_aio preserves the invariant.
LEMMA StartStep ==
    ASSUME IInv, NEW c \in Clients, NEW p \in Posts, start_aio(c, p)
    PROVE  IInv'
<1> DEFINE h == p.handle
           N == Len(posted) + 1
<1>0. Typed /\ Phases /\ QueuedOnce /\ BatchedOnce /\ Settled /\ Ordered
    BY DEF IInv
<1>1. /\ h \in Handles /\ Len(posted) \in Nat /\ N \in 1 .. MaxIds
      /\ posted' \in Seq(Handles) /\ Len(posted') = N
      /\ posted'[N] = h /\ \A id \in ids : posted'[id] = posted[id]
      /\ IsFiniteSet(starting') /\ Len(posted') + Cardinality(starting') <= MaxIds
    BY <1>0, StartIds
<1>2. /\ \A g \in Handles : \A i \in DOMAIN fd_pool'[g] :
            \/ \E a \in DOMAIN fd_pool[g] : fd_pool'[g][i].id = fd_pool[g][a].id
            \/ g = h /\ fd_pool'[g][i].id = N
      /\ \A g \in Handles : \A i, j \in DOMAIN fd_pool'[g] :
            fd_pool'[g][i].id = fd_pool'[g][j].id => i = j
      /\ N \notin Queued /\ Queued' = Queued \cup {N}
    BY <1>0, StartQueues
<1>3. /\ queue_list' \in Seq(Handles) /\ fd_prio' \in [Handles -> Int] /\ Ordered'
    BY <1>0, StartOrdered
<1>4. fd_pool' \in [Handles -> Seq(Request)]
    BY <1>0, StartGrows
<1>5. /\ signal /\ starting' \subseteq starting
      /\ UNCHANGED <<queue_list_size, running_list, batch, at, callbacks, canceled, told>>
    BY DEF start_aio, history
<1> HIDE DEF h, N
<1>6. ids' = ids \cup {N} /\ N \notin ids /\ ids \subseteq 1 .. MaxIds
  <2>1. ids = 1 .. Len(posted) /\ ids' = 1 .. Len(posted) + 1
      BY <1>1 DEF ids, N
  <2> QED
      BY <1>1, <2>1, AsynchFileIOAssumption DEF N
<1>7. /\ pc' \in [Workers -> {"enter", "wait", "woken", "io", "called", "free"}]
      /\ \A w \in Workers : pc'[w] = pc[w] \/ (pc[w] = "wait" /\ pc'[w] = "woken")
  <2>1. /\ pc \in [Workers -> {"enter", "wait", "woken", "io", "called", "free"}]
        /\ "woken" \in {"enter", "wait", "woken", "io", "called", "free"} /\ signal
      BY <1>0, <1>5 DEF Typed
  <2> QED
      BY <2>1, SignalMoves
<1>8. Typed'
    BY <1>0, <1>1, <1>3, <1>4, <1>5, <1>6, <1>7 DEF Typed
<1>9. Phases'
    BY <1>0, <1>5, <1>7 DEF Phases
<1>10. \A w \in Workers : \A i : Done(w, i)' = Done(w, i)
    BY <1>5, <1>7 DEF Done
<1>11. callbacks[N] = 0 /\ N \notin canceled /\ N \notin told
    BY <1>0, <1>1, <1>6 DEF Settled, Typed, N
<1>12. QueuedOnce'
  <2>1. ASSUME NEW g \in Handles, NEW i \in DOMAIN fd_pool'[g]
        PROVE  /\ fd_pool'[g][i].id \in ids' /\ posted'[fd_pool'[g][i].id] = g
               /\ callbacks[fd_pool'[g][i].id] = 0
               /\ fd_pool'[g][i].id \notin canceled /\ fd_pool'[g][i].id \notin told
    <3>1. CASE g = h /\ fd_pool'[g][i].id = N
        BY <1>1, <1>6, <1>11, <3>1
    <3>2. CASE \E a \in DOMAIN fd_pool[g] : fd_pool'[g][i].id = fd_pool[g][a].id
      <4>1. PICK a \in DOMAIN fd_pool[g] : fd_pool'[g][i].id = fd_pool[g][a].id
          BY <3>2
      <4>2. /\ fd_pool[g][a].id \in ids /\ posted[fd_pool[g][a].id] = g
            /\ callbacks[fd_pool[g][a].id] = 0
            /\ fd_pool[g][a].id \notin canceled /\ fd_pool[g][a].id \notin told
          BY <1>0 DEF QueuedOnce
      <4> QED
          BY <1>1, <1>6, <4>1, <4>2
    <3> QED
        BY <1>2, <3>1, <3>2
  <2> QED
      BY <1>2, <1>5, <2>1 DEF QueuedOnce
<1>13. BatchedOnce'
  <2>1. ASSUME NEW w \in Workers, NEW i \in DOMAIN batch[w]
        PROVE  /\ batch[w][i].id \in ids' /\ batch[w][i].id \notin canceled
               /\ batch[w][i].id \notin Queued'
               /\ callbacks[batch[w][i].id] = IF Done(w, i)' THEN 1 ELSE 0
               /\ Done(w, i)' \/ (batch[w][i].id \in running_list /\ batch[w][i].id \notin told)
      BY <1>0, <1>2, <1>6, <1>10 DEF BatchedOnce
  <2>2. \A v, w \in Workers : \A i \in DOMAIN batch[v], j \in DOMAIN batch[w] :
           batch[v][i].id = batch[w][j].id => v = w /\ i = j
      BY <1>0 DEF BatchedOnce
  <2> QED
      BY <1>5, <2>1, <2>2 DEF BatchedOnce
<1>14. Settled'
  <2>1. ASSUME NEW id \in ids', id \notin Queued', \A w \in Workers : id \notin IdsOf(batch[w])
        PROVE  callbacks[id] = IF id \in canceled THEN 0 ELSE 1
      BY <1>0, <1>2, <1>6, <2>1 DEF Settled
  <2>2. \A id \in 1 .. MaxIds : id \notin ids' => callbacks[id] = 0
      BY <1>0, <1>6 DEF Settled
  <2>3. \A w \in Workers : IdsOf(batch[w])' = IdsOf(batch[w])
      BY <1>5 DEF IdsOf
  <2> QED
      BY <1>5, <2>1, <2>2, <2>3 DEF Settled
<1> QED
    BY <1>3, <1>8, <1>9, <1>12, <1>13, <1>14 DEF IInv

\* cancel_aio takes the request out of the queue of its handle.
LEMMA CancelShrinks ==
    ASSUME Typed, NEW h \in Handles, NEW id, cancel_queued(h, id)
    PROVE  /\ fd_pool' \in [Handles -> Seq(Request)]
           /\ Len(fd_pool'[h]) = Len(fd_pool[h]) - 1
           /\ \A g \in Handles : g # h => fd_pool'[g] = fd_pool[g]
           /\ \E k \in DOMAIN fd_pool[h] : fd_pool[h][k].id = id /\ Rest(fd_pool'[h], fd_pool[h], k)
<1> DEFINE s == fd_pool[h]
           I == {i \in 1 .. Len(s) : s[i].id = id}
           k == Min(I)
<1>1. fd_pool \in [Handles -> Seq(Request)] /\ s \in Seq(Request) /\ DOMAIN s = 1 .. Len(s)
    BY DEF Typed
<1>2. I # {} /\ I \in SUBSET Nat
    BY <1>1 DEF cancel_queued, IdsOf
<1>3. k \in 1 .. Len(s) /\ s[k].id = id
    BY <1>2, MinIsLeast
<1>4. RemoveFirstMatch(s, LAMBDA x : x.id = id) = RemoveAt(s, k)
    BY <1>2 DEF RemoveFirstMatch, SelectInSeq
<1>5. fd_pool' = [fd_pool EXCEPT ![h] = RemoveFirstMatch(s, LAMBDA x : x.id = id)]
    BY DEF cancel_queued, unlink
<1>6. fd_pool' = [fd_pool EXCEPT ![h] = RemoveAt(s, k)]
    BY <1>4, <1>5
<1> HIDE DEF k, I
<1>7. RemoveAt(s, k) \in Seq(Request) /\ Len(RemoveAt(s, k)) = Len(s) - 1 /\ Shrunk(RemoveAt(s, k), s, k)
    BY <1>1, <1>3, RemovedShrunk
<1>8. Rest(RemoveAt(s, k), s, k)
    BY <1>1, <1>3, <1>7, ShrunkRest
<1>9. fd_pool'[h] = RemoveAt(s, k) /\ \A g \in Handles : g # h => fd_pool'[g] = fd_pool[g]
    BY <1>1, <1>6
<1>10. fd_pool' \in [Handles -> Seq(Request)]
    BY <1>1, <1>6, <1>7
<1> QED
    BY <1>1, <1>3, <1>7, <1>8, <1>9, <1>10

\* The queues stay ordered.
LEMMA CancelOrdered ==
    ASSUME Typed, Ordered, NEW h \in Handles, NEW id, cancel_queued(h, id)
    PROVE  queue_list' \in Seq(Handles) /\ Len(queue_list') <= Len(queue_list) /\ Ordered'
<1> DEFINE s == fd_pool[h]
<1>1. /\ fd_pool \in [Handles -> Seq(Request)] /\ s \in Seq(Request)
      /\ queue_list \in Seq(Handles) /\ fd_prio \in [Handles -> Int] /\ Len(queue_list) \in Nat
      /\ DOMAIN queue_list = 1 .. Len(queue_list)
    BY DEF Typed
<1>2. /\ fd_pool' \in [Handles -> Seq(Request)]
      /\ Len(fd_pool'[h]) = Len(s) - 1
      /\ \A g \in Handles : g # h => fd_pool'[g] = fd_pool[g]
    BY CancelShrinks
<1>3. PICK k \in DOMAIN s : s[k].id = id /\ Rest(fd_pool'[h], s, k)
    BY CancelShrinks
<1>4. /\ ToSet(queue_list) = {g \in Handles : fd_pool[g] # <<>>} /\ ByPrio(queue_list, fd_prio)
      /\ \A g \in Handles : \A i, j \in DOMAIN fd_pool[g] :
            i < j => fd_pool[g][i].io_prio >= fd_pool[g][j].io_prio
    BY DEF Ordered, ByPrio
<1>5. fd_prio' = fd_prio /\ queue_list' = IF Len(s) = 1 THEN RemoveFirst(queue_list, h) ELSE queue_list
    BY DEF cancel_queued, unlink
<1>6. s # <<>> /\ h \in ToSet(queue_list)
    BY <1>1, <1>3, <1>4
<1>7. fd_pool'[h] = <<>> <=> Len(s) = 1
  <2>1. fd_pool'[h] \in Seq(Request) /\ Len(s) \in Nat
      BY <1>1, <1>2
  <2>2. fd_pool'[h] = <<>> <=> Len(fd_pool'[h]) = 0
      BY <2>1
  <2> QED
      BY <1>2, <2>1, <2>2
<1>8. \A g \in Handles : \A i, j \in DOMAIN fd_pool'[g] :
         i < j => fd_pool'[g][i].io_prio >= fd_pool'[g][j].io_prio
  <2>1. ASSUME NEW i \in DOMAIN fd_pool'[h], NEW j \in DOMAIN fd_pool'[h], i < j
        PROVE  fd_pool'[h][i].io_prio >= fd_pool'[h][j].io_prio
    <3>1. PICK a, b \in DOMAIN s : a < b /\ fd_pool'[h][i] = s[a] /\ fd_pool'[h][j] = s[b]
        BY <1>3, <2>1 DEF Rest
    <3> QED
        BY <1>4, <3>1
  <2> QED
      BY <1>2, <1>4, <2>1
<1>9. CASE Len(s) # 1
  <2>1. ToSet(queue_list') = {g \in Handles : fd_pool'[g] # <<>>}
      BY <1>2, <1>4, <1>5, <1>6, <1>7, <1>9
  <2>2. queue_list' = queue_list
      BY <1>5, <1>9
  <2>3. ByPrio(queue_list', fd_prio')
      BY <1>4, <1>5, <2>2
  <2>4. Ordered'
      BY <1>8, <2>1, <2>3 DEF Ordered, ByPrio
  <2> QED
      BY <1>1, <2>2, <2>4
<1>10. CASE Len(s) = 1
  <2>1. PICK m \in 1 .. Len(queue_list) :
           queue_list[m] = h /\ RemoveFirst(queue_list, h) = RemoveAt(queue_list, m)
      BY <1>1, <1>6, RemoveFirstShrinks
  <2> DEFINE q == RemoveAt(queue_list, m)
  <2>2. q \in Seq(Handles) /\ Len(q) = Len(queue_list) - 1 /\ Shrunk(q, queue_list, m)
      BY <1>1, RemovedShrunk
  <2> HIDE DEF q
  <2>3. Rest(q, queue_list, m)
      BY <1>1, <2>2, ShrunkRest
  <2>4. ByPrio(q, fd_prio)
    <3> SUFFICES ASSUME NEW i \in DOMAIN q, NEW j \in DOMAIN q, i < j
                 PROVE  q[i] # q[j] /\ fd_prio[q[i]] >= fd_prio[q[j]]
        BY DEF ByPrio
    <3>1. PICK a, b \in DOMAIN queue_list : a < b /\ q[i] = queue_list[a] /\ q[j] = queue_list[b]
        BY <2>3 DEF Rest
    <3> QED
        BY <1>4, <3>1 DEF ByPrio
  <2>5. \A i \in DOMAIN queue_list : i # m => queue_list[i] # h
    <3> SUFFICES ASSUME NEW i \in 1 .. Len(queue_list), i # m PROVE queue_list[i] # queue_list[m]
        BY <1>1, <2>1
    <3>1. i < m \/ m < i
        OBVIOUS
    <3> QED
        BY <1>1, <1>4, <3>1 DEF ByPrio
  <2>6. ToSet(q) = ToSet(queue_list) \ {h}
    <3>1. \A x : x \in ToSet(q) => x \in ToSet(queue_list) /\ x # h
        BY <2>3, <2>5 DEF Rest, ToSet
    <3>2. \A x : x \in ToSet(queue_list) /\ x # h => x \in ToSet(q)
        BY <2>1, <2>3 DEF Rest, ToSet
    <3> QED
        BY <3>1, <3>2
  <2>7. queue_list' = q
      BY <1>5, <1>10, <2>1 DEF q
  <2>8. ToSet(queue_list') = {g \in Handles : fd_pool'[g] # <<>>}
      BY <1>2, <1>4, <1>7, <1>10, <2>6, <2>7
  <2>9. ByPrio(queue_list', fd_prio')
      BY <1>5, <2>4, <2>7
  <2>10. Ordered'
      BY <1>8, <2>8, <2>9 DEF Ordered, ByPrio
  <2> QED
      BY <1>1, <2>2, <2>7, <2>10
<1> QED
    BY <1>9, <1>10

\* The other requests stay queued.
LEMMA CancelQueues ==
    ASSUME Typed, QueuedOnce, NEW h \in Handles, NEW id, cancel_queued(h, id)
    PROVE  /\ \A g \in Handles : \A i \in DOMAIN fd_pool'[g] :
                 \E a \in DOMAIN fd_pool[g] : fd_pool'[g][i].id = fd_pool[g][a].id
           /\ \A g \in Handles : \A i, j \in DOMAIN fd_pool'[g] :
                 fd_pool'[g][i].id = fd_pool'[g][j].id => i = j
           /\ id \in Queued /\ Queued' = Queued \ {id}
<1> DEFINE s == fd_pool[h]
           t == fd_pool'[h]
<1>1. /\ fd_pool' \in [Handles -> Seq(Request)] /\ t \in Seq(Request)
      /\ \A g \in Handles : g # h => fd_pool'[g] = fd_pool[g]
    BY CancelShrinks
<1>2. PICK k \in DOMAIN s : s[k].id = id /\ Rest(t, s, k)
    BY CancelShrinks
<1>3. DOMAIN s \subseteq Int /\ DOMAIN t \subseteq Int
    BY <1>1 DEF Typed
<1>4. /\ \A g \in Handles : \A i, j \in DOMAIN fd_pool[g] : fd_pool[g][i].id = fd_pool[g][j].id => i = j
      /\ \A g \in Handles : \A i \in DOMAIN fd_pool[g] : posted[fd_pool[g][i].id] = g
    BY DEF QueuedOnce
<1>5. \A g \in Handles : \A i \in DOMAIN fd_pool'[g] :
         \E a \in DOMAIN fd_pool[g] : (g = h => a # k) /\ fd_pool'[g][i] = fd_pool[g][a]
    BY <1>1, <1>2 DEF Rest
<1>6. \A g \in Handles : \A a \in DOMAIN fd_pool[g] :
         (g = h => a # k) => \E i \in DOMAIN fd_pool'[g] : fd_pool'[g][i] = fd_pool[g][a]
    BY <1>1, <1>2 DEF Rest
<1>7. \A i, j \in DOMAIN t : t[i].id = t[j].id => i = j
  <2>1. ASSUME NEW i \in DOMAIN t, NEW j \in DOMAIN t, i < j PROVE t[i].id # t[j].id
    <3>1. PICK a, b \in DOMAIN s : a < b /\ t[i] = s[a] /\ t[j] = s[b]
        BY <1>2, <2>1 DEF Rest
    <3>2. a # b
        BY <1>3, <3>1
    <3> QED
        BY <1>4, <3>1, <3>2
  <2> QED
      BY <1>3, <2>1
<1>8. \A g \in Handles : \A i, j \in DOMAIN fd_pool'[g] : fd_pool'[g][i].id = fd_pool'[g][j].id => i = j
    BY <1>1, <1>4, <1>7
<1> HIDE DEF s, t
<1>9. \A g \in Handles : \A a \in DOMAIN fd_pool[g] : fd_pool[g][a].id = id <=> g = h /\ a = k
    BY <1>2, <1>4 DEF s
<1>10. id \in Queued
    BY <1>2, QueuedAt DEF s
<1>11. \A x : x \in Queued' <=> x \in Queued /\ x # id
  <2> TAKE x
  <2>1. ASSUME x \in Queued' PROVE x \in Queued /\ x # id
    <3>1. PICK g \in Handles : \E i \in DOMAIN fd_pool'[g] : fd_pool'[g][i].id = x
        BY <2>1, QueuedAtNext
    <3>2. PICK a \in DOMAIN fd_pool[g] : (g = h => a # k) /\ x = fd_pool[g][a].id
        BY <1>5, <3>1
    <3> QED
        BY <1>9, <3>2, QueuedAt
  <2>2. ASSUME x \in Queued, x # id PROVE x \in Queued'
    <3>1. PICK g \in Handles : \E a \in DOMAIN fd_pool[g] : fd_pool[g][a].id = x
        BY <2>2, QueuedAt
    <3>2. PICK a \in DOMAIN fd_pool[g] : fd_pool[g][a].id = x
        BY <3>1
    <3>3. \E i \in DOMAIN fd_pool'[g] : fd_pool'[g][i].id = x
        BY <1>6, <1>9, <2>2, <3>2
    <3> QED
        BY <3>3, QueuedAtNext
  <2> QED
      BY <2>1, <2>2
<1>12. Queued' = Queued \ {id}
    BY <1>11
<1> QED
    BY <1>5, <1>8, <1>10, <1>12

\* cancel_aio of a queued request preserves the invariant.
LEMMA CancelQueuedStep ==
    ASSUME IInv, NEW id \in ids, NEW h \in Handles, cancel_queued(h, id)
    PROVE  IInv'
<1>0. Typed /\ Phases /\ QueuedOnce /\ BatchedOnce /\ Settled /\ Ordered
    BY DEF IInv
<1>1. /\ \A g \in Handles : \A i \in DOMAIN fd_pool'[g] :
            \E a \in DOMAIN fd_pool[g] : fd_pool'[g][i].id = fd_pool[g][a].id
      /\ \A g \in Handles : \A i, j \in DOMAIN fd_pool'[g] :
            fd_pool'[g][i].id = fd_pool'[g][j].id => i = j
      /\ id \in Queued /\ Queued' = Queued \ {id}
    BY <1>0, CancelQueues
<1>2. queue_list' \in Seq(Handles) /\ Ordered'
    BY <1>0, CancelOrdered
<1>3. fd_pool' \in [Handles -> Seq(Request)]
    BY <1>0, CancelShrinks
<1>4. /\ queue_list_size' = queue_list_size - 1 /\ canceled' = canceled \cup {id}
      /\ told' \subseteq told \cup {id}
      /\ UNCHANGED <<posted, starting, fd_prio, running_list, pc, batch, at, callbacks>>
    BY DEF cancel_queued, Answer, workVars
<1>5. ids' = ids
    BY <1>4 DEF ids
<1>6. Phases' /\ \A w \in Workers : \A i : Done(w, i)' = Done(w, i)
    BY <1>0, <1>4 DEF Phases, Done
<1>7. /\ \A g \in Handles : \A i \in DOMAIN fd_pool'[g] : fd_pool'[g][i].id # id
      /\ callbacks[id] = 0
  <2>1. id \notin Queued'
      BY <1>1
  <2>2. \A g \in Handles : \A i \in DOMAIN fd_pool[g] : callbacks[fd_pool[g][i].id] = 0
      BY <1>0 DEF QueuedOnce
  <2> QED
      BY <1>1, <2>1, <2>2, QueuedAt, QueuedAtNext
<1>8. QueuedOnce'
  <2>1. ASSUME NEW g \in Handles, NEW i \in DOMAIN fd_pool'[g]
        PROVE  /\ fd_pool'[g][i].id \in ids /\ posted[fd_pool'[g][i].id] = g
               /\ callbacks[fd_pool'[g][i].id] = 0
               /\ fd_pool'[g][i].id \notin canceled' /\ fd_pool'[g][i].id \notin told'
    <3>1. PICK a \in DOMAIN fd_pool[g] : fd_pool'[g][i].id = fd_pool[g][a].id
        BY <1>1
    <3>2. /\ fd_pool[g][a].id \in ids /\ posted[fd_pool[g][a].id] = g
          /\ callbacks[fd_pool[g][a].id] = 0
          /\ fd_pool[g][a].id \notin canceled /\ fd_pool[g][a].id \notin told
        BY <1>0 DEF QueuedOnce
    <3> QED
        BY <1>4, <1>7, <3>1, <3>2
  <2> QED
      BY <1>1, <1>4, <1>5, <2>1 DEF QueuedOnce
<1>9. BatchedOnce'
  <2>1. ASSUME NEW w \in Workers, NEW i \in DOMAIN batch[w]
        PROVE  /\ batch[w][i].id \in ids /\ batch[w][i].id \notin canceled'
               /\ batch[w][i].id \notin Queued'
               /\ callbacks[batch[w][i].id] = IF Done(w, i)' THEN 1 ELSE 0
               /\ Done(w, i)' \/ (batch[w][i].id \in running_list /\ batch[w][i].id \notin told')
    <3>1. batch[w][i].id # id
        BY <1>0, <1>1 DEF BatchedOnce
    <3> QED
        BY <1>0, <1>1, <1>4, <1>6, <3>1 DEF BatchedOnce
  <2>2. \A v, w \in Workers : \A i \in DOMAIN batch[v], j \in DOMAIN batch[w] :
           batch[v][i].id = batch[w][j].id => v = w /\ i = j
      BY <1>0 DEF BatchedOnce
  <2> QED
      BY <1>4, <1>5, <2>1, <2>2 DEF BatchedOnce
<1>10. Settled'
  <2>1. ASSUME NEW x \in ids, x \notin Queued', \A w \in Workers : x \notin IdsOf(batch[w])
        PROVE  callbacks[x] = IF x \in canceled' THEN 0 ELSE 1
    <3>1. CASE x = id
        BY <1>4, <1>7, <3>1
    <3>2. CASE x # id
        BY <1>0, <1>1, <1>4, <2>1, <3>2 DEF Settled
    <3> QED
        BY <3>1, <3>2
  <2>2. \A x \in 1 .. MaxIds : x \notin ids => callbacks[x] = 0
      BY <1>0 DEF Settled
  <2>3. \A w \in Workers : IdsOf(batch[w])' = IdsOf(batch[w])
      BY <1>4 DEF IdsOf
  <2> QED
      BY <1>4, <1>5, <2>1, <2>2, <2>3 DEF Settled
<1>11. Typed'
    BY <1>0, <1>2, <1>3, <1>4, <1>5 DEF Typed
<1> QED
    BY <1>2, <1>6, <1>8, <1>9, <1>10, <1>11 DEF IInv

\* What a worker pops from a queue that is not empty: all requests of the first
\* handles, once each.
LEMMA PoppedRequests ==
    ASSUME Typed, QueuedOnce, Ordered, NEW n \in 1 .. Len(queue_list)
    PROVE  LET F == FirstRequests(n)
               taken == UNION {IdsOf(fd_pool[queue_list[m]]) : m \in 1 .. n}
           IN  /\ F \in Seq(Request) /\ Len(F) > 0
               /\ \A i, j \in DOMAIN F : F[i].id = F[j].id => i = j
               /\ IdsOf(F) = taken /\ taken \subseteq Queued
<1> DEFINE F == FirstRequests(n)
           S == [i \in 1 .. n |-> fd_pool[queue_list[i]]]
<1>1. /\ \A m \in 1 .. n : m \in DOMAIN queue_list /\ queue_list[m] \in Handles /\ S[m] \in Seq(Request)
      /\ S \in Seq(Seq(Request)) /\ Len(S) = n /\ n > 0
    BY DEF Typed
<1>2. \A m \in 1 .. n : S[m] = fd_pool[queue_list[m]]
    OBVIOUS
<1> HIDE DEF S
<1>3. \A m \in 1 .. n : \A i, j \in DOMAIN S[m] : S[m][i].id = S[m][j].id => i = j
    BY <1>1, <1>2 DEF QueuedOnce
<1>4. \A m \in 1 .. n : NoDup(S[m])
    BY <1>3 DEF NoDup
<1>5. ASSUME NEW l \in 1 .. n, NEW m \in 1 .. n, NEW i \in DOMAIN S[l], NEW j \in DOMAIN S[m],
             S[l][i].id = S[m][j].id
      PROVE  l = m /\ i = j
  <2>1. queue_list[l] = queue_list[m]
    <3>0. \A h \in Handles : \A a \in DOMAIN fd_pool[h] : posted[fd_pool[h][a].id] = h
        BY DEF QueuedOnce
    <3>1. posted[S[l][i].id] = queue_list[l]
        BY <1>1, <1>2, <3>0, SMTT(20)
    <3>2. posted[S[m][j].id] = queue_list[m]
        BY <1>1, <1>2, <3>0
    <3> QED
        BY <1>5, <3>1, <3>2
  <2>2. ~(l < m) /\ ~(m < l)
      BY <1>1, <2>1 DEF Ordered
  <2>3. l = m
      BY <2>2
  <2> QED
      BY <1>3, <1>5, <2>3
<1>6. \A l, m \in 1 .. n : l # m => ToSet(S[l]) \cap ToSet(S[m]) = {}
    BY <1>5 DEF ToSet
<1>7. F = FlattenSeq(S)
    BY DEF FirstRequests, S
<1>8. F \in Seq(Request) /\ NoDup(F) /\ ToSet(F) = UNION {ToSet(S[m]) : m \in 1 .. n}
  <2>1. /\ \A m \in 1 .. Len(S) : NoDup(S[m])
        /\ \A l, m \in 1 .. Len(S) : l # m => ToSet(S[l]) \cap ToSet(S[m]) = {}
        /\ Len(S) > 0
      BY <1>1, <1>4, <1>6
  <2>2. /\ FlattenSeq(S) \in Seq(Request) /\ NoDup(FlattenSeq(S))
        /\ ToSet(FlattenSeq(S)) = UNION {ToSet(S[m]) : m \in 1 .. Len(S)}
      BY <1>1, <2>1, FlattenOnce
  <2> QED
      BY <1>1, <1>7, <2>2
<1> HIDE DEF F
<1>a. \A x : x \in ToSet(F) <=> \E m \in 1 .. n : x \in ToSet(S[m])
    BY <1>8
<1>b. /\ \A x : x \in ToSet(F) <=> \E i \in DOMAIN F : F[i] = x
      /\ \A m \in 1 .. n : \A x : x \in ToSet(S[m]) <=> \E a \in DOMAIN S[m] : S[m][a] = x
    BY DEF ToSet
<1>9. ASSUME NEW i \in DOMAIN F
      PROVE  \E m \in 1 .. n : \E a \in DOMAIN S[m] : F[i] = S[m][a]
  <2>1. PICK m \in 1 .. n : F[i] \in ToSet(S[m])
      BY <1>a DEF ToSet
  <2>2. PICK a \in DOMAIN S[m] : S[m][a] = F[i]
      BY <2>1 DEF ToSet
  <2> QED
      BY <2>2
<1>10. \A m \in 1 .. n : \A a \in DOMAIN S[m] : \E i \in DOMAIN F : F[i] = S[m][a]
    BY <1>a, <1>b
<1>11. ASSUME NEW i \in DOMAIN F, NEW j \in DOMAIN F, F[i].id = F[j].id PROVE i = j
  <2>1. PICK l \in 1 .. n : \E a \in DOMAIN S[l] : F[i] = S[l][a]
      BY <1>9
  <2>2. PICK a \in DOMAIN S[l] : F[i] = S[l][a]
      BY <2>1
  <2>3. PICK m \in 1 .. n : \E b \in DOMAIN S[m] : F[j] = S[m][b]
      BY <1>9
  <2>4. PICK b \in DOMAIN S[m] : F[j] = S[m][b]
      BY <2>3
  <2>5. F[i] = F[j]
      BY <1>5, <1>11, <2>2, <2>4
  <2> QED
      BY <1>8, <2>5 DEF NoDup
<1>12. \A x : x \in IdsOf(F) <=> \E m \in 1 .. n : x \in IdsOf(S[m])
  <2>1. \A x : x \in IdsOf(F) => \E m \in 1 .. n : x \in IdsOf(S[m])
      BY <1>9 DEF IdsOf
  <2>2. \A x : (\E m \in 1 .. n : x \in IdsOf(S[m])) => x \in IdsOf(F)
      BY <1>10 DEF IdsOf
  <2> QED
      BY <2>1, <2>2
<1>13. IdsOf(F) = UNION {IdsOf(fd_pool[queue_list[m]]) : m \in 1 .. n}
    BY <1>2, <1>12
<1>14. IdsOf(F) \subseteq Queued
    BY <1>1, <1>2, <1>12 DEF Queued
<1>15. Len(F) > 0
  <2>1. queue_list[1] \in ToSet(queue_list) /\ 1 \in 1 .. n
      BY <1>1 DEF ToSet
  <2>2. S[1] # <<>> /\ S[1] \in Seq(Request)
      BY <1>1, <1>2, <2>1 DEF Ordered
  <2>3. 1 \in DOMAIN S[1]
      BY <2>2
  <2>4. \E i \in DOMAIN F : F[i] = S[1][1]
      BY <1>10, <2>1, <2>3
  <2> QED
      BY <1>8, <2>4
<1> QED
    BY <1>8, <1>11, <1>13, <1>14, <1>15 DEF F

\* pop_some_request takes at least one handle.
LEMMA PoppedHandles ==
    ASSUME Typed, queue_list # <<>>
    PROVE  Popped \in 1 .. Len(queue_list)
<1> DEFINE enough == {n \in 1 .. Len(queue_list) : Len(FirstRequests(n)) >= PopNum}
<1>1. Len(queue_list) \in 1 .. Len(queue_list)
    BY DEF Typed
<1>2. enough \in SUBSET Nat
    BY DEF Typed
<1>3. enough # {} => Min(enough) \in enough
    BY <1>2, MinIsLeast
<1>4. Popped = IF enough = {} THEN Len(queue_list) ELSE Min(enough)
    BY DEF Popped
<1> HIDE DEF enough
<1>5. \A n \in enough : n \in 1 .. Len(queue_list)
    BY DEF enough
<1> QED
    BY <1>1, <1>3, <1>4, <1>5

\* They leave the queue, and their handles queue_list_.
LEMMA PopQueues ==
    ASSUME Typed, QueuedOnce, Ordered, NEW w \in Workers, Pop(w)
    PROVE  /\ fd_pool' \in [Handles -> Seq(Request)]
           /\ \A g \in Handles : fd_pool'[g] = fd_pool[g] \/ fd_pool'[g] = <<>>
           /\ pop_some_request \in Seq(Request) /\ Len(pop_some_request) > 0
           /\ \A i, j \in DOMAIN pop_some_request :
                 pop_some_request[i].id = pop_some_request[j].id => i = j
           /\ IdsOf(pop_some_request) \subseteq Queued /\ Queued' = Queued \ IdsOf(pop_some_request)
<1> DEFINE n == Popped
           F == pop_some_request
           taken == UNION {IdsOf(fd_pool[queue_list[m]]) : m \in 1 .. n}
<1>1. n \in 1 .. Len(queue_list)
    BY PoppedHandles DEF Pop
<1>2. /\ F \in Seq(Request) /\ Len(F) > 0
      /\ \A i, j \in DOMAIN F : F[i].id = F[j].id => i = j
      /\ IdsOf(F) = taken /\ taken \subseteq Queued
    BY <1>1, PoppedRequests DEF pop_some_request
<1>3. fd_pool' = [h \in Handles |-> IF \E i \in 1 .. n : queue_list[i] = h THEN <<>> ELSE fd_pool[h]]
    BY DEF Pop
<1> HIDE DEF n, F
<1>4. fd_pool \in [Handles -> Seq(Request)] /\ \A m \in 1 .. n : queue_list[m] \in Handles
    BY <1>1, SMTT(20) DEF Typed
<1>5. /\ fd_pool' \in [Handles -> Seq(Request)]
      /\ \A g \in Handles : fd_pool'[g] = fd_pool[g] \/ fd_pool'[g] = <<>>
    BY <1>3, <1>4
<1>6. \A g \in Handles : IdsOf(fd_pool'[g]) =
         IF \E i \in 1 .. n : queue_list[i] = g THEN {} ELSE IdsOf(fd_pool[g])
  <2> SUFFICES ASSUME NEW g \in Handles
               PROVE  IdsOf(fd_pool'[g]) = IF \E i \in 1 .. n : queue_list[i] = g THEN {} ELSE IdsOf(fd_pool[g])
      OBVIOUS
  <2>1. CASE \E i \in 1 .. n : queue_list[i] = g
    <3>1. fd_pool'[g] = <<>>
        BY <1>3, <2>1
    <3>2. IdsOf(<<>>) = {}
        BY DEF IdsOf
    <3> QED
        BY <2>1, <3>1, <3>2
  <2>2. CASE ~\E i \in 1 .. n : queue_list[i] = g
      BY <1>3, <2>2
  <2> QED
      BY <2>1, <2>2
<1>7. \A g, h \in Handles : \A x : x \in IdsOf(fd_pool[g]) /\ x \in IdsOf(fd_pool[h]) => g = h
    BY DEF QueuedOnce, IdsOf
<1>8. \A x : x \in Queued' <=> \E g \in Handles : x \in IdsOf(fd_pool'[g])
    BY DEF Queued
<1>9. \A x : x \in Queued <=> \E g \in Handles : x \in IdsOf(fd_pool[g])
    BY DEF Queued
<1>10. \A x : x \in taken <=> \E m \in 1 .. n : x \in IdsOf(fd_pool[queue_list[m]])
    OBVIOUS
<1> HIDE DEF taken
<1>11. \A x : x \in Queued' => x \in Queued /\ x \notin taken
    BY <1>4, <1>6, <1>7, <1>8, <1>9, <1>10
<1>12. \A x : x \in Queued /\ x \notin taken => x \in Queued'
    BY <1>4, <1>6, <1>8, <1>9, <1>10
<1>13. Queued' = Queued \ taken
    BY <1>11, <1>12
<1> QED
    BY <1>2, <1>5, <1>13 DEF F

\* What is left is ordered.
LEMMA PopOrdered ==
    ASSUME Typed, QueuedOnce, Ordered, NEW w \in Workers, Pop(w)
    PROVE  queue_list' \in Seq(Handles) /\ Len(queue_list') < Len(queue_list) /\ Ordered'
<1> DEFINE n == Popped
           q == SubSeq(queue_list, n + 1, Len(queue_list))
<1>1. n \in 1 .. Len(queue_list)
    BY PoppedHandles DEF Pop
<1>2. /\ fd_pool' = [h \in Handles |-> IF \E i \in 1 .. n : queue_list[i] = h THEN <<>> ELSE fd_pool[h]]
      /\ queue_list' = q /\ fd_prio' = fd_prio
    BY DEF Pop
<1> HIDE DEF n
<1>3. /\ queue_list \in Seq(Handles) /\ Len(queue_list) \in Nat /\ n + 1 \in 1 .. Len(queue_list) + 1
      /\ DOMAIN queue_list = 1 .. Len(queue_list) /\ n \in 0 .. Len(queue_list)
    BY <1>1 DEF Typed
<1>4. /\ ToSet(queue_list) = {g \in Handles : fd_pool[g] # <<>>} /\ ByPrio(queue_list, fd_prio)
      /\ \A g \in Handles : \A i, j \in DOMAIN fd_pool[g] :
            i < j => fd_pool[g][i].io_prio >= fd_pool[g][j].io_prio
    BY DEF Ordered, ByPrio
<1>5. NoDup(queue_list)
  <2> SUFFICES ASSUME NEW i \in 1 .. Len(queue_list), NEW j \in 1 .. Len(queue_list), i # j
               PROVE  queue_list[i] # queue_list[j]
      BY <1>3 DEF NoDup
  <2>1. i < j \/ j < i
      OBVIOUS
  <2> QED
      BY <1>3, <1>4, <2>1 DEF ByPrio
<1>6. q \in Seq(Handles) /\ ToSet(q) = ToSet(queue_list) \ {queue_list[i] : i \in 1 .. n}
    BY <1>3, <1>5, DropFirst
<1>7. /\ Len(q) = Len(queue_list) + 1 - (n + 1)
      /\ \A i \in 1 .. Len(queue_list) + 1 - (n + 1) : q[i] = queue_list[i + (n + 1) - 1]
    BY <1>3, Cut
<1> HIDE DEF q
<1>8. Len(q) = Len(queue_list) - n /\ DOMAIN q = 1 .. Len(queue_list) - n
  <2>1. DOMAIN q = 1 .. Len(q)
      BY <1>6
  <2>2. Len(q) = Len(queue_list) + 1 - (n + 1) /\ n \in Int /\ Len(queue_list) \in Int
      BY <1>1, <1>7
  <2>3. Len(q) = Len(queue_list) - n
      BY <2>2
  <2> QED
      BY <2>1, <2>3
<1>9. \A i \in DOMAIN q : i \in Int /\ i + n \in DOMAIN queue_list /\ q[i] = queue_list[i + n]
  <2> SUFFICES ASSUME NEW i \in 1 .. Len(queue_list) - n
               PROVE  i + n \in DOMAIN queue_list /\ q[i] = queue_list[i + n]
      BY <1>8
  <2>1. i \in 1 .. Len(queue_list) + 1 - (n + 1) /\ i + (n + 1) - 1 = i + n
      BY <1>1, <1>3
  <2>2. q[i] = queue_list[i + n]
      BY <1>7, <2>1
  <2> QED
      BY <1>1, <1>3, <2>2
<1>10. ByPrio(q, fd_prio)
  <2> SUFFICES ASSUME NEW i \in DOMAIN q, NEW j \in DOMAIN q, i < j
               PROVE  q[i] # q[j] /\ fd_prio[q[i]] >= fd_prio[q[j]]
      BY DEF ByPrio
  <2>1. i + n < j + n
      BY <1>1, <1>9
  <2> QED
      BY <1>4, <1>9, <2>1 DEF ByPrio
<1>11. \A g \in Handles : fd_pool'[g] = IF g \in {queue_list[i] : i \in 1 .. n} THEN <<>> ELSE fd_pool[g]
    BY <1>2
<1>12. ToSet(q) = {g \in Handles : fd_pool'[g] # <<>>}
    BY <1>4, <1>6, <1>11
<1>13. \A g \in Handles : \A i, j \in DOMAIN fd_pool'[g] :
          i < j => fd_pool'[g][i].io_prio >= fd_pool'[g][j].io_prio
    BY <1>4, <1>11
<1>14. ToSet(queue_list') = {g \in Handles : fd_pool'[g] # <<>>} /\ ByPrio(queue_list', fd_prio')
    BY <1>2, <1>10, <1>12
<1>15. Ordered'
    BY <1>13, <1>14 DEF Ordered, ByPrio
<1> QED
    BY <1>1, <1>2, <1>3, <1>6, <1>8, <1>15

\* A worker's pop preserves the invariant.
LEMMA PopStep ==
    ASSUME IInv, NEW w \in Workers, Pop(w)
    PROVE  IInv'
<1> DEFINE F == pop_some_request
<1>0. Typed /\ Phases /\ QueuedOnce /\ BatchedOnce /\ Settled /\ Ordered
    BY DEF IInv
<1>1. /\ fd_pool' \in [Handles -> Seq(Request)]
      /\ \A g \in Handles : fd_pool'[g] = fd_pool[g] \/ fd_pool'[g] = <<>>
      /\ F \in Seq(Request) /\ Len(F) > 0
      /\ \A i, j \in DOMAIN F : F[i].id = F[j].id => i = j
      /\ IdsOf(F) \subseteq Queued /\ Queued' = Queued \ IdsOf(F)
    BY <1>0, PopQueues
<1>2. queue_list' \in Seq(Handles) /\ Ordered'
    BY <1>0, PopOrdered
<1>3. /\ batch' = [batch EXCEPT ![w] = F] /\ at' = [at EXCEPT ![w] = 1]
      /\ running_list' = running_list \cup IdsOf(F)
      /\ pc' = [pc EXCEPT ![w] = "io"]
      /\ UNCHANGED <<posted, starting, fd_prio, callbacks, canceled, told>>
    BY DEF Pop, history
<1>4. batch[w] = <<>>
    BY <1>0 DEF Pop, HasMutex, Phases
<1> HIDE DEF F
<1>5. ids' = ids
    BY <1>3 DEF ids
<1>6. /\ batch' \in [Workers -> Seq(Request)] /\ batch'[w] = F
      /\ \A v \in Workers : v # w => batch'[v] = batch[v] /\ at'[v] = at[v] /\ pc'[v] = pc[v]
      /\ at'[w] = 1 /\ pc'[w] = "io" /\ 1 \in 1 .. Len(F) /\ DOMAIN F = 1 .. Len(F)
    BY <1>0, <1>1, <1>3 DEF Typed
<1>7. /\ \A v \in Workers : v # w => \A i : Done(v, i)' = Done(v, i)
      /\ \A i \in DOMAIN F : Done(w, i)' = FALSE
    BY <1>6 DEF Done
<1>8. \A i \in DOMAIN F : /\ F[i].id \in IdsOf(F) /\ F[i].id \in Queued /\ F[i].id \in ids
                          /\ callbacks[F[i].id] = 0
                          /\ F[i].id \notin canceled /\ F[i].id \notin told
  <2> SUFFICES ASSUME NEW i \in DOMAIN F
               PROVE  /\ F[i].id \in IdsOf(F) /\ F[i].id \in Queued /\ F[i].id \in ids
                      /\ callbacks[F[i].id] = 0
                      /\ F[i].id \notin canceled /\ F[i].id \notin told
      OBVIOUS
  <2>1. F[i].id \in IdsOf(F)
      BY DEF IdsOf
  <2>2. F[i].id \in Queued
      BY <1>1, <2>1
  <2>3. PICK g \in Handles : \E a \in DOMAIN fd_pool[g] : fd_pool[g][a].id = F[i].id
      BY <2>2, QueuedAt
  <2> QED
      BY <1>0, <2>1, <2>2, <2>3 DEF QueuedOnce
<1>9. Typed'
  <2>1. running_list' \subseteq ids
    <3>1. IdsOf(F) \subseteq ids
        BY <1>8 DEF IdsOf
    <3> QED
        BY <1>0, <1>3, <3>1 DEF Typed
  <2> QED
      BY <1>0, <1>1, <1>2, <1>3, <1>5, <1>6, <2>1 DEF Typed
<1>10. Phases'
  <2> SUFFICES ASSUME NEW v \in Workers
               PROVE  /\ pc'[v] \in {"enter", "wait", "woken"} => batch'[v] = <<>>
                      /\ pc'[v] \in {"io", "called"} => at'[v] \in 1 .. Len(batch'[v])
                      /\ pc'[v] = "free" => at'[v] = Len(batch'[v])
      BY DEF Phases
  <2>1. CASE v = w
      BY <1>6, <2>1
  <2>2. CASE v # w
      BY <1>0, <1>6, <2>2 DEF Phases
  <2> QED
      BY <2>1, <2>2
<1>11. QueuedOnce'
  <2>1. ASSUME NEW g \in Handles, NEW i \in DOMAIN fd_pool'[g]
        PROVE  /\ fd_pool'[g] = fd_pool[g]
               /\ fd_pool'[g][i].id \in ids /\ posted[fd_pool'[g][i].id] = g
               /\ callbacks[fd_pool'[g][i].id] = 0
               /\ fd_pool'[g][i].id \notin canceled /\ fd_pool'[g][i].id \notin told
    <3>1. fd_pool'[g] = fd_pool[g]
        BY <1>1
    <3> QED
        BY <1>0, <3>1 DEF QueuedOnce
  <2>2. \A g \in Handles : \A i, j \in DOMAIN fd_pool'[g] :
            fd_pool'[g][i].id = fd_pool'[g][j].id => i = j
      BY <1>0, <2>1 DEF QueuedOnce
  <2> QED
      BY <1>3, <1>5, <2>1, <2>2 DEF QueuedOnce
<1>12. \A v \in Workers : v # w => \A i \in DOMAIN batch[v] :
          /\ batch[v][i].id \in ids /\ batch[v][i].id \notin canceled
          /\ batch[v][i].id \notin Queued
          /\ callbacks[batch[v][i].id] = IF Done(v, i) THEN 1 ELSE 0
          /\ Done(v, i) \/ (batch[v][i].id \in running_list /\ batch[v][i].id \notin told)
    BY <1>0 DEF BatchedOnce
<1>13. BatchedOnce'
  <2>1. ASSUME NEW v \in Workers, NEW i \in DOMAIN batch'[v]
        PROVE  /\ batch'[v][i].id \in ids /\ batch'[v][i].id \notin canceled
               /\ batch'[v][i].id \notin Queued'
               /\ callbacks[batch'[v][i].id] = IF Done(v, i)' THEN 1 ELSE 0
               /\ Done(v, i)' \/ (batch'[v][i].id \in running_list' /\ batch'[v][i].id \notin told)
    <3>1. CASE v = w
      <4>1. batch'[v] = F /\ i \in DOMAIN F
          BY <1>6, <3>1
      <4> QED
          BY <1>1, <1>3, <1>7, <1>8, <3>1, <4>1
    <3>2. CASE v # w
      <4>1. batch'[v] = batch[v] /\ i \in DOMAIN batch[v] /\ Done(v, i)' = Done(v, i)
          BY <1>6, <1>7, <3>2
      <4> QED
          BY <1>1, <1>3, <1>12, <3>2, <4>1
    <3> QED
        BY <3>1, <3>2
  <2>2. ASSUME NEW u \in Workers, NEW v \in Workers, NEW i \in DOMAIN batch'[u], NEW j \in DOMAIN batch'[v],
               batch'[u][i].id = batch'[v][j].id
        PROVE  u = v /\ i = j
    <3>1. CASE u = w /\ v = w
        BY <1>1, <1>6, <2>2, <3>1
    <3>2. CASE u # w /\ v # w
        BY <1>0, <1>6, <2>2, <3>2, SMTT(20) DEF BatchedOnce
    <3>3. CASE u = w /\ v # w
      <4>1. batch'[u][i].id \in Queued
          BY <1>6, <1>8, <3>3
      <4>2. batch'[v][j].id \notin Queued
          BY <1>6, <1>12, <3>3
      <4> QED
          BY <2>2, <4>1, <4>2
    <3>4. CASE u # w /\ v = w
      <4>1. batch'[v][j].id \in Queued
          BY <1>6, <1>8, <3>4
      <4>2. batch'[u][i].id \notin Queued
          BY <1>6, <1>12, <3>4
      <4> QED
          BY <2>2, <4>1, <4>2
    <3> QED
        BY <3>1, <3>2, <3>3, <3>4
  <2> QED
      BY <1>3, <1>5, <2>1, <2>2 DEF BatchedOnce
<1>14. Settled'
  <2>1. ASSUME NEW x \in ids, x \notin Queued', \A v \in Workers : x \notin IdsOf(batch'[v])
        PROVE  callbacks[x] = IF x \in canceled THEN 0 ELSE 1
    <3>1. x \notin Queued
        BY <1>1, <1>6, <2>1
    <3>2. x \notin IdsOf(batch[w])
        BY <1>4 DEF IdsOf
    <3>3. \A v \in Workers : x \notin IdsOf(batch[v])
        BY <1>6, <2>1, <3>2
    <3> QED
        BY <1>0, <3>1, <3>3 DEF Settled
  <2>2. \A x \in 1 .. MaxIds : x \notin ids => callbacks[x] = 0
      BY <1>0 DEF Settled
  <2>3. \A v \in Workers : IdsOf(batch[v])' = IdsOf(batch'[v])
      BY DEF IdsOf
  <2> QED
      BY <1>3, <1>5, <2>1, <2>2, <2>3 DEF Settled
<1> QED
    BY <1>2, <1>9, <1>10, <1>11, <1>13, <1>14 DEF IInv

-----------------------------------------------------------------------------
(* The other steps.                                                        *)

\* alloc_aio_opt preserves the invariant.
LEMMA AllocStep ==
    ASSUME IInv, NEW c \in Clients, Alloc(c)
    PROVE  IInv'
<1>1. /\ c \notin starting /\ Len(posted) + Cardinality(starting) < MaxIds
      /\ starting' = starting \cup {c}
      /\ UNCHANGED <<posted, fd_pool, fd_prio, queue_list, running_list, pc, batch, at,
                     callbacks, canceled, told>>
    BY DEF Alloc, queueVars, workVars, history
<1>2. Typed'
  <2>1. IsFiniteSet(starting) /\ starting \subseteq Clients
      BY DEF IInv, Typed
  <2>2. IsFiniteSet(starting') /\ Cardinality(starting') = Cardinality(starting) + 1
      BY <1>1, <2>1, FS_AddElement
  <2>3. Cardinality(starting) \in Nat /\ Len(posted) \in Nat /\ MaxIds \in Nat
      BY <2>1, FS_CardinalityType, AsynchFileIOAssumption DEF IInv, Typed
  <2>4. Len(posted') + Cardinality(starting') <= MaxIds /\ ids' = ids
      BY <1>1, <2>2, <2>3 DEF ids
  <2> QED
      BY <1>1, <2>1, <2>2, <2>4 DEF IInv, Typed
<1>3. (Phases /\ QueuedOnce /\ BatchedOnce /\ Settled /\ Ordered)'
    BY <1>1 DEF IInv, Phases, QueuedOnce, BatchedOnce, Settled, Ordered, Done, Queued, IdsOf, ids
<1> QED
    BY <1>2, <1>3 DEF IInv

\* What a request depends on when only worker w moves and nothing is called.
LEMMA MoveStep ==
    ASSUME IInv, NEW w \in Workers,
           UNCHANGED <<posted, starting, fd_pool, fd_prio, queue_list, running_list, batch, at,
                       callbacks, canceled, told>>,
           pc' \in [Workers -> {"enter", "wait", "woken", "io", "called", "free"}],
           \A v \in Workers : v # w => pc'[v] = pc[v],
           pc[w] \in {"enter", "wait", "woken"}, pc'[w] \in {"wait", "woken"}
    PROVE  IInv'
<1>1. Typed' /\ ids' = ids
    BY DEF IInv, Typed, ids
<1>2. Phases'
    BY DEF IInv, Phases
<1>3. \A v \in Workers : \A i : Done(v, i)' = Done(v, i)
    BY DEF Done
<1>4. QueuedOnce' /\ Settled' /\ Ordered' /\ Queued' = Queued
    BY DEF IInv, QueuedOnce, Settled, Ordered, Queued, IdsOf, ids
<1>5. BatchedOnce'
    BY <1>1, <1>3, <1>4 DEF IInv, BatchedOnce
<1> QED
    BY <1>1, <1>2, <1>4, <1>5 DEF IInv

\* Waiting and waking preserve the invariant.
LEMMA WaitStep ==
    ASSUME IInv, NEW w \in Workers, Wait(w) \/ SpuriousWakeup(w)
    PROVE  IInv'
<1>1. /\ UNCHANGED <<posted, starting, fd_pool, fd_prio, queue_list, running_list, batch, at,
                     callbacks, canceled, told>>
      /\ pc[w] \in {"enter", "wait", "woken"}
      /\ pc' = [pc EXCEPT ![w] = "wait"] \/ pc' = [pc EXCEPT ![w] = "woken"]
    BY DEF Wait, SpuriousWakeup, HasMutex, queueVars, history
<1>2. pc \in [Workers -> {"enter", "wait", "woken", "io", "called", "free"}]
    BY DEF IInv, Typed
<1>3. /\ pc' \in [Workers -> {"enter", "wait", "woken", "io", "called", "free"}]
      /\ \A v \in Workers : v # w => pc'[v] = pc[v]
      /\ pc'[w] \in {"wait", "woken"}
    BY <1>1, <1>2
<1> QED
    BY <1>1, <1>3, MoveStep

\* cancel_aio of a request that is not queued preserves the invariant.
LEMMA CancelOtherStep ==
    ASSUME IInv, NEW id \in ids, cancel_other(posted[id], id)
    PROVE  IInv'
<1>0. Typed /\ Phases /\ QueuedOnce /\ BatchedOnce /\ Settled /\ Ordered
    BY DEF IInv
<1>1. /\ UNCHANGED <<posted, starting, fd_pool, fd_prio, queue_list, running_list, pc, batch, at,
                     callbacks, canceled>>
      /\ told' = IF id \in running_list \/ callbacks[id] > 0 THEN told ELSE told \cup {id}
      /\ id \notin IdsOf(fd_pool[posted[id]])
    BY DEF cancel_other, Answer, find_in_running_list, queueVars, workVars
<1>2. Typed' /\ ids' = ids
    BY <1>0, <1>1 DEF Typed, ids
<1>3. Phases' /\ Settled' /\ Ordered' /\ Queued' = Queued
    BY <1>0, <1>1 DEF Phases, Settled, Ordered, Queued, IdsOf, ids
<1>4. \A w \in Workers : \A i : Done(w, i)' = Done(w, i)
    BY <1>1 DEF Done
<1>5. \A h \in Handles : \A i \in DOMAIN fd_pool[h] : fd_pool[h][i].id # id
    BY <1>0, <1>1 DEF QueuedOnce, IdsOf
<1>6. QueuedOnce'
    BY <1>0, <1>1, <1>2, <1>5 DEF QueuedOnce
<1>7. \A w \in Workers : \A i \in DOMAIN batch[w] :
         Done(w, i) \/ batch[w][i].id \notin told'
    BY <1>0, <1>1 DEF BatchedOnce
<1>8. BatchedOnce'
    BY <1>0, <1>1, <1>2, <1>3, <1>4, <1>7 DEF BatchedOnce
<1> QED
    BY <1>2, <1>3, <1>6, <1>8 DEF IInv

\* A callback preserves the invariant: it is the first for its request.
LEMMA HandleStep ==
    ASSUME IInv, NEW w \in Workers, HandleAio(w)
    PROVE  IInv' /\ batch[w][at[w]].id \notin told
<1> DEFINE a == at[w]
           id == batch[w][a].id
<1>0. Typed /\ Phases /\ QueuedOnce /\ BatchedOnce /\ Settled /\ Ordered
    BY DEF IInv
<1>1. /\ UNCHANGED <<posted, starting, fd_pool, fd_prio, queue_list, running_list, batch, at, canceled, told>>
      /\ callbacks' = [callbacks EXCEPT ![id] = @ + 1]
      /\ pc' = [pc EXCEPT ![w] = "called"] /\ pc[w] = "io"
    BY DEF HandleAio, queueVars
<1>2. a \in DOMAIN batch[w]
    BY <1>0, <1>1 DEF Phases, Typed
<1>3. ~Done(w, a) /\ id \in ids /\ id \notin Queued /\ callbacks[id] = 0 /\ id \notin told /\ id \notin canceled
  <2>1. ~Done(w, a)
      BY <1>0, <1>1 DEF Done, Typed
  <2> QED
      BY <1>0, <1>2, <2>1 DEF BatchedOnce
<1>4. ids' = ids /\ Queued' = Queued /\ ids \subseteq 1 .. MaxIds
  <2>1. Len(posted) \in Nat /\ Cardinality(starting) \in Nat /\ Len(posted) + Cardinality(starting) <= MaxIds
      BY <1>0, FS_CardinalityType DEF Typed
  <2> QED
      BY <1>1, <2>1, AsynchFileIOAssumption DEF ids, Queued, IdsOf
<1> HIDE DEF id
<1>5. /\ callbacks' \in [1 .. MaxIds -> Nat] /\ callbacks'[id] = 1
      /\ \A x \in 1 .. MaxIds : x # id => callbacks'[x] = callbacks[x]
    BY <1>0, <1>1, <1>3, <1>4 DEF Typed
<1>6. /\ pc' \in [Workers -> {"enter", "wait", "woken", "io", "called", "free"}]
      /\ pc'[w] = "called" /\ \A v \in Workers : v # w => pc'[v] = pc[v]
    BY <1>0, <1>1 DEF Typed
<1>7. Typed'
    BY <1>0, <1>1, <1>4, <1>5, <1>6 DEF Typed
<1>8. Phases' /\ Ordered'
    BY <1>0, <1>1, <1>6 DEF Phases, Ordered
<1>9. /\ \A v \in Workers : v # w => \A i : Done(v, i)' = Done(v, i)
      /\ Done(w, a)' = TRUE
      /\ \A i \in DOMAIN batch[w] : i # a => Done(w, i)' = Done(w, i)
    BY <1>1, <1>6 DEF Done
<1>10. QueuedOnce'
  <2>1. \A h \in Handles : \A i \in DOMAIN fd_pool[h] :
           /\ fd_pool[h][i].id \in ids /\ callbacks[fd_pool[h][i].id] = 0 /\ fd_pool[h][i].id # id
      BY <1>0, <1>3, QueuedAt DEF QueuedOnce
  <2>2. \A h \in Handles : \A i \in DOMAIN fd_pool[h] : callbacks'[fd_pool[h][i].id] = 0
      BY <1>4, <1>5, <2>1
  <2> QED
      BY <1>0, <1>1, <1>4, <2>2 DEF QueuedOnce
<1>11. BatchedOnce'
  <2>1. ASSUME NEW v \in Workers, NEW i \in DOMAIN batch[v]
        PROVE  /\ batch[v][i].id \in ids /\ batch[v][i].id \notin canceled
               /\ batch[v][i].id \notin Queued
               /\ callbacks'[batch[v][i].id] = IF Done(v, i)' THEN 1 ELSE 0
               /\ Done(v, i)' \/ (batch[v][i].id \in running_list /\ batch[v][i].id \notin told)
    <3>1. CASE v = w /\ i = a
      <4>1. batch[v][i].id = id /\ Done(v, i)'
          BY <1>1, <1>6, <3>1 DEF id, Done
      <4>2. id \in ids /\ id \notin canceled /\ id \notin Queued /\ callbacks'[id] = 1
          BY <1>3, <1>5
      <4> QED
          BY <4>1, <4>2
    <3>2. CASE ~(v = w /\ i = a)
      <4>1. batch[v][i].id # id
          BY <1>0, <1>2, <3>2 DEF BatchedOnce, id
      <4>2. Done(v, i)' = Done(v, i)
          BY <1>9, <3>2
      <4>3. /\ batch[v][i].id \in ids /\ batch[v][i].id \notin canceled
            /\ batch[v][i].id \notin Queued
            /\ callbacks[batch[v][i].id] = IF Done(v, i) THEN 1 ELSE 0
            /\ Done(v, i) \/ (batch[v][i].id \in running_list /\ batch[v][i].id \notin told)
          BY <1>0 DEF BatchedOnce
      <4> QED
          BY <1>4, <1>5, <4>1, <4>2, <4>3
    <3> QED
        BY <3>1, <3>2
  <2>2. \A u, v \in Workers : \A i \in DOMAIN batch[u], j \in DOMAIN batch[v] :
           batch[u][i].id = batch[v][j].id => u = v /\ i = j
      BY <1>0 DEF BatchedOnce
  <2> QED
      BY <1>1, <1>4, <2>1, <2>2 DEF BatchedOnce
<1>12. Settled'
  <2>1. id \in IdsOf(batch[w])
      BY <1>2 DEF IdsOf, id
  <2>2. \A x \in ids : x \notin Queued /\ (\A v \in Workers : x \notin IdsOf(batch[v]))
                          => callbacks'[x] = IF x \in canceled THEN 0 ELSE 1
      BY <1>0, <1>4, <1>5, <2>1 DEF Settled
  <2>3. \A x \in 1 .. MaxIds : x \notin ids => callbacks'[x] = 0
      BY <1>0, <1>3, <1>5 DEF Settled
  <2>4. \A v \in Workers : IdsOf(batch[v])' = IdsOf(batch[v])
      BY <1>1 DEF IdsOf
  <2> QED
      BY <1>1, <1>4, <2>2, <2>3, <2>4 DEF Settled
<1> QED
    BY <1>3, <1>7, <1>8, <1>10, <1>11, <1>12 DEF IInv, id

\* Leaving the running list preserves the invariant.
LEMMA DequeueStep ==
    ASSUME IInv, NEW w \in Workers, dequeue_from_running_list(w)
    PROVE  IInv'
<1> DEFINE a == at[w]
           id == batch[w][a].id
<1>0. Typed /\ Phases /\ QueuedOnce /\ BatchedOnce /\ Settled /\ Ordered
    BY DEF IInv
<1>1. /\ UNCHANGED <<posted, starting, fd_pool, fd_prio, queue_list, batch, callbacks, canceled, told>>
      /\ running_list' = running_list \ {id} /\ pc[w] = "called"
      /\ \/ a < Len(batch[w]) /\ pc' = [pc EXCEPT ![w] = "io"] /\ at' = [at EXCEPT ![w] = a + 1]
         \/ ~(a < Len(batch[w])) /\ pc' = [pc EXCEPT ![w] = "free"] /\ at' = at
    BY DEF dequeue_from_running_list, queueVars, history
<1>2. a \in 1 .. Len(batch[w]) /\ Len(batch[w]) \in Nat /\ DOMAIN batch[w] = 1 .. Len(batch[w])
    BY <1>0, <1>1 DEF Phases, Typed
<1>3. ids' = ids /\ Queued' = Queued
    BY <1>1 DEF ids, Queued, IdsOf
<1>4. /\ pc' \in [Workers -> {"enter", "wait", "woken", "io", "called", "free"}]
      /\ at' \in [Workers -> Nat]
      /\ \A v \in Workers : v # w => pc'[v] = pc[v] /\ at'[v] = at[v]
      /\ \/ a < Len(batch[w]) /\ pc'[w] = "io" /\ at'[w] = a + 1
         \/ a = Len(batch[w]) /\ pc'[w] = "free" /\ at'[w] = a
  <2>0. /\ pc \in [Workers -> {"enter", "wait", "woken", "io", "called", "free"}]
        /\ at \in [Workers -> Nat]
      BY <1>0 DEF Typed
  <2>1. CASE a < Len(batch[w]) /\ pc' = [pc EXCEPT ![w] = "io"] /\ at' = [at EXCEPT ![w] = a + 1]
      BY <2>0, <2>1
  <2>2. CASE ~(a < Len(batch[w])) /\ pc' = [pc EXCEPT ![w] = "free"] /\ at' = at
    <3>1. a = Len(batch[w])
        BY <1>2, <2>2
    <3> QED
        BY <2>0, <2>2, <3>1
  <2> QED
      BY <1>1, <2>1, <2>2
<1>5. Typed'
    BY <1>0, <1>1, <1>3, <1>4 DEF Typed
<1>6. QueuedOnce' /\ Ordered'
    BY <1>0, <1>1, <1>3 DEF QueuedOnce, Ordered
<1>7. Settled'
    BY <1>0, <1>1, <1>3 DEF Settled, IdsOf
<1>8. Phases'
  <2> SUFFICES ASSUME NEW v \in Workers
               PROVE  /\ pc'[v] \in {"enter", "wait", "woken"} => batch[v] = <<>>
                      /\ pc'[v] \in {"io", "called"} => at'[v] \in 1 .. Len(batch[v])
                      /\ pc'[v] = "free" => at'[v] = Len(batch[v])
      BY <1>1 DEF Phases
  <2>1. CASE v = w
      BY <1>2, <1>4, <2>1
  <2>2. CASE v # w
      BY <1>0, <1>4, <2>2 DEF Phases
  <2> QED
      BY <2>1, <2>2
<1>9. \A v \in Workers : \A i \in DOMAIN batch[v] : Done(v, i)' <=> Done(v, i)
  <2> SUFFICES ASSUME NEW v \in Workers, NEW i \in DOMAIN batch[v] PROVE Done(v, i)' <=> Done(v, i)
      OBVIOUS
  <2>1. CASE v = w
      BY <1>1, <1>2, <1>4, <2>1 DEF Done
  <2>2. CASE v # w
      BY <1>4, <2>2 DEF Done
  <2> QED
      BY <2>1, <2>2
<1>10. Done(w, a)
    BY <1>1, <1>2 DEF Done
<1>11. BatchedOnce'
  <2>1. ASSUME NEW v \in Workers, NEW i \in DOMAIN batch[v]
        PROVE  /\ batch[v][i].id \in ids /\ batch[v][i].id \notin canceled
               /\ batch[v][i].id \notin Queued
               /\ callbacks[batch[v][i].id] = IF Done(v, i)' THEN 1 ELSE 0
               /\ Done(v, i)' \/ (batch[v][i].id \in running_list' /\ batch[v][i].id \notin told)
    <3>1. /\ batch[v][i].id \in ids /\ batch[v][i].id \notin canceled
          /\ batch[v][i].id \notin Queued
          /\ callbacks[batch[v][i].id] = IF Done(v, i) THEN 1 ELSE 0
          /\ Done(v, i) \/ (batch[v][i].id \in running_list /\ batch[v][i].id \notin told)
        BY <1>0 DEF BatchedOnce
    <3>2. batch[v][i].id = id => Done(v, i)
        BY <1>0, <1>2, <1>10 DEF BatchedOnce
    <3> QED
        BY <1>1, <1>9, <3>1, <3>2
  <2>2. \A u, v \in Workers : \A i \in DOMAIN batch[u], j \in DOMAIN batch[v] :
           batch[u][i].id = batch[v][j].id => u = v /\ i = j
      BY <1>0 DEF BatchedOnce
  <2> QED
      BY <1>1, <1>3, <2>1, <2>2 DEF BatchedOnce
<1> QED
    BY <1>5, <1>6, <1>7, <1>8, <1>11 DEF IInv

\* Freeing the nodes of a batch preserves the invariant: all were called.
LEMMA FreeStep ==
    ASSUME IInv, NEW w \in Workers, free_aio_opt_n(w)
    PROVE  IInv'
<1>0. Typed /\ Phases /\ QueuedOnce /\ BatchedOnce /\ Settled /\ Ordered
    BY DEF IInv
<1>1. /\ UNCHANGED <<posted, starting, fd_pool, fd_prio, queue_list, running_list, callbacks, canceled, told>>
      /\ pc[w] = "free" /\ pc' = [pc EXCEPT ![w] = "enter"]
      /\ batch' = [batch EXCEPT ![w] = <<>>] /\ at' = [at EXCEPT ![w] = 0]
    BY DEF free_aio_opt_n, queueVars, history
<1>2. at[w] = Len(batch[w]) /\ DOMAIN batch[w] = 1 .. Len(batch[w])
    BY <1>0, <1>1 DEF Phases, Typed
<1>3. \A i \in DOMAIN batch[w] : Done(w, i)
    BY <1>1, <1>2 DEF Done
<1>4. ids' = ids /\ Queued' = Queued
    BY <1>1 DEF ids, Queued, IdsOf
<1>5. /\ pc' \in [Workers -> {"enter", "wait", "woken", "io", "called", "free"}]
      /\ at' \in [Workers -> Nat] /\ batch' \in [Workers -> Seq(Request)]
      /\ \A v \in Workers : v # w => pc'[v] = pc[v] /\ at'[v] = at[v] /\ batch'[v] = batch[v]
      /\ batch'[w] = <<>> /\ pc'[w] = "enter"
    BY <1>0, <1>1 DEF Typed
<1>6. Typed'
    BY <1>0, <1>1, <1>4, <1>5 DEF Typed
<1>7. QueuedOnce' /\ Ordered'
    BY <1>0, <1>1, <1>4 DEF QueuedOnce, Ordered
<1>8. Phases'
    BY <1>0, <1>5 DEF Phases
<1>9. \A v \in Workers : v # w => \A i : Done(v, i)' = Done(v, i)
    BY <1>5 DEF Done
<1>10. \A v \in Workers : \A i \in DOMAIN batch'[v] : v # w
    BY <1>5
<1>11. BatchedOnce'
  <2>1. ASSUME NEW v \in Workers, NEW i \in DOMAIN batch'[v]
        PROVE  /\ batch'[v][i].id \in ids /\ batch'[v][i].id \notin canceled
               /\ batch'[v][i].id \notin Queued
               /\ callbacks[batch'[v][i].id] = IF Done(v, i)' THEN 1 ELSE 0
               /\ Done(v, i)' \/ (batch'[v][i].id \in running_list /\ batch'[v][i].id \notin told)
    <3>1. v # w
        BY <1>10
    <3>2. batch'[v] = batch[v] /\ Done(v, i)' = Done(v, i) /\ i \in DOMAIN batch[v]
        BY <1>5, <1>9, <3>1
    <3>3. /\ batch[v][i].id \in ids /\ batch[v][i].id \notin canceled
          /\ batch[v][i].id \notin Queued
          /\ callbacks[batch[v][i].id] = IF Done(v, i) THEN 1 ELSE 0
          /\ Done(v, i) \/ (batch[v][i].id \in running_list /\ batch[v][i].id \notin told)
        BY <1>0, <3>2 DEF BatchedOnce
    <3> QED
        BY <3>2, <3>3
  <2>2. ASSUME NEW u \in Workers, NEW v \in Workers, NEW i \in DOMAIN batch'[u], NEW j \in DOMAIN batch'[v],
               batch'[u][i].id = batch'[v][j].id
        PROVE  u = v /\ i = j
    <3>1. u # w /\ v # w
        BY <1>10
    <3>2. batch'[u] = batch[u] /\ batch'[v] = batch[v]
        BY <1>5, <3>1
    <3> QED
        BY <1>0, <2>2, <3>2 DEF BatchedOnce
  <2> QED
      BY <1>1, <1>4, <2>1, <2>2 DEF BatchedOnce
<1>12. Settled'
  <2>1. ASSUME NEW x \in ids, x \notin Queued, \A v \in Workers : x \notin IdsOf(batch'[v])
        PROVE  callbacks[x] = IF x \in canceled THEN 0 ELSE 1
    <3>1. CASE x \in IdsOf(batch[w])
      <4>1. PICK i \in DOMAIN batch[w] : batch[w][i].id = x
          BY <3>1 DEF IdsOf
      <4> QED
          BY <1>0, <1>3, <4>1 DEF BatchedOnce
    <3>2. CASE x \notin IdsOf(batch[w])
      <4>1. \A v \in Workers : x \notin IdsOf(batch[v])
          BY <1>5, <2>1, <3>2
      <4> QED
          BY <1>0, <2>1, <4>1 DEF Settled
    <3> QED
        BY <3>1, <3>2
  <2>2. \A x \in 1 .. MaxIds : x \notin ids => callbacks[x] = 0
      BY <1>0 DEF Settled
  <2>3. \A v \in Workers : IdsOf(batch[v])' = IdsOf(batch'[v])
      BY DEF IdsOf
  <2> QED
      BY <1>1, <1>4, <2>1, <2>2, <2>3 DEF Settled
<1> QED
    BY <1>6, <1>7, <1>8, <1>11, <1>12 DEF IInv

-----------------------------------------------------------------------------
(* The invariant.                                                          *)

\* The invariant holds at the start.
LEMMA InitIInv == Init => IInv
<1> SUFFICES ASSUME Init PROVE IInv
    OBVIOUS
<1>1. /\ posted = <<>> /\ starting = {} /\ fd_pool = [h \in Handles |-> <<>>] /\ queue_list = <<>>
      /\ fd_prio = [h \in Handles |-> 0] /\ running_list = {} /\ canceled = {} /\ told = {}
      /\ pc = [w \in Workers |-> "enter"] /\ batch = [w \in Workers |-> <<>>]
      /\ at = [w \in Workers |-> 0] /\ callbacks = [id \in 1 .. MaxIds |-> 0]
    BY DEF Init
<1>2. ids = {} /\ Len(posted) = 0
    BY <1>1 DEF ids
<1>3. IsFiniteSet(starting) /\ Cardinality(starting) = 0
    BY <1>1, FS_EmptySet
<1>4. Typed
    BY <1>1, <1>2, <1>3, AsynchFileIOAssumption DEF Typed
<1>5. Phases /\ QueuedOnce /\ BatchedOnce
    BY <1>1 DEF Phases, QueuedOnce, BatchedOnce
<1>6. Settled
    BY <1>1, <1>2 DEF Settled
<1>7. Ordered
    BY <1>1 DEF Ordered, ToSet
<1> QED
    BY <1>4, <1>5, <1>6, <1>7 DEF IInv

\* Every step preserves it.
LEMMA NextIInv == IInv /\ [Next]_vars => IInv'
<1> SUFFICES ASSUME IInv, [Next]_vars PROVE IInv'
    OBVIOUS
<1>1. CASE UNCHANGED vars
  <2>1. UNCHANGED <<posted, starting, fd_pool, fd_prio, queue_list, running_list, pc, batch, at,
                    callbacks, canceled, told>>
      BY <1>1 DEF vars, queueVars, workVars, history
  <2>2. ids' = ids /\ Queued' = Queued
      BY <2>1 DEF ids, Queued, IdsOf
  <2>3. \A w \in Workers : \A i : Done(w, i)' = Done(w, i)
      BY <2>1 DEF Done
  <2>4. (Typed /\ Phases /\ QueuedOnce /\ Ordered)'
      BY <2>1, <2>2 DEF IInv, Typed, Phases, QueuedOnce, Ordered
  <2>5. BatchedOnce'
      BY <2>1, <2>2, <2>3 DEF IInv, BatchedOnce
  <2>6. Settled'
      BY <2>1, <2>2 DEF IInv, Settled, IdsOf
  <2> QED
      BY <2>4, <2>5, <2>6 DEF IInv
<1>2. CASE \E c \in Clients : Alloc(c)
    BY <1>2, AllocStep
<1>3. CASE \E c \in Clients : \E p \in Posts : start_aio(c, p)
    BY <1>3, StartStep
<1>4. CASE \E id \in ids : cancel_aio(id)
  <2>1. PICK id \in ids : cancel_queued(posted[id], id) \/ cancel_other(posted[id], id)
      BY <1>4 DEF cancel_aio
  <2>2. posted[id] \in Handles
      BY DEF IInv, Typed, ids
  <2> QED
      BY <2>1, <2>2, CancelQueuedStep, CancelOtherStep
<1>5. CASE \E w \in Workers : Work(w) \/ SpuriousWakeup(w)
    BY <1>5, WaitStep, PopStep, HandleStep, DequeueStep, FreeStep DEF Work
<1> QED
    BY <1>1, <1>2, <1>3, <1>4, <1>5 DEF Next

\* The queue of ndk::asynch_file_io, its batches and the history of its
\* requests always agree, for any handles, clients, requests and workers.
THEOREM AsynchInvariant == Spec => []IInv
  BY InitIInv, NextIInv, PTL DEF Spec

\* Once cancel_aio has answered AIO_CANCELED the handler of the request is never
\* called.
THEOREM CancelFinal == Spec => CancelIsFinal
<1>1. IInv /\ [Next]_vars => [\A id \in told : callbacks'[id] = callbacks[id]]_vars
  <2> SUFFICES ASSUME IInv, Next, NEW id \in told PROVE callbacks'[id] = callbacks[id]
      BY DEF vars
  <2>0. /\ callbacks \in [1 .. MaxIds -> Nat] /\ id \in ids
      BY DEF IInv, Typed
  <2>1. ASSUME NEW w \in Workers, HandleAio(w) PROVE callbacks'[id] = callbacks[id]
    <3>1. batch[w][at[w]].id # id
        BY <2>1, HandleStep
    <3>2. callbacks' = [callbacks EXCEPT ![batch[w][at[w]].id] = @ + 1]
        BY <2>1 DEF HandleAio
    <3> QED
        BY <2>0, <3>1, <3>2
  <2>2. CASE ~\E w \in Workers : HandleAio(w)
      BY <2>2 DEF Next, Alloc, start_aio, cancel_aio, cancel_queued, cancel_other, Work, Wait, Pop,
                  dequeue_from_running_list, free_aio_opt_n, SpuriousWakeup, history
  <2> QED
      BY <2>1, <2>2
<1> QED
    BY <1>1, AsynchInvariant, PTL DEF Spec, CancelIsFinal

-----------------------------------------------------------------------------
(* No request is lost, run twice or uncounted.                             *)

\* A request is pending at the worker whose batch holds it, until it is called.
LEMMA PendingAt ==
    ASSUME Typed, NEW w \in Workers, NEW id
    PROVE  id \in Pending(w) <=> \E i \in DOMAIN batch[w] : batch[w][i].id = id /\ ~Done(w, i)
<1>1. at[w] \in Nat /\ DOMAIN batch[w] \subseteq Int
    BY DEF Typed
<1>2. \A i \in DOMAIN batch[w] : (i > at[w] \/ (i = at[w] /\ pc[w] = "io")) <=> ~Done(w, i)
    BY <1>1 DEF Done
<1> QED
    BY <1>2 DEF Pending

\* Each request is in one place, from the invariant.
LEMMA OncePlaced == IInv => EachOnce
<1> SUFFICES ASSUME IInv, NEW id \in ids
             PROVE  callbacks[id] + (IF id \in canceled THEN 1 ELSE 0)
                    + Cardinality({h \in Handles : id \in IdsOf(fd_pool[h])})
                    + Cardinality({w \in Workers : id \in Pending(w)}) = 1
    BY DEF EachOnce
<1> DEFINE Hs == {h \in Handles : id \in IdsOf(fd_pool[h])}
           Ws == {w \in Workers : id \in Pending(w)}
<1>0. Typed /\ QueuedOnce /\ BatchedOnce /\ Settled
    BY DEF IInv
<1>a. id \in Queued <=> Hs # {}
    BY DEF Queued
<1>b. \A w \in Workers : id \in Pending(w) <=> \E i \in DOMAIN batch[w] : batch[w][i].id = id /\ ~Done(w, i)
    BY <1>0, PendingAt
<1>c. /\ Cardinality({}) = 0 /\ \A x : Cardinality({x}) = 1
    BY FS_EmptySet, FS_Singleton
<1>1. CASE id \in Queued
  <2>1. PICK h \in Handles : \E i \in DOMAIN fd_pool[h] : fd_pool[h][i].id = id
      BY <1>1, QueuedAt
  <2>2. callbacks[id] = 0 /\ id \notin canceled
      BY <1>0, <2>1 DEF QueuedOnce
  <2>3. Hs = {h}
    <3>1. \A g \in Handles : id \in IdsOf(fd_pool[g]) => g = posted[id]
        BY <1>0 DEF QueuedOnce, IdsOf
    <3>2. h \in Hs
        BY <2>1 DEF IdsOf
    <3> QED
        BY <3>1, <3>2
  <2>4. \A w \in Workers : \A i \in DOMAIN batch[w] : batch[w][i].id # id
      BY <1>0, <1>1 DEF BatchedOnce
  <2>5. Ws = {}
      BY <1>b, <2>4
  <2> HIDE DEF Hs, Ws
  <2>6. Cardinality(Hs) = 1 /\ Cardinality(Ws) = 0
      BY <1>c, <2>3, <2>5
  <2> QED
      BY <2>2, <2>6 DEF Hs, Ws
<1>2. ASSUME id \notin Queued, NEW w \in Workers, NEW i \in DOMAIN batch[w], batch[w][i].id = id
      PROVE  callbacks[id] + (IF id \in canceled THEN 1 ELSE 0) + Cardinality(Hs) + Cardinality(Ws) = 1
  <2>1. id \notin canceled /\ callbacks[id] = IF Done(w, i) THEN 1 ELSE 0
      BY <1>0, <1>2 DEF BatchedOnce
  <2>2. Hs = {}
      BY <1>2, <1>a
  <2>3. \A v \in Workers : \A j \in DOMAIN batch[v] : batch[v][j].id = id => v = w /\ j = i
      BY <1>0, <1>2 DEF BatchedOnce
  <2>4. Ws = IF Done(w, i) THEN {} ELSE {w}
    <3>1. CASE Done(w, i)
        BY <1>b, <2>3, <3>1
    <3>2. CASE ~Done(w, i)
      <4>1. w \in Ws
          BY <1>2, <1>b, <3>2
      <4>2. \A v \in Ws : v = w
          BY <1>b, <2>3
      <4> QED
          BY <3>2, <4>1, <4>2
    <3> QED
        BY <3>1, <3>2
  <2> HIDE DEF Hs, Ws
  <2>5. Cardinality(Hs) = 0 /\ Cardinality(Ws) = IF Done(w, i) THEN 0 ELSE 1
      BY <1>c, <2>2, <2>4
  <2> QED
      BY <2>1, <2>5
<1>3. CASE id \notin Queued /\ \A w \in Workers : id \notin IdsOf(batch[w])
  <2>1. callbacks[id] = IF id \in canceled THEN 0 ELSE 1
      BY <1>0, <1>3 DEF Settled
  <2>2. Hs = {}
      BY <1>3, <1>a
  <2>3. Ws = {}
      BY <1>3, <1>b DEF IdsOf
  <2> HIDE DEF Hs, Ws
  <2>4. Cardinality(Hs) = 0 /\ Cardinality(Ws) = 0
      BY <1>c, <2>2, <2>3
  <2> QED
      BY <2>1, <2>4 DEF Hs, Ws
<1>4. (\A w \in Workers : id \notin IdsOf(batch[w]))
      \/ \E w \in Workers : \E i \in DOMAIN batch[w] : batch[w][i].id = id
    BY DEF IdsOf
<1> QED
    BY <1>1, <1>2, <1>3, <1>4

\* The nodes the workers have, when one of them changes its batch.
LEMMA BatchSum ==
    ASSUME NEW b \in [Workers -> Seq(Request)], NEW w \in Workers, NEW q \in Seq(Request)
    PROVE  /\ InBatches(b) \in Nat /\ Len(b[w]) \in Nat /\ Len(q) \in Nat
           /\ InBatches([b EXCEPT ![w] = q]) = InBatches(b) - Len(b[w]) + Len(q)
<1> DEFINE c == [b EXCEPT ![w] = q]
           f == [v \in Workers |-> Len(b[v])]
           g == [v \in Workers |-> Len(c[v])]
<1>1. f \in [Workers -> Nat] /\ g \in [Workers -> Nat] /\ \A v \in Workers : v # w => f[v] = g[v]
    OBVIOUS
<1>2. f[w] = Len(b[w]) /\ g[w] = Len(q) /\ Len(b[w]) \in Nat /\ Len(q) \in Nat
    OBVIOUS
<1>3. InBatches(b) = SumOver(f, Workers) /\ InBatches(c) = SumOver(g, Workers)
    BY DEF InBatches, SumOver
<1>4. IsFiniteSet(Workers)
    BY AsynchFileIOAssumption
<1> HIDE DEF f, g, c
<1>5. /\ SumOver(f, Workers) \in Nat
      /\ SumOver(g, Workers) = SumOver(f, Workers) - f[w] + g[w]
    BY <1>1, <1>4, SumUpdate, ZenonT(25)
<1> QED
    BY <1>2, <1>3, <1>5 DEF c

\* The nodes of batches nobody has.
LEMMA BatchesEmpty ==
    ASSUME NEW b \in [Workers -> Seq(Request)], \A w \in Workers : b[w] = <<>>
    PROVE  InBatches(b) = 0
<1> DEFINE f == [v \in Workers |-> Len(b[v])]
<1>1. f \in [Workers -> Nat] /\ \A v \in Workers : f[v] = 0
    OBVIOUS
<1>2. InBatches(b) = SumOver(f, Workers) /\ IsFiniteSet(Workers)
    BY AsynchFileIOAssumption DEF InBatches, SumOver
<1> HIDE DEF f
<1> QED
    BY <1>1, <1>2, SumZero

\* The queued requests are finitely many.
LEMMA QueuedFinite ==
    ASSUME Typed, QueuedOnce
    PROVE  IsFiniteSet(Queued) /\ Cardinality(Queued) \in Nat
<1>1. Queued \subseteq ids
    BY QueuedAt DEF QueuedOnce
<1>2. IsFiniteSet(ids)
    BY FS_Interval DEF ids, Typed
<1>3. IsFiniteSet(Queued)
    BY <1>1, <1>2, FS_Subset
<1> QED
    BY <1>3, FS_CardinalityType

\* A batch has as many requests as ids.
LEMMA BatchIds ==
    ASSUME NEW F \in Seq(Request), \A i, j \in DOMAIN F : F[i].id = F[j].id => i = j
    PROVE  Cardinality(IdsOf(F)) = Len(F)
<1> DEFINE f == [i \in 1 .. Len(F) |-> F[i].id]
<1>1. f \in Seq(1 .. MaxIds) /\ Len(f) = Len(F) /\ DOMAIN f = DOMAIN F
  <2>1. \A i \in 1 .. Len(F) : F[i] \in Request
      OBVIOUS
  <2>2. \A i \in 1 .. Len(F) : F[i].id \in 1 .. MaxIds
      BY <2>1 DEF Request
  <2> QED
      BY <2>2
<1>2. \A i \in DOMAIN f : f[i] = F[i].id
    OBVIOUS
<1> HIDE DEF f
<1>3. NoDup(f)
    BY <1>1, <1>2 DEF NoDup
<1>4. ToSet(f) = IdsOf(F)
    BY <1>1, <1>2 DEF ToSet, IdsOf
<1> QED
    BY <1>1, <1>3, <1>4, OnceEach

\* The counts hold at the start.
LEMMA InitSize == Init => SizeExact
<1> SUFFICES ASSUME Init PROVE SizeExact
    OBVIOUS
<1>1. /\ queue_list_size = 0 /\ starting = {} /\ fd_pool = [h \in Handles |-> <<>>]
      /\ batch = [w \in Workers |-> <<>>]
    BY DEF Init
<1>2. Queued = {}
    BY <1>1 DEF Queued, IdsOf
<1>3. InBatches(batch) = 0
  <2>1. batch \in [Workers -> Seq(Request)] /\ \A w \in Workers : batch[w] = <<>>
      BY <1>1
  <2> QED
      BY <2>1, BatchesEmpty
<1>4. Cardinality(starting) = 0 /\ Cardinality(Queued) = 0
    BY <1>1, <1>2, FS_EmptySet
<1> QED
    BY <1>1, <1>3, <1>4, AsynchFileIOAssumption DEF SizeExact

\* The counts are numbers.
LEMMA Counts ==
    ASSUME IInv
    PROVE  /\ Cardinality(starting) \in Nat /\ Cardinality(Queued) \in Nat
           /\ InBatches(batch) \in Nat
<1>1. IsFiniteSet(starting) /\ batch \in [Workers -> Seq(Request)]
    BY DEF IInv, Typed
<1>2. Cardinality(starting) \in Nat
    BY <1>1, FS_CardinalityType
<1>3. Cardinality(Queued) \in Nat
    BY QueuedFinite DEF IInv
<1>4. InBatches(batch) \in Nat
  <2>1. [v \in Workers |-> Len(batch[v])] \in [Workers -> Nat]
      BY <1>1
  <2>2. IsFiniteSet(Workers) /\ Workers \in SUBSET Workers
      BY AsynchFileIOAssumption
  <2> DEFINE f == [v \in Workers |-> Len(batch[v])]
  <2>3. InBatches(batch) = SumOver(f, Workers)
      BY DEF InBatches, SumOver
  <2> HIDE DEF f
  <2>4. f \in [Workers -> Nat]
      BY <2>1 DEF f
  <2>5. SumOver(f, Workers) \in Nat
      BY <2>2, <2>4, SumType
  <2> QED
      BY <2>3, <2>5
<1> QED
    BY <1>2, <1>3, <1>4

\* Every step keeps the counts.
LEMMA NextSize == IInv /\ SizeExact /\ [Next]_vars => SizeExact'
<1> SUFFICES ASSUME IInv, SizeExact, [Next]_vars PROVE SizeExact'
    OBVIOUS
<1>0. Typed /\ QueuedOnce /\ Ordered /\ max_request_queue_size \in Nat
    BY AsynchFileIOAssumption DEF IInv
<1>1. Cardinality(starting) \in Nat /\ Cardinality(Queued) \in Nat /\ InBatches(batch) \in Nat
    BY Counts
<1>2. /\ queue_list_size = Cardinality(starting) + Cardinality(Queued) + InBatches(batch)
      /\ queue_list_size <= max_request_queue_size + 1
    BY DEF SizeExact
<1>3. IsFiniteSet(starting) /\ IsFiniteSet(Queued) /\ batch \in [Workers -> Seq(Request)]
    BY <1>0, QueuedFinite DEF Typed
<1> DEFINE Exact == /\ queue_list_size' = Cardinality(starting') + Cardinality(Queued') + InBatches(batch')
                    /\ queue_list_size' <= max_request_queue_size + 1
<1>4. Exact => SizeExact'
  <2>1. InBatches(batch)' = InBatches(batch')
      BY DEF InBatches, MapThenSumSet, MapThenFoldSet
  <2> QED
      BY <2>1 DEF SizeExact
<1>5. (UNCHANGED fd_pool) => Queued' = Queued
    BY DEF Queued, IdsOf
<1>6. (UNCHANGED <<queue_list_size, starting, fd_pool, batch>>) => Exact
    BY <1>2, <1>5
<1>7. ASSUME NEW c \in Clients, Alloc(c) PROVE Exact
  <2>1. /\ c \notin starting /\ starting' = starting \cup {c} /\ queue_list_size' = queue_list_size + 1
        /\ queue_list_size <= max_request_queue_size /\ UNCHANGED <<fd_pool, batch>>
      BY <1>7 DEF Alloc, queueVars, workVars
  <2>2. Cardinality(starting') = Cardinality(starting) + 1
      BY <1>3, <2>1, FS_AddElement
  <2>3. Queued' = Queued /\ batch' = batch
      BY <1>5, <2>1
  <2> QED
      BY <1>0, <1>1, <1>2, <2>1, <2>2, <2>3
<1>8. ASSUME NEW c \in Clients, NEW p \in Posts, start_aio(c, p) PROVE Exact
  <2> DEFINE N == Len(posted) + 1
  <2>1. N \notin Queued /\ Queued' = Queued \cup {N}
      BY <1>0, <1>8, StartQueues
  <2>2. Cardinality(starting') = Cardinality(starting) - 1
      BY <1>0, <1>8, StartIds
  <2>3. UNCHANGED <<queue_list_size, batch>>
      BY <1>8 DEF start_aio
  <2> HIDE DEF N
  <2>4. Cardinality(Queued') = Cardinality(Queued) + 1
      BY <1>3, <2>1, FS_AddElement
  <2> QED
      BY <1>0, <1>1, <1>2, <2>2, <2>3, <2>4
<1>9. ASSUME NEW id \in ids, cancel_queued(posted[id], id) PROVE Exact
  <2>0. posted[id] \in Handles
      BY <1>0 DEF Typed, ids
  <2>1. id \in Queued /\ Queued' = Queued \ {id}
      BY <1>0, <1>9, <2>0, CancelQueues
  <2>2. Cardinality(Queued') = Cardinality(Queued) - 1
      BY <1>3, <2>1, FS_RemoveElement
  <2>3. queue_list_size' = queue_list_size - 1 /\ UNCHANGED <<starting, batch>>
      BY <1>9 DEF cancel_queued, workVars
  <2> QED
      BY <1>0, <1>1, <1>2, <2>2, <2>3
<1>10. ASSUME NEW w \in Workers, Pop(w) PROVE Exact
  <2> DEFINE F == pop_some_request
  <2>1. /\ F \in Seq(Request) /\ \A i, j \in DOMAIN F : F[i].id = F[j].id => i = j
        /\ IdsOf(F) \subseteq Queued /\ Queued' = Queued \ IdsOf(F)
      BY <1>0, <1>10, PopQueues
  <2>2. batch' = [batch EXCEPT ![w] = F] /\ UNCHANGED <<queue_list_size, starting>>
      BY <1>10 DEF Pop
  <2>3. batch[w] = <<>>
      BY <1>10 DEF Pop, HasMutex, IInv, Phases
  <2> HIDE DEF F
  <2>4. Cardinality(IdsOf(F)) = Len(F)
      BY <2>1, BatchIds
  <2>5. Cardinality(Queued') = Cardinality(Queued) - Len(F)
    <3>1. Queued \cap IdsOf(F) = IdsOf(F)
        BY <2>1
    <3>2. Cardinality(Queued \ IdsOf(F)) = Cardinality(Queued) - Cardinality(Queued \cap IdsOf(F))
        BY <1>3, FS_Difference
    <3> QED
        BY <2>1, <2>4, <3>1, <3>2
  <2>6. /\ InBatches([batch EXCEPT ![w] = F]) = InBatches(batch) - Len(batch[w]) + Len(F)
        /\ Len(F) \in Nat
      BY <1>3, <2>1, BatchSum
  <2>7. InBatches(batch') = InBatches(batch) + Len(F)
    <3>1. Len(batch[w]) = 0
        BY <2>3
    <3> QED
        BY <1>1, <2>2, <2>6, <3>1
  <2> QED
      BY <1>0, <1>1, <1>2, <2>2, <2>5, <2>6, <2>7
<1>11. ASSUME NEW w \in Workers, free_aio_opt_n(w) PROVE Exact
  <2>1. /\ batch' = [batch EXCEPT ![w] = <<>>] /\ queue_list_size' = queue_list_size - Len(batch[w])
        /\ UNCHANGED <<starting, fd_pool>>
      BY <1>11 DEF free_aio_opt_n, queueVars
  <2>2. <<>> \in Seq(Request) /\ Len(<<>>) = 0
      OBVIOUS
  <2>3. /\ InBatches([batch EXCEPT ![w] = <<>>]) = InBatches(batch) - Len(batch[w]) + Len(<<>>)
        /\ Len(batch[w]) \in Nat
      BY <1>3, <2>2, BatchSum
  <2>4. InBatches(batch') = InBatches(batch) - Len(batch[w])
      BY <1>1, <2>1, <2>2, <2>3
  <2> QED
      BY <1>0, <1>1, <1>2, <1>5, <2>1, <2>3, <2>4, SMTT(20)
<1>12. ASSUME NEW w \in Workers,
              Wait(w) \/ HandleAio(w) \/ dequeue_from_running_list(w) \/ SpuriousWakeup(w)
       PROVE  Exact
  <2>1. UNCHANGED <<queue_list_size, starting, fd_pool, batch>>
      BY <1>12 DEF Wait, HandleAio, dequeue_from_running_list, SpuriousWakeup, queueVars
  <2> QED
      BY <1>6, <2>1
<1>13. ASSUME NEW id \in ids, cancel_other(posted[id], id) PROVE Exact
  <2>1. UNCHANGED <<queue_list_size, starting, fd_pool, batch>>
      BY <1>13 DEF cancel_other, queueVars, workVars
  <2> QED
      BY <1>6, <2>1
<1>14. ASSUME UNCHANGED vars PROVE Exact
  <2>1. UNCHANGED <<queue_list_size, starting, fd_pool, batch>>
      BY <1>14 DEF vars, queueVars, workVars
  <2> QED
      BY <1>6, <2>1
<1> HIDE DEF Exact
<1>15. Exact
    BY <1>7, <1>8, <1>9, <1>10, <1>11, <1>12, <1>13, <1>14 DEF Next, Work, cancel_aio
<1> QED
    BY <1>4, <1>15

\* No request of ndk::asynch_file_io is lost, run twice, uncounted or out of
\* order, whatever is posted, popped and cancelled meanwhile, for any handles,
\* clients, requests and any number of workers.
THEOREM QueueIsSound == Spec => []QueueSound
<1>1. Init => IInv /\ SizeExact
    BY InitIInv, InitSize
<1>2. IInv /\ SizeExact /\ [Next]_vars => (IInv /\ SizeExact)'
    BY NextIInv, NextSize
<1>3. IInv /\ SizeExact => QueueSound
    BY OncePlaced DEF QueueSound, IInv
<1> QED
    BY <1>1, <1>2, <1>3, PTL DEF Spec

\* queue_list_size_ never wraps: the type invariant, from the counts.
THEOREM AsynchTypes == Spec => []TypeOK
<1>1. Init => IInv /\ SizeExact
    BY InitIInv, InitSize
<1>2. IInv /\ SizeExact /\ [Next]_vars => (IInv /\ SizeExact)'
    BY NextIInv, NextSize
<1>3. IInv /\ SizeExact => TypeOK
  <2> SUFFICES ASSUME IInv, SizeExact PROVE TypeOK
      OBVIOUS
  <2>1. queue_list_size \in Nat
      BY Counts DEF SizeExact
  <2> QED
      BY <2>1 DEF IInv, Typed, TypeOK
<1> QED
    BY <1>1, <1>2, <1>3, PTL DEF Spec

-----------------------------------------------------------------------------
(* No wakeup is lost.                                                      *)

\* Every step keeps a woken worker for every listed handle while one waits.
LEMMA NextWoken == IInv /\ WorkersWoken /\ [Next]_vars => WorkersWoken'
<1> SUFFICES ASSUME IInv, WorkersWoken, [Next]_vars PROVE WorkersWoken'
    OBVIOUS
<1> DEFINE W == At("wait")
           K == At("woken")
           W1 == {w \in Workers : pc'[w] = "wait"}
           K1 == {w \in Workers : pc'[w] = "woken"}
           Woken == W1 # {} => Len(queue_list') <= Cardinality(K1)
<1>0. Typed /\ QueuedOnce /\ Ordered /\ pc \in [Workers -> {"enter", "wait", "woken", "io", "called", "free"}]
    BY DEF IInv, Typed
<1>1. W = {w \in Workers : pc[w] = "wait"} /\ K = {w \in Workers : pc[w] = "woken"}
    BY DEF At
<1>2. Woken => WorkersWoken'
    BY DEF WorkersWoken, At
<1>3. /\ IsFiniteSet(K) /\ IsFiniteSet(K1) /\ Cardinality(K) \in Nat /\ Cardinality(K1) \in Nat
      /\ Len(queue_list) \in Nat
  <2>1. IsFiniteSet(Workers) /\ K \in SUBSET Workers /\ K1 \in SUBSET Workers
      BY <1>1, AsynchFileIOAssumption
  <2>2. IsFiniteSet(K) /\ IsFiniteSet(K1)
      BY <2>1, FS_Subset
  <2> QED
      BY <1>0, <2>2, FS_CardinalityType DEF Typed
<1>4. W # {} => Len(queue_list) <= Cardinality(K)
    BY DEF WorkersWoken
<1> HIDE DEF W, K
\* Nobody starts to wait or stops being woken, and the list grows no longer.
<1>5. ASSUME Len(queue_list') \in Nat, Len(queue_list') <= Len(queue_list),
             \A w \in Workers : (pc'[w] = "wait" <=> pc[w] = "wait") /\ (pc'[w] = "woken" <=> pc[w] = "woken")
      PROVE  Woken
  <2>1. W1 = W /\ K1 = K
      BY <1>1, <1>5
  <2> HIDE DEF W1, K1
  <2> QED
      BY <1>3, <1>4, <1>5, <2>1
<1>6. ASSUME UNCHANGED <<pc, queue_list>> PROVE Woken
    BY <1>3, <1>5, <1>6
<1>7. ASSUME NEW c \in Clients, NEW p \in Posts, start_aio(c, p) PROVE Woken
  <2>1. Len(queue_list') \in Nat /\ Len(queue_list') <= Len(queue_list) + 1
      BY <1>0, <1>7, StartOrdered
  <2>2. signal
      BY <1>7 DEF start_aio
  <2>3. CASE W = {}
    <3>1. pc' = pc
        BY <2>2, <2>3 DEF signal, W
    <3>2. W1 = {}
        BY <1>1, <2>3, <3>1
    <3> QED
        BY <3>2
  <2>4. ASSUME NEW u \in W, pc' = [pc EXCEPT ![u] = "woken"] PROVE Woken
    <3>1. u \in Workers /\ pc[u] = "wait" /\ u \notin K
        BY <1>1
    <3>2. K1 = K \cup {u}
        BY <1>0, <1>1, <2>4, <3>1
    <3> HIDE DEF K1, W1
    <3>3. Cardinality(K1) = Cardinality(K) + 1
        BY <1>3, <3>1, <3>2, FS_AddElement
    <3> QED
        BY <1>3, <1>4, <2>1, <3>3
  <2> QED
      BY <2>2, <2>3, <2>4 DEF signal, W
<1>8. ASSUME NEW id \in ids, cancel_queued(posted[id], id) PROVE Woken
  <2>1. posted[id] \in Handles
      BY <1>0 DEF Typed, ids
  <2>2. queue_list' \in Seq(Handles) /\ Len(queue_list') <= Len(queue_list)
      BY <1>0, <1>8, <2>1, CancelOrdered
  <2>3. pc' = pc
      BY <1>8 DEF cancel_queued, workVars
  <2> QED
      BY <1>5, <2>2, <2>3
<1>9. ASSUME NEW w \in Workers, Wait(w) PROVE Woken
  <2>1. Len(queue_list') = 0
      BY <1>9 DEF Wait, queueVars
  <2> HIDE DEF W1, K1
  <2> QED
      BY <1>3, <2>1
<1>10. ASSUME NEW w \in Workers, SpuriousWakeup(w) PROVE Woken
  <2>1. pc[w] = "wait" /\ pc' = [pc EXCEPT ![w] = "woken"] /\ queue_list' = queue_list
      BY <1>10 DEF SpuriousWakeup, queueVars
  <2>2. w \in W /\ w \notin K /\ K1 = K \cup {w}
      BY <1>0, <1>1, <2>1
  <2> HIDE DEF W1, K1
  <2>3. Cardinality(K1) = Cardinality(K) + 1
      BY <1>3, <2>2, FS_AddElement
  <2> QED
      BY <1>3, <1>4, <2>1, <2>2, <2>3
<1>11. ASSUME NEW w \in Workers, Pop(w) PROVE Woken
  <2>1. queue_list' \in Seq(Handles) /\ Len(queue_list') < Len(queue_list)
      BY <1>0, <1>11, PopOrdered
  <2>2. pc[w] \in {"enter", "woken"} /\ pc' = [pc EXCEPT ![w] = "io"]
      BY <1>11 DEF Pop, HasMutex
  <2>3. W1 = W /\ K1 = K \ {w}
      BY <1>0, <1>1, <2>2
  <2> HIDE DEF W1, K1
  <2>4. Cardinality(K1) >= Cardinality(K) - 1
    <3>1. Cardinality(K \ {w}) = IF w \in K THEN Cardinality(K) - 1 ELSE Cardinality(K)
        BY <1>3, FS_RemoveElement
    <3> QED
        BY <1>3, <2>3, <3>1
  <2>5. Len(queue_list') \in Nat
      BY <2>1
  <2> QED
      BY <1>3, <1>4, <2>1, <2>3, <2>4, <2>5
<1>12. ASSUME NEW w \in Workers, HandleAio(w) \/ dequeue_from_running_list(w) \/ free_aio_opt_n(w)
       PROVE  Woken
  <2>1. /\ pc[w] \in {"io", "called", "free"} /\ queue_list' = queue_list
        /\ \E x \in {"called", "io", "free", "enter"} : pc' = [pc EXCEPT ![w] = x]
      BY <1>12 DEF HandleAio, dequeue_from_running_list, free_aio_opt_n, queueVars
  <2>2. \A v \in Workers : (pc'[v] = "wait" <=> pc[v] = "wait") /\ (pc'[v] = "woken" <=> pc[v] = "woken")
      BY <1>0, <2>1
  <2> QED
      BY <1>3, <1>5, <2>1, <2>2
<1>13. ASSUME NEW c \in Clients, Alloc(c) PROVE Woken
  <2>1. UNCHANGED <<pc, queue_list>>
      BY <1>13 DEF Alloc, queueVars, workVars
  <2> QED
      BY <1>6, <2>1
<1>14. ASSUME NEW id \in ids, cancel_other(posted[id], id) PROVE Woken
  <2>1. UNCHANGED <<pc, queue_list>>
      BY <1>14 DEF cancel_other, queueVars, workVars
  <2> QED
      BY <1>6, <2>1
<1>15. ASSUME UNCHANGED vars PROVE Woken
  <2>1. UNCHANGED <<pc, queue_list>>
      BY <1>15 DEF vars, queueVars, workVars
  <2> QED
      BY <1>6, <2>1
<1> HIDE DEF Woken
<1>16. Woken
    BY <1>7, <1>8, <1>9, <1>10, <1>11, <1>12, <1>13, <1>14, <1>15 DEF Next, Work, cancel_aio
<1> QED
    BY <1>2, <1>16

\* While a worker waits for not_empty_cond_, every listed handle has a woken
\* worker on its way, for any number of workers.
THEOREM WorkersAreWoken == Spec => []WorkersWoken
<1>1. Init => WorkersWoken
    BY DEF Init, WorkersWoken, At
<1>2. IInv /\ WorkersWoken /\ [Next]_vars => WorkersWoken'
    BY NextWoken
<1> QED
    BY <1>1, <1>2, AsynchInvariant, PTL DEF Spec
=============================================================================

---------------------------- MODULE AsynchFileIO ----------------------------
(***************************************************************************)
(* ndk::asynch_file_io (ndk/asynch_file_io.h, ndk/asynch_file_io.cpp):     *)
(* clients post and cancel file requests, worker threads run them and call *)
(* the clients' handlers.                                                  *)
(*                                                                         *)
(* The requests of one handle are a sequence, fd_pool[h]: the node that    *)
(* fd_pool_ points to (the top) followed by its sub-queue header_.         *)
(* queue_list_, which links the tops, is the sequence of their handles.    *)
(* A top that is replaced or removed hands its fd_prio_ to the next top,   *)
(* so the priority belongs to the handle as long as it is listed.          *)
(*                                                                         *)
(* Three mutexes: free_list_mtx_ (Alloc, Free), queue_list_mtx_            *)
(* (start_aio, cancel_aio, a worker's pop) and running_list_mtx_ (Dequeue, *)
(* and inside the first two).  An action is what happens under one hold.   *)
(***************************************************************************)
EXTENDS Integers, SequencesExt

CONSTANTS
    Handles,
    Clients,                \* threads that call start_aio
    Workers,                \* threads that run svc
    Posts,                  \* the requests clients post
    max_request_queue_size,
    PopNum,                 \* svc pops this many requests at a time (5)
    MaxIds                  \* bound: requests ever posted

ASSUME AsynchFileIOAssumption ==
    /\ Posts \subseteq [handle : Handles, fd_prio : Int, io_prio : Int, offset : Nat]
    /\ IsFiniteSet(Workers)
    /\ max_request_queue_size \in Nat
    /\ PopNum \in Nat \ {0}
    /\ MaxIds \in Nat

VARIABLES
    posted,           \* posted[id]: the handle of request id; id_itor_ is its length
    queue_list_size,  \* queue_list_size_
    starting,         \* clients in start_aio that have a node, not yet queued
    fd_pool,          \* fd_pool_ with the sub-queues
    fd_prio,          \* fd_prio_ of the top of each handle's requests
    queue_list,       \* queue_list_
    running_list,     \* ids of the nodes running_list_ points to
    pc,               \* where each worker is in svc
    batch,            \* batch[w]: the requests w popped
    at,               \* at[w]: the place in batch[w] of the request w is at
    callbacks,        \* history: calls of the handler of each request
    canceled,         \* history: requests that cancel_aio took off the queue
    told              \* history: requests for which cancel_aio said AIO_CANCELED
                      \* before their handler was called

ids == 1 .. Len(posted)
queueVars == <<fd_pool, fd_prio, queue_list>>
workVars == <<running_list, pc, batch, at>>
history == <<callbacks, canceled, told>>
vars == <<posted, queue_list_size, starting, queueVars, workVars, history>>

Request == [id : 1 .. MaxIds, io_prio : Int, offset : Nat]
At(where) == {w \in Workers : pc[w] = where}
IdsOf(s) == {s[i].id : i \in DOMAIN s}
Queued == UNION {IdsOf(fd_pool[h]) : h \in Handles}

\* Type correctness; a queue_list_size_ below zero would be a wrapped size_t.
TypeOK ==
    /\ posted \in Seq(Handles)
    /\ queue_list_size \in Nat
    /\ starting \subseteq Clients
    /\ fd_pool \in [Handles -> Seq(Request)]
    /\ fd_prio \in [Handles -> Int]
    /\ queue_list \in Seq(Handles)
    /\ running_list \subseteq ids
    /\ pc \in [Workers -> {"enter", "wait", "woken", "io", "called", "free"}]
    /\ batch \in [Workers -> Seq(Request)]
    /\ at \in [Workers -> Nat]
    /\ callbacks \in [1 .. MaxIds -> Nat]
    /\ canceled \subseteq ids /\ told \subseteq ids

Init ==
    /\ posted = <<>>
    /\ queue_list_size = 0
    /\ starting = {}
    /\ fd_pool = [h \in Handles |-> <<>>]
    /\ fd_prio = [h \in Handles |-> 0]
    /\ queue_list = <<>>
    /\ running_list = {}
    /\ pc = [w \in Workers |-> "enter"]
    /\ batch = [w \in Workers |-> <<>>]
    /\ at = [w \in Workers |-> 0]
    /\ callbacks = [id \in 1 .. MaxIds |-> 0]
    /\ canceled = {}
    /\ told = {}

----------------------------------------------------------------------------
(* start_aio.                                                              *)

\* The first place from n on whose element satisfies Test, else past the end.
Place(s, n, Test(_)) ==
    LET found == {i \in n .. Len(s) : Test(s[i])}
    IN  IF found = {} THEN Len(s) + 1 ELSE Min(found)

\* alloc_aio_opt: a node, unless there are more than max_request_queue_size_.
Alloc(c) ==
    /\ c \notin starting
    /\ Len(posted) + Cardinality(starting) < MaxIds
    /\ queue_list_size <= max_request_queue_size
    /\ queue_list_size' = queue_list_size + 1
    /\ starting' = starting \cup {c}
    /\ UNCHANGED <<posted, queueVars, workVars, history>>

\* The place of handle h in queue_list_: behind those of its priority.
ListPlace(p) == Place(queue_list, 1, LAMBDA g : p > fd_prio[g])

\* Mutant: a new request never becomes the top.
PoolPlace_not_top(s, r) == Place(s, 2, LAMBDA x : r.io_prio > x.io_prio)

\* The place of request r among those of its handle: before the top or the
\* first of the sub-queue only with a higher priority, before a later one also
\* with the same priority and a lower offset.
PoolPlace(s, r) ==
    IF r.io_prio > s[1].io_prio THEN 1
    ELSE IF Len(s) > 1 /\ r.io_prio > s[2].io_prio THEN 2
    ELSE IF Len(s) = 1 THEN 2
    ELSE Place(s, 3, LAMBDA x : \/ r.io_prio > x.io_prio
                                \/ r.io_prio = x.io_prio /\ r.offset < x.offset)

\* Mutant: no signal when the queue is not empty.
signal_first == IF queue_list = <<>> /\ At("wait") # {}
                THEN \E w \in At("wait") : pc' = [pc EXCEPT ![w] = "woken"]
                ELSE UNCHANGED pc

\* Mutant: no signal for the first request of a handle.
signal_joined == IF queue_list # <<>> /\ At("wait") # {}
                 THEN \E w \in At("wait") : pc' = [pc EXCEPT ![w] = "woken"]
                 ELSE UNCHANGED pc

\* not_empty_cond_.signal()
signal == IF At("wait") # {}
          THEN \E w \in At("wait") : pc' = [pc EXCEPT ![w] = "woken"]
          ELSE UNCHANGED pc

start_aio(c, p) ==
    /\ c \in starting
    /\ starting' = starting \ {c}
    /\ posted' = Append(posted, p.handle)
    /\ LET h == p.handle
           r == [id |-> Len(posted) + 1, io_prio |-> p.io_prio, offset |-> p.offset]
       IN  IF fd_pool[h] = <<>>
           THEN /\ fd_pool' = [fd_pool EXCEPT ![h] = <<r>>]
                /\ fd_prio' = [fd_prio EXCEPT ![h] = p.fd_prio]
                /\ queue_list' = InsertAt(queue_list, ListPlace(p.fd_prio), h)
           ELSE /\ fd_pool' = [fd_pool EXCEPT ![h] = InsertAt(@, PoolPlace(@, r), r)]
                /\ UNCHANGED <<fd_prio, queue_list>>
    /\ signal
    /\ UNCHANGED <<queue_list_size, running_list, batch, at, history>>

----------------------------------------------------------------------------
(* cancel_aio.                                                             *)

\* Mutant: the list is not searched.
found_nothing(id) == FALSE

find_in_running_list(id) == id \in running_list

\* The request leaves its queue, and a handle without requests leaves queue_list_.
unlink(h, id) ==
    /\ fd_pool' = [fd_pool EXCEPT ![h] = RemoveFirstMatch(@, LAMBDA x : x.id = id)]
    /\ queue_list' = IF Len(fd_pool[h]) = 1 THEN RemoveFirst(queue_list, h) ELSE queue_list

\* The answer: AIO_NOTCANCELED if the request is running, else AIO_CANCELED
\* (recorded while the handler has not been called yet).
Answer(id) == told' = IF find_in_running_list(id) \/ callbacks[id] > 0 THEN told ELSE told \cup {id}

\* The request is queued: it is taken off and its node freed.
cancel_queued(h, id) ==
    /\ id \in IdsOf(fd_pool[h])
    /\ unlink(h, id)
    /\ queue_list_size' = queue_list_size - 1
    /\ canceled' = canceled \cup {id}
    /\ Answer(id)
    /\ UNCHANGED <<posted, starting, fd_prio, workVars, callbacks>>

\* It is not: the answer depends on the running list only.
cancel_other(h, id) ==
    /\ id \notin IdsOf(fd_pool[h])
    /\ Answer(id)
    /\ UNCHANGED <<posted, queue_list_size, starting, queueVars, workVars, callbacks, canceled>>

cancel_aio(id) == cancel_queued(posted[id], id) \/ cancel_other(posted[id], id)

----------------------------------------------------------------------------
(* svc.                                                                    *)

HasMutex(w) == pc[w] \in {"enter", "woken"}

Wait(w) ==
    /\ HasMutex(w)
    /\ queue_list = <<>>
    /\ pc' = [pc EXCEPT ![w] = "wait"]
    /\ UNCHANGED <<posted, queue_list_size, starting, queueVars, running_list, batch, at, history>>

SpuriousWakeup(w) ==
    /\ pc[w] = "wait"
    /\ pc' = [pc EXCEPT ![w] = "woken"]
    /\ UNCHANGED <<posted, queue_list_size, starting, queueVars, running_list, batch, at, history>>

\* The requests of the first n handles of the queue.
FirstRequests(n) == FlattenSeq([i \in 1 .. n |-> fd_pool[queue_list[i]]])

\* Mutant: the sub-queues are left out.
pop_tops == [i \in 1 .. Len(queue_list) |-> fd_pool[queue_list[i]][1]]

\* Handles pop_some_request takes, with all their requests: as many as it
\* needs for PopNum requests, or all.
Popped == LET enough == {n \in 1 .. Len(queue_list) : Len(FirstRequests(n)) >= PopNum}
          IN  IF enough = {} THEN Len(queue_list) ELSE Min(enough)

pop_some_request == FirstRequests(Popped)

\* Pop and enqueue_to_running_list, in one hold of queue_list_mtx_.
Pop(w) ==
    /\ HasMutex(w)
    /\ queue_list # <<>>
    /\ batch' = [batch EXCEPT ![w] = pop_some_request]
    /\ at' = [at EXCEPT ![w] = 1]
    /\ running_list' = running_list \cup IdsOf(pop_some_request)
    /\ fd_pool' = [h \in Handles |-> IF \E i \in 1 .. Popped : queue_list[i] = h
                                     THEN <<>> ELSE fd_pool[h]]
    /\ queue_list' = SubSeq(queue_list, Popped + 1, Len(queue_list))
    /\ pc' = [pc EXCEPT ![w] = "io"]
    /\ UNCHANGED <<posted, queue_list_size, starting, fd_prio, history>>

\* pread or pwrite, and the callback, whether the I/O succeeded or not.  No
\* mutex is held: handlers may post and cancel.
HandleAio(w) ==
    /\ pc[w] = "io"
    /\ pc' = [pc EXCEPT ![w] = "called"]
    /\ callbacks' = [callbacks EXCEPT ![batch[w][at[w]].id] = @ + 1]
    /\ UNCHANGED <<posted, queue_list_size, starting, queueVars, running_list, batch, at, canceled, told>>

dequeue_from_running_list(w) ==
    /\ pc[w] = "called"
    /\ running_list' = running_list \ {batch[w][at[w]].id}
    /\ IF at[w] < Len(batch[w])
       THEN pc' = [pc EXCEPT ![w] = "io"] /\ at' = [at EXCEPT ![w] = @ + 1]
       ELSE pc' = [pc EXCEPT ![w] = "free"] /\ UNCHANGED at
    /\ UNCHANGED <<posted, queue_list_size, starting, queueVars, batch, history>>

\* Mutant: only one of the nodes is counted.
free_aio_opt_one(w) ==
    /\ pc[w] = "free"
    /\ queue_list_size' = queue_list_size - 1
    /\ pc' = [pc EXCEPT ![w] = "enter"]
    /\ batch' = [batch EXCEPT ![w] = <<>>]
    /\ at' = [at EXCEPT ![w] = 0]
    /\ UNCHANGED <<posted, starting, queueVars, running_list, history>>

\* free_aio_opt_n, and back to the top of svc.
free_aio_opt_n(w) ==
    /\ pc[w] = "free"
    /\ queue_list_size' = queue_list_size - Len(batch[w])
    /\ pc' = [pc EXCEPT ![w] = "enter"]
    /\ batch' = [batch EXCEPT ![w] = <<>>]
    /\ at' = [at EXCEPT ![w] = 0]
    /\ UNCHANGED <<posted, starting, queueVars, running_list, history>>

Work(w) == Wait(w) \/ Pop(w) \/ HandleAio(w) \/ dequeue_from_running_list(w) \/ free_aio_opt_n(w)

Next ==
    \/ \E c \in Clients :
          \/ Alloc(c)
          \/ \E p \in Posts : start_aio(c, p)
    \/ \E id \in ids : cancel_aio(id)
    \/ \E w \in Workers : Work(w) \/ SpuriousWakeup(w)

Spec == Init /\ [][Next]_vars

\* A worker that is not waiting for the condition goes on: the mutexes are
\* held for bounded time, and I/O and handlers return.
FairSpec == Spec /\ \A w \in Workers : WF_vars(Work(w))

----------------------------------------------------------------------------
(* Properties.                                                             *)

\* Requests worker w has popped and not yet called the handler of.
Pending(w) == {batch[w][i].id : i \in {j \in DOMAIN batch[w] :
                   j > at[w] \/ (j = at[w] /\ pc[w] = "io")}}

\* No request is lost or run twice: each one posted is queued, or popped by
\* one worker, or its handler was called once, or it was cancelled.
EachOnce ==
    \A id \in ids :
        callbacks[id]
        + (IF id \in canceled THEN 1 ELSE 0)
        + Cardinality({h \in Handles : id \in IdsOf(fd_pool[h])})
        + Cardinality({w \in Workers : id \in Pending(w)}) = 1

\* Once cancel_aio has answered AIO_CANCELED the handler is not called any
\* more, so that the caller may destroy handler and buffer: no request is ever
\* between the queue and the running list when queue_list_mtx_ is free.
CancelIsFinal == [][\A id \in told : callbacks'[id] = callbacks[id]]_vars

\* The nodes the workers have, if b are their batches.
InBatches(b) == LET nodes == [w \in Workers |-> Len(b[w])]
                IN  MapThenSumSet(LAMBDA w : nodes[w], Workers)

\* queue_list_size_ counts the nodes in use, and lets in one more than its
\* maximum.
SizeExact ==
    /\ queue_list_size = Cardinality(starting) + Cardinality(Queued) + InBatches(batch)
    /\ queue_list_size <= max_request_queue_size + 1

\* queue_list_ holds the handles that have requests, once each, by falling
\* fd_prio_; the requests of a handle are ordered by falling io_prio_.
Ordered ==
    /\ ToSet(queue_list) = {h \in Handles : fd_pool[h] # <<>>}
    /\ \A i, j \in DOMAIN queue_list :
          i < j => queue_list[i] # queue_list[j] /\ fd_prio[queue_list[i]] >= fd_prio[queue_list[j]]
    /\ \A h \in Handles : \A i, j \in DOMAIN fd_pool[h] :
          i < j => fd_pool[h][i].io_prio >= fd_pool[h][j].io_prio

\* The queue and its books: no request is lost, run twice, uncounted or out of
\* order, whatever was posted, popped and cancelled meanwhile.
QueueSound == EachOnce /\ SizeExact /\ Ordered

\* No wakeup is lost: while a worker waits, every listed handle has a woken
\* worker on its way.
WorkersWoken == At("wait") # {} => Len(queue_list) <= Cardinality(At("woken"))

\* Every request is run, or cancelled.  (With MaxIds requests this is the same
\* as: each one posted is served eventually.)
AllServed == []<>(\A id \in ids : callbacks[id] > 0 \/ id \in canceled)
=============================================================================

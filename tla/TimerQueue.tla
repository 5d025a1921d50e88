----------------------------- MODULE TimerQueue -----------------------------
(***************************************************************************)
(* ndk::timer_queue (ndk/timer_queue.h, ndk/timer_queue.cpp), the part for *)
(* general timers: a binary heap of nodes beside timer_ids_, which maps a  *)
(* timer id to the node's slot, and min_timer_id_, from which the search   *)
(* for a free id starts.  crontab_timers_ stays empty here.                *)
(*                                                                         *)
(* The reactor calls every method under its token, and handle_timeout runs *)
(* inside expire, so a handler may schedule and cancel timers between the  *)
(* dispatch of a timer (Expire) and the handling of its result (Returns).  *)
(*                                                                         *)
(* Slots and ids count from 0 as in the code.  An assert that fails ends   *)
(* the program: the makefile's default build keeps asserts.                *)
(***************************************************************************)
EXTENDS Integers, FiniteSets

CONSTANTS
    max_size,       \* max_size_
    PreAlloc,       \* pre_alloc_num
    Handlers,       \* event handlers
    Delays,         \* delay times offered to schedule
    Intervals,      \* interval times; 0 is a one-shot timer
    MaxTime,        \* bound: the latest time of day, and of a first expiry
    MaxTimers,      \* bound: timers the callers keep scheduled at a time
    CancelsOwn,     \* whether a handler that cancelled its own periodic timer
                    \* in the upcall may return -1
    None

ASSUME TimerQueueAssumption ==
    /\ max_size \in Nat /\ PreAlloc \in Nat
    /\ 3 <= PreAlloc /\ PreAlloc <= max_size
    /\ Delays \subseteq Nat /\ Intervals \subseteq Nat
    /\ MaxTime \in Nat /\ MaxTimers \in 1 .. max_size
    /\ CancelsOwn \in BOOLEAN

VARIABLES
    timer_heap,       \* timer_heap_[0 .. curr_size_ - 1]
    timer_heap_size,  \* timer_heap_size_ and timer_ids_size_
    timer_ids,        \* timer_ids_[0 .. timer_ids_size_ - 1]
    min_timer_id,     \* min_timer_id_
    now,              \* time of day
    upcall,           \* the dispatched_node of a running expire, None if none:
                      \* mine says that its periodic timer is still scheduled
    aborted           \* an assert failed

queueVars == <<timer_heap, timer_heap_size, timer_ids, min_timer_id>>
vars == <<queueVars, now, upcall, aborted>>

\* The queue as a value, for methods that change it in several steps.
Queue == [heap |-> timer_heap, size |-> timer_heap_size, ids |-> timer_ids, min |-> min_timer_id]
Becomes(q) ==
    \E v \in {q} :
        /\ timer_heap' = v.heap
        /\ timer_heap_size' = v.size
        /\ timer_ids' = v.ids
        /\ min_timer_id' = v.min

curr_size(q) == Cardinality(DOMAIN q.heap)
Parent(slot) == IF slot = 0 THEN 0 ELSE (slot - 1) \div 2
LeftChild(slot) == slot + slot + 1
Lesser(a, b) == IF a < b THEN a ELSE b

Node == [id : Nat, handler : Handlers, time : Nat, interval : Nat]

\* Type correctness: slots and ids stay inside their arrays.
TypeOK ==
    /\ \E n \in 0 .. timer_heap_size : DOMAIN timer_heap = 0 .. (n - 1)
    /\ \A s \in DOMAIN timer_heap : timer_heap[s] \in Node
    /\ DOMAIN timer_ids = 0 .. (timer_heap_size - 1)
    /\ \A id \in DOMAIN timer_ids : timer_ids[id] \in -1 .. (timer_heap_size - 1)
    /\ timer_heap_size \in PreAlloc .. max_size
    /\ min_timer_id \in 0 .. timer_heap_size
    /\ now \in 0 .. MaxTime
    /\ aborted \in BOOLEAN

Init ==
    /\ timer_heap = <<>>
    /\ timer_heap_size = PreAlloc
    /\ timer_ids = [i \in 0 .. (PreAlloc - 1) |-> -1]
    /\ min_timer_id = 0
    /\ now = 0
    /\ upcall = None
    /\ aborted = FALSE

----------------------------------------------------------------------------
(* Ids.                                                                    *)

\* The ids alloc_timerid finds free.
FreeIds(q) == {i \in q.min .. (q.size - 1) : q.ids[i] = -1}

\* The first of them; the search then starts one place further on.
alloc_timerid(q) == CHOOSE i \in FreeIds(q) : \A j \in FreeIds(q) : i <= j

\* Mutant: the start of the search is not moved back.
release_timerid_keeps_min(q, id) == [q EXCEPT !.ids[id] = -1]

release_timerid(q, id) == [q EXCEPT !.ids[id] = -1, !.min = Lesser(id, @)]

----------------------------------------------------------------------------
(* The heap.                                                               *)

\* The array with the node in the slot, which may be the one after its last.
Put(heap, slot, node) ==
    [s \in DOMAIN heap \cup {slot} |-> IF s = slot THEN node ELSE heap[s]]

\* Mutant: the parallel array is not updated.
copy_heap_only(q, slot, node) ==
    [q EXCEPT !.heap = Put(@, slot, node), !.ids[node.id] = IF @ = -1 THEN slot ELSE @]

copy(q, slot, node) == [q EXCEPT !.heap = Put(@, slot, node), !.ids[node.id] = slot]

\* The node moves up from the slot, past the parents that are later; each of
\* them is copied down to where the node came from.
reheap_up(q, node, slot) ==
    LET up[s \in 0 .. slot] ==
          IF s > 0 /\ node.time < q.heap[Parent(s)].time
          THEN copy(up[Parent(s)], s, q.heap[Parent(s)])
          ELSE copy(q, s, node)
    IN  up[slot]

\* The node moves down from the slot, past the earlier of two children as long
\* as that is earlier than the node.
reheap_down(q, node, slot) ==
    LET n == curr_size(q)
        Child(s) == LET left == LeftChild(s)
                    IN  IF left + 1 < n /\ q.heap[left + 1].time < q.heap[left].time
                        THEN left + 1 ELSE left
        down[s \in 0 .. (n - 1)] ==
          IF LeftChild(s) < n /\ q.heap[Child(s)].time < node.time
          THEN copy(down[Child(s)], s, q.heap[Child(s)])
          ELSE copy(q, s, node)
    IN  down[slot]

\* Both arrays get the new size; of timer_ids_ the first curr_size_ survive.
grow_heap(q) ==
    LET n == curr_size(q)
        new_size == Lesser(n * 2, max_size)
    IN  [q EXCEPT !.size = new_size,
                  !.ids = [i \in 0 .. (new_size - 1) |-> IF i < n THEN q.ids[i] ELSE -1],
                  !.min = n]

insert(q, node) ==
    LET g == IF curr_size(q) + 1 >= q.size THEN grow_heap(q) ELSE q
    IN  reheap_up(g, node, curr_size(g))

\* Mutant: the node that fills the gap only moves down.
remove_down_only(q, slot) ==
    LET last == curr_size(q) - 1
        rest == [q EXCEPT !.heap = [s \in 0 .. (last - 1) |-> q.heap[s]]]
    IN  IF slot >= last THEN rest
        ELSE reheap_down(copy(rest, slot, q.heap[last]), q.heap[last], slot)

\* Mutant: the node that fills the gap stays there.
remove_no_reheap(q, slot) ==
    LET last == curr_size(q) - 1
        rest == [q EXCEPT !.heap = [s \in 0 .. (last - 1) |-> q.heap[s]]]
    IN  IF slot >= last THEN rest ELSE copy(rest, slot, q.heap[last])

\* The last node takes the place of the one removed and moves to where it
\* belongs.  The id of the removed node is still taken.
remove(q, slot) ==
    LET last == curr_size(q) - 1
        moved == q.heap[last]
        rest == [q EXCEPT !.heap = [s \in 0 .. (last - 1) |-> q.heap[s]]]
        filled == copy(rest, slot, moved)
    IN  IF slot >= last THEN rest
        ELSE IF moved.time >= filled.heap[Parent(slot)].time
             THEN reheap_down(filled, moved, slot)
             ELSE reheap_up(filled, moved, slot)

\* remove and free_node.
discard(q, slot) == release_timerid(remove(q, slot), q.heap[slot].id)

\* All nodes of a handler, the one in the first slot each time.
discard_all(q, h) ==
    LET Mine(r) == {s \in DOMAIN r.heap : r.heap[s].handler = h}
        First(r) == CHOOSE s \in Mine(r) : \A t \in Mine(r) : s <= t
        after[k \in 0 .. Cardinality(Mine(q))] ==
          IF k = 0 THEN q ELSE discard(after[k - 1], First(after[k - 1]))
    IN  after[Cardinality(Mine(q))]

----------------------------------------------------------------------------
(* Operations.                                                             *)

Live == {timer_heap[s].id : s \in DOMAIN timer_heap}

Abort == aborted' = TRUE /\ UNCHANGED <<queueVars, now, upcall>>

\* The dispatched timer is no longer scheduled once its id is cancelled.
Disown(S) ==
    upcall' = IF upcall # None /\ upcall.id \in S THEN [upcall EXCEPT !.mine = FALSE] ELSE upcall

schedule(h, delay, interval) ==
    /\ Cardinality(Live) < MaxTimers
    /\ now + delay <= MaxTime
    /\ IF FreeIds(Queue) = {} THEN Abort
       ELSE LET id == alloc_timerid(Queue)
                node == [id |-> id, handler |-> h, time |-> now + delay, interval |-> interval]
            IN  /\ Becomes(insert([Queue EXCEPT !.min = @ + 1], node))
                /\ UNCHANGED <<now, upcall, aborted>>

\* cancel(timer_id): the asserts on the slot, then the removal.
CancelSlot(id) ==
    LET slot == timer_ids[id]
    IN  IF slot < 0 \/ slot \notin DOMAIN timer_heap \/ timer_heap[slot].id # id
        THEN Abort
        ELSE /\ Becomes(discard(Queue, slot))
             /\ Disown({id})
             /\ UNCHANGED <<now, aborted>>

\* The first assert makes "the id is scheduled" a duty of the caller.
cancel_id(id) == id \in Live /\ CancelSlot(id)

\* cancel(eh): all timers of the handler.
cancel_handler(h) ==
    /\ \E s \in DOMAIN timer_heap : timer_heap[s].handler = h
    /\ Becomes(discard_all(Queue, h))
    /\ Disown({timer_heap[s].id : s \in {s \in DOMAIN timer_heap : timer_heap[s].handler = h}})
    /\ UNCHANGED <<now, aborted>>

reset_interval(id, interval) ==
    /\ id \in Live
    /\ timer_ids[id] >= 0
    /\ timer_heap' = [timer_heap EXCEPT ![timer_ids[id]].interval = interval]
    /\ UNCHANGED <<timer_heap_size, timer_ids, min_timer_id, now, upcall, aborted>>

\* The next time of a periodic timer: the first of its times after now.
NextTime(node) ==
    LET late == now - node.time
    IN  node.time + (late \div node.interval + 1) * node.interval

\* Mutant: a timer is due only after its time.
is_due_late(node) == node.time < now

is_due(node) == node.time <= now

\* dispatch_timer: the earliest timer, if it is due, leaves the heap; a
\* periodic one goes back in, another one is freed.  handle_timeout is called.
Expire ==
    /\ upcall = None
    /\ curr_size(Queue) > 0
    /\ is_due(timer_heap[0])
    /\ LET node == timer_heap[0]
           rest == remove(Queue, 0)
           periodic == node.interval > 0
       IN  /\ upcall' = [id |-> node.id, periodic |-> periodic, mine |-> periodic]
           /\ Becomes(IF periodic
                      THEN insert(rest, [node EXCEPT !.time = NextTime(node)])
                      ELSE release_timerid(rest, node.id))
    /\ UNCHANGED <<now, aborted>>

\* handle_timeout returns: 0 or more keeps a periodic timer, -1 cancels the id
\* that was dispatched (and calls handle_close, for a one-shot timer only that).
ReturnsOk ==
    /\ upcall # None
    /\ upcall' = None
    /\ UNCHANGED <<queueVars, now, aborted>>

ReturnsFailure ==
    /\ upcall # None
    /\ CancelsOwn \/ upcall.mine \/ ~upcall.periodic
    /\ IF ~upcall.periodic THEN ReturnsOk
       ELSE LET slot == timer_ids[upcall.id]
            IN  IF slot < 0 \/ slot \notin DOMAIN timer_heap \/ timer_heap[slot].id # upcall.id
                THEN Abort
                ELSE /\ Becomes(discard(Queue, slot))
                     /\ upcall' = None
                     /\ UNCHANGED <<now, aborted>>

Tick ==
    /\ now < MaxTime
    /\ now' = now + 1
    /\ UNCHANGED <<queueVars, upcall, aborted>>

Next ==
    /\ ~aborted
    /\ \/ \E h \in Handlers, d \in Delays, i \in Intervals : schedule(h, d, i)
       \/ \E id \in Live : cancel_id(id)
       \/ \E h \in Handlers : cancel_handler(h)
       \/ \E id \in Live, i \in Intervals : reset_interval(id, i)
       \/ Expire
       \/ ReturnsOk
       \/ ReturnsFailure
       \/ Tick

Spec == Init /\ [][Next]_vars

\* Every handle_events calls expire, handlers return, and time passes.
FairSpec == Spec /\ WF_vars(Expire) /\ WF_vars(ReturnsOk \/ ReturnsFailure) /\ WF_vars(Tick)

----------------------------------------------------------------------------
(* Properties.                                                             *)

\* verify_heap: no node is earlier than its parent.
HeapOrdered == \A s \in DOMAIN timer_heap : timer_heap[Parent(s)].time <= timer_heap[s].time

\* timer_queue.h, schedule: the timer_id "uniquely identifies" the timer and
\* "can be used to cancel the timer with the cancel() call": timer_ids_ leads
\* from the id of every scheduled timer to its node.
Cancellable == \A s \in DOMAIN timer_heap : timer_ids[timer_heap[s].id] = s

\* No id leaks: an id of no scheduled timer is free, at or after the place
\* where the search for a free id starts.
IdsReusable == \A id \in DOMAIN timer_ids \ Live : timer_ids[id] = -1 /\ id >= min_timer_id

\* No assert fails for callers that cancel only what is scheduled: a free id
\* is always found (alloc_timerid) and the slot of an id is its node's (cancel).
NoAbort == ~aborted

\* Together: after any calls, from inside upcalls too, every timer is where its
\* id says, every other id can be had again, and no assert fails.
IdsSound == Cancellable /\ IdsReusable /\ NoAbort

\* A handler's -1 ends the timer that was dispatched and no other
\* (event_handler.h: "handle_close ... will be called if return -1").
ReturnEndsOwnTimer ==
    [][(upcall # None /\ upcall' = None) =>
          \A s \in DOMAIN timer_heap :
              timer_heap[s] \in {timer_heap'[k] : k \in DOMAIN timer_heap'}
              \/ (upcall.mine /\ timer_heap[s].id = upcall.id)]_vars

\* The nodes of a queue, and the timers they stand for, each under its id.
NodesOf(q) == {q.heap[s] : s \in DOMAIN q.heap}
View(nodes) ==
    [id \in {y.id : y \in nodes} |->
        LET y == CHOOSE z \in nodes : z.id = id
        IN  [handler |-> y.handler, time |-> y.time, interval |-> y.interval]]

\* The heap with its ids implements the set of timers: what fires is always an
\* earliest timer that is due, once per expiry, and never one that was cancelled.
Timers == View(NodesOf(Queue))
T == INSTANCE TimerSet WITH timers <- Timers
ImplementsTimerSet == T!Spec

\* A timer that is due fires or is cancelled, although expire dispatches only
\* one timer per call and periodic timers keep going back into the heap.
DueTimersFire ==
    \A id \in 0 .. (MaxTimers - 1) :
        (id \in Live /\ timer_heap[timer_ids[id]].time <= now)
            ~> (id \notin Live \/ timer_heap[timer_ids[id]].time > now)
=============================================================================

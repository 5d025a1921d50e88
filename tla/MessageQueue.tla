---------------------------- MODULE MessageQueue ----------------------------
(***************************************************************************)
(* ndk::message_queue (ndk/message_queue.h, ndk/message_queue.cpp) as its  *)
(* threads see it: the blocking protocol around the list.                  *)
(*                                                                         *)
(* MessageList models the list itself; what the blocking protocol reads of *)
(* it is its length, mb_count_ (MessageList!WellLinked: tail_ is 0 exactly *)
(* when mb_count_ is).  Every method runs under queue_mutex_, given up     *)
(* only inside condition::wait, so a call is a Call followed by one Resume *)
(* for each time the thread gets the mutex: on entry and after each wait.  *)
(***************************************************************************)
EXTENDS Integers, FiniteSets

CONSTANTS
    Producers,      \* threads that enqueue
    Consumers,      \* threads that dequeue
    high_water_mark,
    MaxList,        \* bound: blocks in one enqueued list
    MaxNumber,      \* bound: the number of one dequeue_*_n
    DequeueAll      \* whether dequeue_*_n is called with number = -1

ASSUME MessageQueueAssumption ==
    /\ Producers \cap Consumers = {}
    /\ IsFiniteSet(Producers)
    /\ IsFiniteSet(Consumers)
    /\ high_water_mark \in Nat \ {0}
    /\ MaxList \in Nat \ {0}
    /\ MaxNumber \in Nat \ {0}
    /\ DequeueAll \in BOOLEAN

QueueThreads == Producers \cup Consumers

\* timeout: a null pointer, a nonzero time, time_value::zero
Timeouts == {"null", "timed", "zero"}

\* The sizes a thread may ask for.  A list has at least one block (a null
\* list returns -1 at once), and number = 0 returns 0 before the mutex.
Sizes(t) == IF t \in Producers
            THEN 1 .. MaxList
            ELSE (1 .. MaxNumber) \cup (IF DequeueAll THEN {-1} ELSE {})

VARIABLES
    mb_count,       \* mb_count_
    pc,             \* pc[t]: "idle", "enter" (at the mutex), "wait", "woken"
    size,           \* size[t]: blocks t's call offers or asks for
    timeout,        \* timeout[t]: of t's call
    lists,          \* history: a list of more than one block has gone in
    grabs           \* history: a dequeue of more than one block has come out

history == <<lists, grabs>>
queue_vars == <<mb_count, pc, size, timeout, history>>

At(S, where) == {t \in S : pc[t] = where}

\* Type correctness.  A take larger than the queue would show as a negative
\* mb_count (in the code, a wrapped size_t).
QueueTypeOK ==
    /\ mb_count \in Nat
    /\ pc \in [QueueThreads -> {"idle", "enter", "wait", "woken"}]
    /\ size \in [QueueThreads -> Int]
    /\ \A t \in QueueThreads : size[t] \in Sizes(t)
    /\ timeout \in [QueueThreads -> Timeouts]
    /\ lists \in BOOLEAN /\ grabs \in BOOLEAN

QueueInit ==
    /\ mb_count = 0
    /\ pc = [t \in QueueThreads |-> "idle"]
    /\ size = [t \in QueueThreads |-> 1]
    /\ timeout = [t \in QueueThreads |-> "null"]
    /\ lists = FALSE /\ grabs = FALSE

----------------------------------------------------------------------------
\* Mutant: the last block is not seen.
is_empty_i_early == mb_count <= 1

is_empty_i == mb_count = 0

\* Mutant: one block more than the mark is let in.
is_full_i_late == mb_count > high_water_mark

is_full_i == mb_count >= high_water_mark

\* condition::signal on the condition the threads of S wait for, by t on its
\* way out: wakes one of the waiters if there is any.
signal(S, t) ==
    \/ /\ At(S, "wait") = {}
       /\ pc' = [pc EXCEPT ![t] = "idle"]
    \/ \E u \in At(S, "wait") : pc' = [pc EXCEPT ![t] = "idle", ![u] = "woken"]

\* The arguments of a call go with its frame.
Forget(t) ==
    /\ size' = [size EXCEPT ![t] = 1]
    /\ timeout' = [timeout EXCEPT ![t] = "null"]

\* Return -1.
Fail(t) ==
    /\ pc' = [pc EXCEPT ![t] = "idle"]
    /\ Forget(t)
    /\ UNCHANGED <<mb_count, history>>

\* The thread's call gets as far as the mutex.
Call(t, n, to) ==
    /\ pc[t] = "idle"
    /\ pc' = [pc EXCEPT ![t] = "enter"]
    /\ size' = [size EXCEPT ![t] = n]
    /\ timeout' = [timeout EXCEPT ![t] = to]
    /\ UNCHANGED <<mb_count, history>>

\* Holding the mutex: on entry, or back from a wait that returned 0.
HasMutex(t) == pc[t] \in {"enter", "woken"}

\* The body of the wait_*_cond loops: a zero timeout fails the call, any
\* other waits (again).
WaitOrFail(t) ==
    \/ timeout[t] = "zero" /\ Fail(t)
    \/ /\ timeout[t] # "zero"
       /\ pc' = [pc EXCEPT ![t] = "wait"]
       /\ UNCHANGED <<mb_count, size, timeout, history>>

wait_not_full_cond(t)  == HasMutex(t) /\ is_full_i /\ WaitOrFail(t)
wait_not_empty_cond(t) == HasMutex(t) /\ is_empty_i /\ WaitOrFail(t)

\* Mutant: the signal is sent only when the queue was empty.
enqueue_signals_first(t) ==
    /\ HasMutex(t)
    /\ ~is_full_i
    /\ mb_count' = mb_count + size[t]
    /\ lists' = IF size[t] > 1 THEN TRUE ELSE lists
    /\ UNCHANGED grabs
    /\ IF is_empty_i THEN signal(Consumers, t) ELSE pc' = [pc EXCEPT ![t] = "idle"]
    /\ Forget(t)

\* enqueue_tail and enqueue_head past wait_not_full_cond: the whole list goes
\* in, and one consumer is signalled.
enqueue(t) ==
    /\ HasMutex(t)
    /\ ~is_full_i
    /\ mb_count' = mb_count + size[t]
    /\ lists' = IF size[t] > 1 THEN TRUE ELSE lists
    /\ UNCHANGED grabs
    /\ signal(Consumers, t)
    /\ Forget(t)

\* Blocks a dequeue of number n takes: all for -1, at most n otherwise.
Takes(n) == IF n = -1 \/ n > mb_count THEN mb_count ELSE n

\* Mutant: the signal is sent only when the queue was full.
dequeue_signals_full(t) ==
    /\ HasMutex(t)
    /\ ~is_empty_i
    /\ mb_count' = mb_count - Takes(size[t])
    /\ grabs' = IF size[t] # 1 THEN TRUE ELSE grabs
    /\ UNCHANGED lists
    /\ IF is_full_i THEN signal(Producers, t) ELSE pc' = [pc EXCEPT ![t] = "idle"]
    /\ Forget(t)

\* dequeue_head, dequeue_tail and their _n forms past wait_not_empty_cond: one
\* producer is signalled, whatever the number of blocks taken.
dequeue(t) ==
    /\ HasMutex(t)
    /\ ~is_empty_i
    /\ mb_count' = mb_count - Takes(size[t])
    /\ grabs' = IF size[t] # 1 THEN TRUE ELSE grabs
    /\ UNCHANGED lists
    /\ signal(Producers, t)
    /\ Forget(t)

\* pthread_cond_timedwait expires for a thread that was not signalled.
TimesOut(t) ==
    /\ pc[t] = "wait"
    /\ timeout[t] = "timed"
    /\ Fail(t)

\* pthread_cond_wait may return without a signal.
SpuriousWakeup(t) ==
    /\ pc[t] = "wait"
    /\ pc' = [pc EXCEPT ![t] = "woken"]
    /\ UNCHANGED <<mb_count, size, timeout, history>>

Resume(t) ==
    \/ t \in Producers /\ (wait_not_full_cond(t) \/ enqueue(t))
    \/ t \in Consumers /\ (wait_not_empty_cond(t) \/ dequeue(t))

QueueNext ==
    \E t \in QueueThreads :
        \/ \E n \in Sizes(t), to \in Timeouts : Call(t, n, to)
        \/ Resume(t)
        \/ TimesOut(t)
        \/ SpuriousWakeup(t)

QueueSpec == QueueInit /\ [][QueueNext]_queue_vars

\* The mutex is free between any two steps, so a thread that wants it and
\* keeps wanting it gets it.
FairQueueSpec == QueueSpec /\ \A t \in QueueThreads : WF_queue_vars(Resume(t))

----------------------------------------------------------------------------
(* Properties.                                                             *)

\* The bound the water mark really gives: a list is let in whole below the
\* mark, so the queue passes it by at most one list less one block.
BoundedByMark == mb_count <= high_water_mark + MaxList - 1

\* No wakeup of a consumer is lost: while one waits, every block has a woken
\* consumer on its way to it.  enqueue signals once for a whole list, so this
\* is so only until a list of several blocks goes in.
ConsumersWoken ==
    (~lists /\ At(Consumers, "wait") # {}) =>
        mb_count <= Cardinality(At(Consumers, "woken"))

\* The same for producers and free places, until a dequeue of several blocks,
\* which signals once too.
ProducersWoken ==
    (~grabs /\ At(Producers, "wait") # {}) =>
        high_water_mark - mb_count <= Cardinality(At(Producers, "woken"))

\* A blocked producer and a blocked consumer never face each other with
\* nobody on the way to the mutex: everyone waiting on everyone.  (Until a
\* list of several blocks goes in, whatever the dequeues take.)
NoStandoff ==
    (~lists /\ At(QueueThreads, "enter") \cup At(QueueThreads, "woken") = {})
        => (At(Producers, "wait") = {} \/ At(Consumers, "wait") = {})

\* A consumer does not sleep for ever beside blocks nobody takes: it stops
\* waiting or the queue empties or dequeues go on for ever.
QueueDrains ==
    \A c \in Consumers :
        \/ []<>(pc[c] # "wait" \/ mb_count = 0 \/ lists)
        \/ []<><<\E t \in Consumers : dequeue(t)>>_queue_vars
=============================================================================

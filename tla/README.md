# A TLA+ model of cute-ndk

cute-ndk is a C++ toolkit for network servers on Unix: a reactor, timers, a
thread library, message queues, an object cache, asynchronous file I/O, loggers
and a few programs built on them, of which the file server fcache is the
largest.  This directory holds TLA+ modules for its parts, the TLC
configurations that check them, and TLAPS proofs of the results that hold for
any number of threads, objects and requests.

`PROJECT.json` is the index: components, runs, the line ranges each definition
models (`map`), hazards, findings and theorems.

    tlc -workers 2 -config MCToken.cfg Token        # a run
    tlapm SynchProofs.tla                           # the proofs of a module

## 1. The system

### Parts, state, operations

| part | state | operations | what makes it correct |
|---|---|---|---|
| `token` (`ndk/token.*`) | owner, nesting level, queues of sleeping writers and readers | `acquire`, `acquire_read`, `try_acquire`, `release` | one holder; recursive; FIFO (or LIFO) hand-over; a failed wait leaves no trace |
| `reactor_token`, `token_guard` | whether this scope owns the token | `acquire`, `acquire_quietly`, `sleep_hook`, destructor | releases exactly what it acquired; a sleeping writer wakes the leader |
| `unix_reactor_notify` | pipe, queue of tuples | `notify`, `handle_input` | a tuple for every byte |
| reactors (`unix_`, `epoll_`, `select_reactor`) | handler repository, masks, suspension, interest set or lists, events left over | `register_handler`, `remove_handler`, `suspend_handler`, `resume_handler`, `handle_events`, `close` | repository and demultiplexer agree; no dead handler is called; no event is lost |
| `acceptor`, `connector`, `svc_handler` | pending connects with a timer each, the listening handle | `open`, `connect`, `handle_input`, `handle_output`, `handle_timeout`, `close` | completion, failure and timeout exclude each other; no descriptor leaks |
| `message_queue` | doubly linked list, counter, water mark, two conditions | `enqueue_head/tail`, `dequeue_head/tail[_n]` with timeouts | sound links, order, no lost wakeup, bounded length |
| `timer_queue`, general | binary heap, id table, search start | `schedule`, `cancel` (id, handler), `reset_interval`, `expire`, `calculate_timeout` | earliest due timer fires, ids stay unique and valid, handlers may re-enter |
| `timer_queue`, crontab | list of entries, the minute timer | `crontab`, `cancel`, `reset_crontab`, `handle_timeout` | every minute calls exactly the entries that mean it |
| `cache_manager`, `cache_deque` | map of hot objects, LRU list, pending list, water mark, reference counts | `get`, `put`, `release`, `flush`, `flush_all`, `dump` | a referenced object lives, the mark counts exactly what exists |
| `heap`, `cache_heap` | a second binary heap; each item knows its slot | `insert`, `remove`, `adjust` | heap order, slots exact |
| `asynch_file_io` | queues per handle, list of handles by priority, running list, node count | `start_aio`, `cancel_aio`, `svc` | each request runs once or is cancelled, a cancelled one never calls back |
| `mem_pool`, `buffer_manager` | slabs of chunks; free blocks | `malloc`, `free`, `flush` | memory has one owner and none is lost |
| `task_base`, `thread` | thread count | `activate`, `wait`, `cleanup` | one crew at a time |
| `recursive_thread_mutex` | owner and level beside a pthread mutex | `acquire`, `try_acquire`, `release` | owner and level exact |
| `log_manager`, `logger`, `log_to_file` | loggers, outputs, configuration; the file and its older ones | `log`, `get_logger`, reload, roll-over | no deleted output is written to; the newest records are kept |
| `iniparser`, `dictionary` | slots of keys and values | load, save, get, set, unset | the slots are a map; what is saved loads |
| `ndk.cpp`, `sock_stream` | the place in the caller's buffer | `recv`, `send`, `read`, `write`, `_n` and vector forms | bytes in step, timed calls return |
| `time_value` | seconds and microseconds | arithmetic, comparison | exact |
| `apps/fcache`, push side | clients, jobs, transfers, buffers, `g_payload` | requests, dispatch rounds, aio completions, hang-ups | right bytes in order; what three threads share is freed once and by the last |
| `apps/fcache`, pull side | agent, pipe buffers, transfer, queue of urls | responses, suspension and resumption, writes to disk | a pipe buffer lives until the last one closes it |

### How they interact

A reactor owns a `reactor_token` and a `timer_queue`.  `handle_events` acquires
the token as a reader through `token_guard` (with the caller's `max_wait_time`),
asks `calculate_timeout` how long to poll, polls, calls `expire` and dispatches
I/O, all with the token held: the thread is the leader.  Every other method
takes the token as a writer through `guard`; if it must sleep, the token's hook
writes to the notify pipe, and the leader's poll ends.  `expire` and the
dispatch call handlers while the token is held, so a handler re-enters
`schedule`, `cancel` or `remove_handler`; the token is recursive for its sake.
`connector` and `acceptor` are such handlers.  `task` gives each active object a
`message_queue`.  fcache reads requests in reactor handlers, sends files from
the thread of `dispatch_data_task` and feeds `asynch_file_io`, whose workers
call back without any lock of theirs.  `cache_manager` and the loggers are
called from any thread.

### What is hard

- signals and mutexes: a thread that is signalled has to get the mutex back,
  and another may be quicker (`token`, `message_queue`, `asynch_file_io`);
- waits that end early: timeouts that race the hand-over or a completion;
- upcalls in the middle of an operation (`expire`, dispatch, `handle_close`,
  the crontab walk), after which copies of the old state are still used;
- cancellation that races completion (`cancel_aio`, `cancel(timer_id)`, a
  client that hangs up during a read of its file);
- references that outlive their place: cached objects, events of an earlier
  poll, outputs of an earlier configuration, descriptors used again;
- steps that fail half-way: `epoll_ctl`, a connect, `pthread_create`, a write
  that is interrupted, a program that ends and starts on its old log files;
- counters at their limits.

`PROJECT.json` lists these hazards line by line with the properties that cover
them.

## 2. Modules

| module | models | kind |
|---|---|---|
| `Token` | `token` | component |
| `ReactorToken` | a reactor's threads: `reactor_token`, `token_guard`, `guard`, the notify pipe | composes `Token` with leader and pipe |
| `EpollSet`, `SelectLists`, `Reactor`, `ReactorProofs` | the two demultiplexers; repository and dispatch above them | component over either, theorems |
| `Connections`, `ConnectionsProofs` | `connector`, `acceptor`, `svc_handler` over what `Reactor` promises | component, theorems |
| `Deque`, `MessageList` | what `message_queue` promises as a container; its list, pointer by pointer | abstract; implements it |
| `MessageQueue` | its blocking protocol | component |
| `SynchProofs` | | theorems on `Token`, `ReactorToken` and `MessageQueue` |
| `TimerSet`, `TimerQueue`, `TimerQueueProofs` | what `timer_queue` promises; heap, id table and upcalls | abstract; implements it; theorems, the refinement among them |
| `Crontab`, `TimeValue` | crontab timers; `time_value` and `calculate_timeout` | components |
| `CacheManager` | `cache_manager` | component |
| `CacheDeque`, `CacheHeap` | the two orders of eviction | components |
| `AsynchFileIO`, `AsynchFileIOProofs` | `asynch_file_io` | component, theorems |
| `DataLemmas` | | facts about numbers, sequences and sums that the proofs share |
| `MemPool`, `BufferManager` | `mem_pool`; fcache's `buffer_manager` | components |
| `RecursiveMutex`, `TaskBase` | `recursive_thread_mutex`; `task_base` and `thread` | components |
| `LogManager`, `LogFile`, `IniParser`, `StreamIO` | loggers; log files; ini files; the I/O functions | components |
| `FcachePush`, `FcachePull` | the two sides of fcache | components |
| `FcacheProofs` | | theorems on `CacheManager` and `FcachePush` |
| `Parts`, `PartsProofs` | `CacheDeque`, `BufferManager`, `RecursiveMutex`, `TaskBase`, `LogManager`, `LogFile`, `FcachePull` and `StreamIO`, each by itself | eight instances, theorems |
| `MCParts` | the same, and `MessageList`, `CacheHeap`, `MemPool`, `TimeValue`, `Crontab`, `IniParser` and the heap of the timers | extends `Parts` by seven instances |
| `MCTimerHeap`, `MCCacheManager`, `MCAsynchFileIO`, `MCReactor`, `MCFcachePush` | | instances |

Definitions carry the names of the code where there is one; a definition whose
comment starts with "Mutant:" is a wrong variant of the definition below it,
used only to show that the properties notice.

**Token.**  Every method runs under `lock_`, given up only in `condition::wait`.
An action is the code between two such points: `Acquire` up to the first wait,
`Wake` (the wait returned 0), `WaitFails` (it returned -1, by timeout or error)
and `Release`.  Queue entries live on the stack of their thread, so queues are
sequences of threads, `opt[t]` says what t sleeps for, and `runable` and
`signalled` hold the flag and the condition of each entry.  `depth` is what the
callers know: acquisitions that returned 0, less releases.  Between the signal
and the woken thread's `Wake` anything may happen.  `failed` is a history
variable.  `WaitFails` does what the code does: wake the next waiter with the
own entry still queued, take it out and, after a timeout that finds the entry
runable, wake the next one again.  `pthread_cond_wait` returning unasked is not
modelled for the token: it would only repeat the loop's test (`WakeAgain`).

**ReactorToken.**  Extends `Token` by the place of each thread in `handle_events`
(`where`) and the bytes in the notify pipe, one for each queued tuple.  Every
action is a step of the token joined with what the reactor does around it:
`Enter` and `Leave` are `handle_events` and its guard, `Modify` and `Unlock` any
other method, called from outside or by a handler of the leader, `TimedOut` a
`handle_events` whose wait ends.  `Poll` may return for any reason, but is sure
to only if the pipe is readable.  A handler that calls `handle_events` itself is
excluded (no program in the repository does): such a nested leader could poll
over a writer whose byte the outer one has drained.

**Reactor.**  What the leader does with the token held, for both reactors
(`kind`).  `rep` is the repository; `EpollSet` and `SelectLists` are the kernel's
interest set, which may refuse a change, and the three lists of descriptors with
their nodes.  `epoll_poll_events` keeps the events of the last poll that were not
dispatched; `select_dispatch` walks a list with a saved next node.  Upcalls and
`handle_close` calls in progress are on `stack`, and as long as one runs it may
call the reactor again, `MaxFuel` times.  Descriptors are closed and used again.
Handlers are the environment: they keep the library's rules (a handler leaves the
reactor before its descriptor is closed, and one that was deleted returns 0).

**Connections.**  `connector::connect`, blocking or not, with the timer and the
`nonblocking_connect_handler` that waits for completion, failure and timeout, and
`acceptor` on a listening descriptor.  The kernel is in the model as far as it
decides: sockets answer, refuse, receive and break at any moment, events are
reported once and dispatched later, numbers of descriptors are used again.
The reactor may refuse a connection attempt or its timer (`nonblocking_refused`):
`sh->close` is then called, for a refused timer the second time, as `remove_handler`
has led to a `close` already that deleted the object.  `mishaps` records the attempt
that is lost in the one case and the second close of the other, after which a
program may do anything, so behaviours end there (`Defined`, `Ended`).  Both paths
follow an `assert`, so only a build with NDEBUG (`make debug=0`) takes them.

**MessageList / Deque.**  `next`, `prev`, `head_`, `tail_` and `mb_count_` with
the assignments of the four operations, including chains callers built with
`next()` only and chains a former `dequeue_*_n` handed out with old `prev()`
fields.  The refinement mapping reads the blocks along `next` from `head_`.

**MessageQueue.**  The blocking protocol sees of the list only its length, which
`MessageList!WellLinked` justifies.  A call is a `Call` and one `Resume` for
every time the thread gets the mutex.  The three kinds of timeout are the null
pointer, a time, and `time_value::zero` (fail instead of waiting).  Waits may
time out and wake spuriously.

**TimerQueue / TimerSet.**  The heap is a function on slots from 0, and
`reheap_up`, `reheap_down`, `insert`, `remove`, `grow_heap` and the id search
change it and `timer_ids_` as in the code.  `Expire` dispatches the earliest
timer and leaves `upcall` set; until `ReturnsOk` or `ReturnsFailure` the
handler (or nobody) may schedule and cancel.  A failing `assert` ends the
program (`aborted`), as in the default build.  `TimerSet` has a map from ids to
timers and says only that an earliest timer that is due fires and that a
cancelled one does not.

**Crontab.**  An entry is a sequence of tokens for each field, with every form
`get_list` knows; `parse_cron_entry` gives the marks of each field, and
`CronMeaning` compares them with a definition of what the form means.  The list
is modelled by its links because the walk of a minute (`handle_timeout`, `Look`,
`Returned`, `WalkEnds`) holds a pointer into it while handlers change it.
**TimeValue** keeps both fields of a `time_value` and the exact number they stand
for; a second has a few units instead of a million.

**CacheManager.**  Every method holds `cache_mutex_` throughout and is one
action.  Evictions work on the cache as a value since `put` may flush several
times.  `live` are the objects that exist; `refcount` the references callers
hold; an address may be used again after its object was destroyed.
**CacheDeque** and **CacheHeap** are the two `cache_priority_queue_`s: links,
free list and `size_`; array, `heap_idx_` and hit counts.

**AsynchFileIO.**  An action is one hold of one of the three mutexes.  A handle's
requests are the sequence made of its top node and the top's sub-queue;
`queue_list` is the sequence of handles.  The histories `callbacks`, `canceled`
and `told` record what handlers and callers have seen.

**MemPool.**  A slab is the sequence of its chunks with size and `inuse_`, the
chunk it knows to be free and that chunk's size; `malloc` splits, `free` merges
and both move the slab in the list.  `owned` says what callers hold, whatever
`inuse_` says.  **BufferManager**: the two lists of items and their buffers.

**RecursiveMutex.**  Every read and write of the fields and every pthread call is
a step: `acquire` compares `owner_thr_` without the mutex.  **TaskBase**: a
caller inside `activate` creates its threads one by one and counts them at the
end, while the first may have finished; `pthread_create` may fail.

**LogManager, LogFile.**  A configuration says of each module its types, outputs
and record length, and of each output its mode; modules inherit.  The file is
edited at any time, every log call may find it changed, and `shutdown` is two
steps because it runs without the mutex.  `LogFile` counts in bytes, which are
numbered as they are written; a record is of one or more, the size is tested before
it is written, a short write drops the rest of it, an interrupted one all of it, and
the program may end and start again on its files.

**IniParser.**  The slots of the dictionary with deletion and doubling; lines are
sections, values or errors, with what lower-casing and cutting at a comment sign
do given by tables.  `map` is what the dictionary should hold.

**StreamIO.**  One thread calls the functions one after the other; a system call
is a step and moves any number of bytes, none, or fails.  `moved` records which
place of the buffer each byte of the stream belongs to.

**FcachePush.**  The reactor thread (`Open`, the handlers of a request, `HangUp`,
`handle_msg`), the dispatch thread (`svc`, one step for each stretch under a
transfer's `buffer_mtx_` and for each send) and the aio threads (`AioStart`,
`AioDone`).  A buffer is its size and the place in the file it was read from.
Requests come from a set of records that name the method, the kind of uri and
`Range` header, and what the server knows of the file.  `start_aio` may refuse a
read.  A response that cannot be sent deletes a transfer whose first read is in the
queue (`ResponseFails`, `orphan`); when an aio thread takes that read up it works on a
deleted transfer, and the behaviour ends (`Defined`).

**FcachePull.**  One url pulled for one client: the agent on the reactor thread,
the transfer on the dispatch thread, the aio threads that write the
`pipe_buffer`s, and the pipe through which the transfer asks for a resumption.  The
origin may send more than it announced; a write to disk may be short, fail or be
refused by `start_aio`.  The agent starts the transfer while the dispatch thread may be
anywhere in it.  Where the program asserts, calls an object that is gone or uses a
null pointer, `fault` says which, and the behaviour ends: that is also what happens
when the second write of a short one is taken up, `stray` saying which chunks have
one, as the buffer it reads was freed.

## 3. Runs

| run | instance | shows |
|---|---|---|
| `token` | 3 threads, FIFO, depth 2, timeouts and errors | `MutualExclusion`, `TokenKept`, `RunableWhenOwner`, `WritersInTurn` |
| `reactor_token` | 3 threads, depth 2, pipe of 2 bytes, 1 notification by the program | `SingleLeader`, `NoSilentLeader`, `WriterGetsIn` |
| `reactor` | both reactors, 2 descriptors, 2 handlers, 1 event per call, upcalls nested twice | `Agreement`, `NoDangling`, `LeftoversKept` |
| `connections` | 2 descriptors, 2 handlers, 1 connection waiting to be accepted | `NoLeak`, `CallbacksSound`, `ConnectResolved` |
| `queue` | 2+2 threads, mark 2, lists of up to 2 in, 1 or 2 blocks out | `BoundedByMark`, `ConsumersWoken`, `ProducersWoken`, `QueueDrains` |
| `timer` | 3 timers, 2 handlers, arrays of 3 growing to 4 | `IdsSound`, `ImplementsTimerSet`, `DueTimersFire` |
| `cache` | 3 keys, 5 objects, sizes 1 and 3, marks 2 and 4, 2 references each | `HeldAlive`, `BooksAgree` |
| `aio` | 2 clients, 2 workers, 4 requests, 2 handles, limit 2 | `QueueSound`, `WorkersWoken`, `CancelIsFinal`, `AllServed` |
| `fcache_push` | 2 clients, 12 kinds of request, file of 4 in blocks of 2 | `ServedRight`, `UsesTheLiving`, `Released` |
| `parts` | fifteen parts that do not act on each other, each from its own initial states | see below |
| `token_timeout_exclusion` | as `token` | violation, finding 1 |
| `cache_leak` | 2 keys, 3 objects | violation, finding 2 |

`parts` is one model of independent parts: `part` says which one a behaviour is of,
and the variables `v1`, `v2`, ... are those of that part.  Each part is an
`INSTANCE` of its module, and a property is that of one or more parts.  `Parts`
holds the parts there are theorems about, with the specification `PartsSpec`;
`MCParts` extends it by the others.  A step never changes `part`, so a behaviour of
`AllSpec`, which the run checks, is one of `PartsSpec` if it starts in one of the
parts of `Parts`.

| property of `Parts` | parts and what holds of them |
|---|---|
| `ListsSound` | `CacheDeque`: `LinkedBothWays`; `BufferManager`: `BlocksApart` |
| `ThreadsSound` | `RecursiveMutex`: `Reentrant`; `TaskBase`: `FreshCrew` |
| `LoggingSound` | `LogManager`: `OutputsAlive`, `LoggersAgree`; `LogFile`: `KeepsTheNewest` |
| `PipeHeld` | `FcachePull`: `PipeHeld`, `UrlRemovedOnce` |
| `InStep`, `TimedCallsReturn` | `StreamIO` |
| `NoStepHarms` | `CacheDeque`: `KeepsUseOrder`; `LogFile`: `WritesWithin`; `FcachePull`: `FreesTheWritten` |

| property of `MCParts` | parts and what holds of them |
|---|---|
| `ImplementsDeque` | `MessageList` implements `Deque` |
| `StructuresSound` | order and slots of `CacheHeap`; order of the timer heap; `MemPool`: `SlabsSound`, `SlabsOrdered`; `IniParser`: `IsMap`, `SavedLoads` |
| `TimesExact` | `TimeValue`: `WaitIsExact`; `Crontab`: `WalkIsComplete`, `CronMeaning` |
| `OthersUndisturbed` | `MemPool`: `OwnersUndisturbed`; `Crontab`: `CancelledNotCalled` |

Why these bounds suffice to see the interesting cases:

- *token*: three threads give an owner, an heir and a bystander, in which every
  race of a hand-over with a timeout or a new acquire occurs; depth 2 is the
  least at which `nesting_level_` matters.  The safety results are proved for
  all values.
- *reactor_token*: a leader, a writer and a third thread that follows or writes;
  the pipe can be empty, partly drained and full.  Its safety is proved for all
  values.
- *reactor*: a handler for reading and one for reading and writing on two
  descriptors let one handler act on itself, on the other and on a number used
  again; one event per call (32 in the code) leaves events over as soon as two
  descriptors are ready; depth 2 is a call from an upcall's `handle_close`; three
  list nodes for each descriptor, as in the code.
- *connections*: two handlers on two descriptors let a stale event meet a new
  owner of its number, an accepted one beside a connecting one.
- *queue*: a mark of 2 lets a queue be neither empty nor full; two waiters on a
  side are needed for a lost wakeup.  The runs leave out a dequeue of everything
  (a number of -1), which the proofs cover.
- *timer*: the arrays start with three places and grow once to the maximum.  Two
  handlers and periods 0 and 1 let a handler cancel others' timers within an
  upcall.  The heap needs more nodes than this to show a removal that must
  move up: the part `timers` of `parts` starts from every ordered heap of at most seven
  nodes (three levels) and takes one step, which for an invariant of this kind is
  as good as any sequence of steps.
- *cache*: three keys and marks that two or three objects reach make `put` evict
  one or several; five addresses allow two generations of a key.
- *aio*: `PopNum` 2 (5 in the code) and a limit of 2 (so three nodes, see section 6)
  make partial pops and refused allocations happen with four requests.
- *fcache_push*: a file of two blocks is read ahead once; a concurrency of 1
  refuses the second client; a pipe of one notification is full at the second.
- *parts*, structures: four blocks or items give lists with both ends, a middle and one
  being moved; heaps of six have three levels; a slab of three smallest chunks splits
  and merges on both sides; crontab fields of four values, one from 0, one from 1 and
  the weekdays, and entries that restrict none, one or two of them, both kinds of day
  among these; a dictionary that doubles twice.
- *parts*, threads and peers: three threads on a mutex; two modules and two outputs, four
  configurations; two older log files, records of one or two bytes and five bytes in
  all, so that a record crosses a limit; a file of two full chunks and a part, whose
  origin may send more; three bytes moved one or more at a time.

Fairness.  `Token`: a thread whose condition was signalled runs again (the
scheduler) and a holder releases (guards have scopes); strong fairness on the
release of the outermost level says that a thread does not nest and un-nest for
ever inside one scope.  `ReactorToken`: the same, except that the
poll is fair only when the pipe is readable, and a dispatch ends although its
handlers call into the reactor.  `MessageQueue`: a thread that wants the mutex gets it;
no fairness on calls, timeouts or spurious wakeups.  `TimerQueue`: every
`handle_events` calls `expire`, handlers return, time passes.  `AsynchFileIO`:
workers run, I/O and handlers return; clients owe nothing.  `Connections`: the
reactor polls and dispatches, and a timer that is pending again and again goes
off (the clock); peers owe nothing.  `FcachePush`: the dispatch thread and the
aio threads run; clients owe nothing.  `StreamIO`: a thread inside a call goes
on; the peer owes nothing.

Deadlock is checked in `token`, `reactor_token`, `queue`, `cache`, `aio` and
`connections`.  It is not in `timer` and `parts`, where clocks and other bounds end, in `reactor`, where a program may have closed its reactor, and in
`fcache_push`, where all clients may have come and gone.

## 4. Properties

*Token.*  `MutualExclusion` and `TokenKept` (nesting exact, never free while
threads sleep) hold until a wait fails (finding 1 shows why the condition is
there); `RunableWhenOwner` (the assert in `shared_acquire`) and
`QueuesMatchSleepers` hold always: no queue ever holds an entry of a frame that
is gone.  `WritersInTurn` is the FIFO promise among writers and its consequence
in time.  Readers can starve behind writers, by design.

*Reactor threads.*  `SingleLeader` is what the reactor relies on for having no
other lock.  `NoSilentLeader` is the invariant behind the sleep hook, and
`WriterGetsIn` its consequence: the leader's release is itself due to the byte of
the writer.

*Reactor.*  `Agreement`: the repository and the interest set (or the lists) say
the same of every descriptor at the end of each call, although `handle_close`
calls back and the kernel refuses.  `NoDangling`: no deleted handler is bound.
`LeftoversKept`: an event that was reported is dispatched or belongs to a
handler that left.

*Connections.*  `NoLeak`, `CallbacksSound` (only live objects are called, the open
hook runs only for a connection that exists, no assert of its callbacks fails) and
`ConnectResolved`: an attempt with a timeout is opened or closed in the end.  They
speak of a program up to the second close of an object that was deleted, which a
refused timer leads to (`ClosedOnce`, section 6).

*Message queue.*  `BoundedByMark` is the bound the water mark really gives;
`ConsumersWoken` and `ProducersWoken` say that every block (free place) has a
woken thread coming for it while others sleep; `QueueDrains` is the liveness.
One signal stands for one call and not for one block: the histories `lists` and
`grabs` record that a list of several blocks was put in or several blocks were
taken at once, and the wakeup of consumers is promised until the first, that of
producers until the second.

*Timers.*  `ImplementsTimerSet`; `IdsSound` (every timer can be cancelled by its
id, every other id is free, no assert fails); `DueTimersFire`.

*Cache.*  `HeldAlive`; `BooksAgree` (the water mark is exact and bounded, an object
is in one place).  *Asynchronous I/O.*  `QueueSound` (each request once, count
exact, order), `CancelIsFinal`, `WorkersWoken`, `AllServed`.

*fcache.*  `ServedRight`: what a client is sent is the file from the place it
asked for, in order, and `g_payload` counts it once.  `UsesTheLiving`: the dispatch
thread finds the client of every job that is not closing, and every pending read has
its transfer, except the reads of clients that could not be answered: these are left
in the queue and are the undefined behaviour of `ReadsHaveAgents` in section 6.
`Released`: every job that is closed is released.  `PipeHeld`: up to the first fault
agent and transfer use no `pipe_buffer` after it was closed; nothing of the kind holds
of the aio threads (`StrayWrites`, section 6).

*Loggers.*  `KeepsTheNewest`: the log files hold the newest bytes in order.
`WritesWithin`: no record is begun in a file that has reached its limit.  The record that
crosses it goes in whole, so a file may outgrow the limit by less than a record.

## 5. Proofs

A theorem here says of every value of the constants, within the named assumption
of its module, what a run says of one instance.  Each invariant below was checked
by TLC on the instance of its run before it was proved.

### `SynchProofs`

*The token* (any set of threads, either strategy, any depth, any failures of
waits; from `TokenAssumption` only):

- `TypeCorrect`, `QueuesExact`, `RunableAssertion`: `Spec => []TypeOK`,
  `[]QueuesMatchSleepers`, `[]RunableWhenOwner`.  None is inductive alone.
  `IInv` is their conjunction: that `waiters_` stays a natural number needs the
  queues to be exact, and that a sleeping owner is runable needs the heir, the
  head of a queue, to be a sleeper.  The lemmas `InsertEntry` and `RemoveEntry`
  say what the two `token_queue` operations do to a sequence without repetitions.
- `Exclusion` and `TokenIsKept`: `MutualExclusion` and `TokenKept`.  `MInv`,
  relative to `IInv` and to no wait having failed, says besides that a free token
  has empty queues and no nesting left over, that a sleeping owner has been
  signalled and holds nothing, and that only the owner has acquisitions to release.

*A reactor's threads* (any threads, strategy, depth and pipe; from
`TokenAssumption` and `ReactorTokenAssumption`):

- `ReactorUsesToken`: `RTSpec => Spec`; every step of the reactor's threads is a
  step of the token or leaves it alone, so `IInv` and `MInv` hold here as well;
- `OneLeader`: `SingleLeader`, from "a thread inside `handle_events` holds the
  token" and `MInv`;
- `LeaderAlert`: `NoSilentLeader`.  Not inductive: `RInv` extends it to the reader
  that has been chosen as owner and has not run yet, because a writer may go to
  sleep in that interval; that the heir is a reader only when no writer sleeps is
  the lemma `ReleaseHeir`.

*The message queue* (any finite sets of threads, any mark and sizes; from
`MessageQueueAssumption`):

- `Bounded`: the types (the counter never wraps) and `BoundedByMark`;
- `ConsumerWakeups`: `ConsumersWoken`, that is, until a list of several blocks is
  put in, whatever the dequeues take;
- `ProducerWakeups`: `ProducersWoken`, until several blocks are taken at once;
- `StandoffFree`: `NoStandoff`, from `ConsumersWoken` and the fact that an empty
  queue with a sleeping producer has a woken one too.

### `ReactorProofs`

Any descriptors, handlers, masks, depth and number of calls of handlers; from
`ReactorAssumption` and `AbsentAssumption`: the descriptors are finitely many
naturals, at least one, with three list nodes for each, as `open_i` makes them;
handlers use reactor masks; "not in the set" is no set of events.

- `NothingDangles`: `NoDangling`, for both reactors.  `IInv` adds that every open
  descriptor has one owner, which is what makes the number a handler is bound to
  and the number it closes the same, and `Asked`: what the epoll set asks of each
  handle.  `Asked` is weaker than `Agreement` for suspended handles in the way the
  code is: `unbind` leaves `suspended_` set, so a handle may be marked and in the
  set.  Every operation is shown to touch one handle (`Local`);
- `KernelAgrees`: `Agreement`, for both reactors and whatever the kernel refuses.
  For the select reactor `IInv` has `Listed`: the pointers are lists (`Good`), that
  is, some sequences of nodes, each node in one of the four lists once, are linked
  as `head`, `next` and `free` say, and no list has a handle twice; and each handle
  is in the lists of its mask.  `ChainIs` shows that walking the pointers reads
  those sequences, `RoomLeft` by counting that a handle missing in a list leaves a
  node for `alloc_handle`, `AppendKeeps` and `RemoveKeeps` that the two operations on
  nodes add and remove one member and break nothing;
- `LeftoversAreKept`: the action property `LeftoversKept`.

### `ConnectionsProofs`

Any handlers and descriptors; from `ConnectionsAssumption`.

- `NothingLeaks` and `CallbacksAreSound`: `NoLeak` and `CallbacksSound`, from
  `ConnectionsInvariant`, which says for each phase of a handler which descriptor
  is its own, who is registered for that descriptor and which timer it has
  pending.  It says nothing of the events reported and not yet dispatched: a stale
  one finds the owner of its number registered, or nobody.  The refusals of the reactor
  are steps like the others; what the invariant says, it says of every state up to
  the second close of a deleted object (`ClosedOnce`), and of that state too: the
  descriptors and registrations are in order, the object is not.

### `TimerQueueProofs`

Any handlers, delays, intervals and sizes of the arrays; from
`TimerQueueAssumption`.

- `IdsStaySound`: `IdsSound`; `HeapStaysOrdered`: `HeapOrdered`;
- `TimerSetImplemented`: `ImplementsTimerSet`.  Every step of the heap is the step of
  `TimerSet` of the same name, or a stutter: an expiry takes an earliest timer that is
  due because the root of an ordered heap is least.

All three are for callers that are `Careful`: they keep below `max_size` timers and no
handler fails for a timer it cancelled itself.  Both conditions are necessary, not
convenient: with `max_size` timers `grow_heap` drops ids that are in use, and a
handler that cancels its timer, schedules another and returns -1 may cancel the new
one (section 6).  The run uses the same conditions.

The argument has three layers.  The first is about a heap with one slot to fill:
`reheap_up` and `reheap_down` move the hole along a path, which is recursion over
slots, and leave a heap and the same nodes; the induction is over sets of slots.
The second takes a queue as a value that is `Sound` (the slots in use hold nodes, in
order; the id table leads from each id to its node's slot; every other id is
marked free and none lies before `min_timer_id_`), and says what `insert`, `remove`, `discard`, `grow_heap` and the
search for an id do to it.  The third is `TimerInv`: the queue of every state is `Sound`, no
assert has failed, and `UpcallSound`: while a handler runs, `upcall.mine` is only
true if the id is still that of a scheduled timer.

### `FcacheProofs`

*`cache_manager`* (any keys, objects, sizes and marks; from
`CacheManagerAssumption`):

- `HeldIsAlive` and `BooksAlwaysAgree`: `HeldAlive` and `BooksAgree`.  The
  invariant `Sound` is stated of a cache as a value, so that the lemma about each
  flush can be used for those that call it: every key of the map is queued once,
  no object is in two places, what is held or referenced exists, and the water
  mark is the sum of the sizes of all that exists.

*The push side* (any clients, requests, file, block, packet, budget, concurrency
and pipe; from `PushAssumption`):

- `TheLivingAreUsed`: `UsesTheLiving`, for the clients that were answered; the theorem
  leaves out the reads in `orphan` and the states after an aio thread took one up,
  since `ReadsHaveAgents` is false;
- `FilesServedRight`: `ServedRight`.

Both follow from `PInv`, of four parts.  `JobsInv`: a queued job has its client
until it is closing, and none is queued twice.  `AgentsInv`: exactly the queued clients
have a transfer, and every transfer is in line (`AgentOK`): the buffer it sends from,
the one read ahead and the one a pending read will fill follow each other in the
file, also when a read comes back short or is repeated.  `DispInv`: the job
`dispatch_data` works on, between its holds of the mutex, is still in the queue, and
there is a buffer while it sends.  `PayloadInv`: `g_payload` is never more than the
clients with a job in the queue.  The second part needs the first: a hang-up deletes a client while the
dispatch thread and an aio thread hold its transfer, and what keeps that transfer is
the job that is not taken off the queue before the dispatch thread closes it.

### `AsynchFileIOProofs`

Any handles, clients, requests and finite set of workers; from
`AsynchFileIOAssumption`; in three layers.

- `IInv`: the phase of each worker, a request queued or in a batch is there once,
  every other one was called once or cancelled (`Settled`), the queue in order of
  priority.  `CancelFinal` (`CancelIsFinal`) is an action property of it;
- `QueueIsSound`: `QueueSound`; the count of nodes is the queued requests plus those
  in batches, a sum over handles and one over workers.  `AsynchTypes` follows:
  the unsigned count never wraps;
- `WorkersAreWoken`: `WorkersWoken`; a handle that is listed while a worker waits
  has a woken one coming for it.

### `PartsProofs`

From `PartsAssumption`: naturals, finite sets of threads and of items, batches of at
least one, and a receive buffer no longer than a chunk, as in fcache.

- `BytesStayInStep`: `InStep`, for every length and whatever the peer does.  A
  running call stands behind the bytes it has moved (`StreamInv`).  As in the run,
  the elements of a vector are of one byte (section 6 says what happens otherwise);
- `ThreadsStaySound`: `ThreadsSound`, for any threads.  `MutexInv` says from the place
  of each thread who has the mutex and whose name is in `owner_thr_`: a thread that
  reads its own name there without the mutex has written it and not yet cleared it,
  so it holds the mutex and the level is its own.  `TaskInv`: the count covers the
  threads that are alive and those a caller inside `activate` has yet to start; so a
  count of zero means that the last crew is gone;
- `PipesStayHeld`: `PipeHeld`, for files of every length, any chunks and any pipe.
  `PullInv` says that every `pipe_buffer` counts those of agent and transfer that
  point to it, that none exists behind the last one made and that one the agent
  has not reached is empty.  It covers short and refused writes and an origin that sends
  too much, and every state up to a fault and the faulty one (`FaultKeeps`).  What a
  close leaves is a choice (`LetGo`, `Closes`): the write is queued or refused.
  `FirstInv` is the reason for the assumption: what the agent has received before its
  first package fits in the first `pipe_buffer`, so it still holds that one when it
  starts the transfer;
- `LoggingStaysSound`: `LoggingSound`, for records of any length and any number of them,
  of reloads and of restarts,
  with the modules, outputs, configurations and file entries of the instance.
  `LoggersInv`: the outputs of every logger are objects of `output_list_`, those
  have the mode of the configuration loaded last, and every logger follows it.
  `FileInv`: the older files are there without a gap, what all files hold is the end
  of what was written, and something was dropped only with all older files in use.
  `Kept` names the files one by one because `KeepsTheNewest` folds over them;
- `ListsStaySound`: `ListsSound`, for any finite set of items and blocks and batches of
  any size.  `DequeInv`: there are a sequence of items in use and one of free items,
  without a common member, that `next()` and `prev()` (or `next()` alone) follow from
  end to end.  `Follows` says this of a link and a sequence; `WalkReads` shows that the
  recursive reading of the list returns that sequence, so each operation is a statement
  about sequences: `RemoveCuts`, `InsertAppends`, `FrontPushed`, `FrontPopped`.
  `PoolInv` is the same for the two lists of `buffer_manager`, with the blocks on
  the one list distinct and none of them held; a flush is an induction over its rounds
  (`AfterRounds`);
- `NothingIsHarmed`: the action property `NoStepHarms`.  For the deque it is read off
  what each operation does to its sequence.  `SizeInv` says of `current_file_size_`
  that it is no less than the open file unless writes were interrupted, from which a
  write goes to a file below its limit.  It may be more: the size is not reset for a file that is made new after a period or under
  another name.  For the pull side it follows from `PullInv`; that
  the disk was tried does not mean that all was written (`StrayWrites`).

### `DataLemmas`

What these share: least elements and induction stated with sets of naturals,
insertion into and removal from a sequence without repetitions, the sum of a
function over a finite set after one value changes.

### Only model-checked

- all liveness: `WritersInTurn`, `WriterGetsIn`, `QueueDrains`, `DueTimersFire`,
  `AllServed`, `ConnectResolved`, `Released`, `TimedCallsReturn`;
- `ImplementsDeque`: the refinement mapping reads a list along its links, and what
  every operation does to that reading is an induction over lists of any length
  (the lists of the select reactor and of the cache were proved by naming the
  sequences; here chains of callers, with old `prev()` fields, are joined and cut as
  well);
- `StructuresSound` and `OthersUndisturbed` are about several structures each, of which
  the heap of the timers is proved (`HeapStaysOrdered`); for the others the run
  enumerates every state of the given size;
- `TimesExact`: what loops over fields and ticks compute for tables that the instance
  gives.

## 6. Where code and documents disagree

With a run:

1. *A wait that times out breaks the token's exclusion* (`token.cpp:68`).
   `shared_acquire` calls `wakeup_next_waiter` when a wait fails, which passes on
   a token another thread holds.
2. *An evicted object is lost* (`cache_manager.cpp:163`).  `drop_i` ignores that
   `pending_list_` already has the key; the object is never destroyed and its size
   is counted for ever.

Formulas stated in the modules that TLC refutes when they are put into a
configuration; no run of the project checks them:

- `TimerQueue!ReturnEndsOwnTimer` (with `CancelsOwn = TRUE`): after a handler that
  cancelled its timer and scheduled another returns -1, `expire` cancels by id and
  may take the new one (`timer_queue.cpp:1173`, against `timer_queue.h:175`).
- `Reactor!NoAbort`: the select reactor goes on to a node that the upcall has
  released, and its assert fails (`select_reactor.cpp:173`).
- `Connections!InputMeansFailure`: a connection whose peer has sent something when
  it is first polled is closed as failed (`connector.h:96`).
- `Connections!ClosedOnce`: when the reactor refuses the timer of an attempt,
  `remove_handler` without `dont_call` closes and deletes the `svc_handler`, and `close` is called
  on it again (`connector.h:312-318`; `svc_handler.h` has `closed_` "to avoid
  circular calls").  `Connections!AttemptsDeleted`: when it refuses the registration,
  the `nonblocking_connect_handler` is lost (`connector.h:298-305`).  Both behind an assert.
- `FcachePush!ReadsHaveAgents`: when the response to a client fails, its transfer is
  deleted with the first read in the aio queue, and `handle_aio_read` is called on it
  (`http_client.cpp:425-431`).
- `FcachePush!SentWithinContent`: the last read is cut by what was sent, not by what
  was read, so a client may be sent more than its `Content-Length`
  (`serial_file_transfer.cpp:84`, `http_client.cpp:523`).
- `FcachePull!PullInOrder` and `CallsALiveTransfer`: a chunk's last bytes are skipped
  when the agent writes between two tests (`pull_file_transfer.cpp:143`), and the
  agent starts a transfer its client has taken away (`pull_http_agent.cpp:426`).
- `FcachePull!StrayWrites`: a short write to disk queues a second one, marks the chunk
  as complete and deletes the buffer the second one reads (`pipe_buffer.cpp:84-125`).
  `NoPipeForgotten`: a write that `start_aio` refuses leaves a buffer that nobody
  closes (`pipe_buffer.cpp:156-162`), and so does an agent whose origin hangs up.
  `ClosesItsPipe`: an origin that sends more than its `Content-Length` makes the agent
  close a buffer it has closed and set to null (`pull_http_agent.cpp:118`, `:351`, `:423`).
- `LogFile!FileBounded`: the size is tested before a record is written, so the record
  that crosses the limit goes in whole (`log_to_file.cpp:143-147`).
- `IniParser!OnlyFoundEntriesAreSet`: `iniparser_set` of an entry that is not there adds
  it (`dictionary.c:269-281`), where `iniparser.c:420-421` and, of
  `iniparser_setstring`, `iniparser.h:217-218` say that -1 is returned; `IsMap` holds
  of the dictionary as it is.
- `Crontab!EitherDayRuns`: an entry that restricts both the day of the month and the
  weekday runs where both match (`timer_queue.cpp:398-402`), where the example
  `* * 1,15 * Sun` of `timer_queue.h:230` "will run on the first and fifteenth AND every
  Sunday"; `WalkIsComplete` is about the conjunction of all five fields.
- `TaskBase!CountIsRunning`: threads that could not be created are counted
  (`task_base.h:83` against the comment at `:87`).
- `StreamIO!ZeroMeansClosed` and `ModeRestored`: `recv_n` returns 0 on a timeout
  (`sock_stream.h:44`); `recv`, `recvv`, `recvfrom` and `recv_n` leave a blocking
  handle non-blocking.

Met while modelling:

- `message_queue.h:32` calls the mark the most a queue holds; a list is let in
  whole below it (`BoundedByMark`).  With lists of two blocks producers and
  consumers can all sleep on each other (mark 2, three consumers).
- `timer_queue.h:276` promises -1 for a cancel of an id that is not scheduled; an
  assert ends the program instead.  `timer_queue.h:291`: `expire` runs one timer
  per call, not all.  With `max_size` timers, `grow_heap` drops ids in use
  (`timer_queue.cpp:811`): `IdsSound` is for fewer timers than that.
- Crontab: `-` is not `*` (note 3 of `timer_queue.h`), `-e/n` is refused, `b/n`
  marks only b, a weekday range that wraps and has a step is off by one, and
  entries that begin with `@` never match.  Cancelling the first entry leaves a freed node
  linked, cancelling the last one loses the list; ids are handed out twice;
  `reset_crontab` spins unless the first entry is meant; `crontab` fails unless the
  minute timer's id is 0.
- `asynch_file_io.h:148` and `:162`: `start_aio` returns the id, and a cancel of a
  completed or unknown id says `AIO_CANCELED`.  `alloc_aio_opt` allows one
  node more than its maximum.
- `cache_manager.h:51`: `put` with a null object returns -1, it removes nothing.
  `cache_deque.h:47`: the destructor follows `next()` after `release_item` has
  redirected it.  `heap.h:87`: `adjust` after the priority was changed breaks the
  order.
- `mem_pool.h` calls a limit of 0 or -1 unlimited; `init` refuses it.
- Loggers: `get_logger` does not rebuild the record buffer; `shutdown` is lost at a
  reload; edits within the second of the last load are missed; a load that failed
  is not tried again.  Log files: the size is not reset when the period rolls the
  file or the name changes; an interrupted write drops its record and takes one
  off the size (`continue` in `do ... while (0)`); a short one drops the rest of its
  record (`log_to_file.cpp:130-140`); a failed open stops logging;
  lowering the number of older files leaves the surplus.
- `iniparser`: a syntax error is forgotten by the end of the file; a last line
  without newline fails; keys before the first section and values with `;` do
  not survive `iniparser_dump_ini`; unsetting a section orphans its keys.
- `ndk.cpp`: `recvv_n` and `sendv_n` restart a vector element that was moved in part
  (`IOVEC_SECURITY_IO` is undefined; the part `stream` uses elements of one byte);
  `send` and `sendto` wait for readability; `read` and `write` compare the result
  with `EINTR`; the four-argument `send_n` of `ndk.h` calls itself.
- `time_value`: adding seconds does not normalise; negative values have two forms.
- fcache: a range's end is not clamped; a resumption that arrives before the suspension
  is lost (`pull_http_agent.cpp:370`); the bytes still in `recv_buff_` when the origin
  closes are dropped; the bitmap of a file has a chunk too many
  (`file_info.cpp:38`); guard mode cannot be chosen (`g` is not in the option string).
- `unix_reactor.cpp:88`: a flood of notifications keeps the leader in
  `handle_input`; `unix_reactor.inl:4`: `unbind` does not clear `suspended_`.

## 7. Not modelled

- the dispatch of a handler carried by a notification; the facade `reactor.h`
  beyond `register_handler`; `kqueue_reactor`, a stub, and `tmp/`, a draft;
- cancels of the first and the last crontab entry (`CancelsEnds`), a handler that
  cancels its own timer and returns -1 (`CancelsOwn`), delays of zero in `timer`
  (a handler that reschedules itself at once keeps others from their turn),
  `heap::adjust` after a change of priority, the destructor of `cache_deque`;
- the wrap of request ids at `INT_MAX`; measured time in `message_queue` (each
  wakeup starts the timeout anew);
- the formatting of log records, the tokens of a line of an ini file, the parsing
  of HTTP headers: choices among their outcomes;
- ranged pulls, a second client of a url being pulled, and fcache's start-up,
  status page and file table;
- the negation of an output that a logger does not have, `erase(end())`, undefined
  (`log_manager.cpp:364-367`); `mem_pool::malloc(0)`, which finds room in a full slab
  (requests are positive); a system out of memory, which `make_svc_handler`
  (`acceptor.h:227`) and others answer by leaving what they were about;
- in the I/O functions, `ENOBUFS`: the loop waits for readiness and sends again
  (`ndk.cpp:456`), and a socket that is ready while the system has no buffers keeps it
  there, so `TimedCallsReturn` is said of a system that does not run out of them; and
  descriptors beyond `FD_SETSIZE`, which stop the program (`ndk.cpp:116`);
- wrappers of single system calls: sockets, addresses, `thread_mutex`,
  `semaphore`, `atomic_opt`; dates;
- `log/`, an older copy of the loggers the makefile does not build; examples,
  tests, tools.

## 8. Plan

What is left, in this order:

1. `MessageList`: `ImplementsDeque`, with the sequences of the chains named, as
   `PartsProofs` does for the deque of the cache;
2. `MemPool`: the chunks of a slab add up, after every split and merge;
3. the walk of `Crontab`, which needs no more than a list of entries.

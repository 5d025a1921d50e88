------------------------------- MODULE Parts -------------------------------
(***************************************************************************)
(* Parts of the library and of fcache that are checked by themselves, in   *)
(* one model: those there are theorems about (MCParts adds the others).    *)
(* A behaviour is one of the part named by `part`; v1, v2, ... are the     *)
(* variables of that part, in the order of its declaration, and those it   *)
(* does not have stay Nil.                                                 *)
(***************************************************************************)
EXTENDS Integers, Sequences, FiniteSets

CONSTANTS
    Nodes,      \* items of the cache_deque
    Blocks,     \* file blocks
    MaxItems,   \* bound: buffer_items ever allocated
    Batch,      \* buffer_items made at a time
    Tids,       \* threads
    Callers,    \* threads that activate a task
    MaxNesting, \* bound: acquires of a recursive mutex one thread has outstanding
    MaxThreads, \* bound: threads of one activate
    MaxCalls,   \* bound: calls of activate
    IoLength,   \* bytes an I/O call is to move
    IoBytes,    \* bound: bytes the peer sends, and takes
    PullLength, \* length of a pulled file
    PullChunk,  \* PIPE_CHUNK_SIZE
    PullBuff,   \* size of the agent's recv_buff_
    PullNotes,  \* notifications that fit in the reactor's pipe
    Nil

ASSUME PartsAssumption ==
    /\ Nil \notin Nodes /\ IsFiniteSet(Nodes)
    /\ MaxItems \in Nat /\ Batch \in Nat \ {0}
    /\ Nil \notin Tids /\ IsFiniteSet(Tids)
    /\ Nil \notin Callers
    /\ {MaxNesting, MaxThreads, MaxCalls, IoLength, IoBytes, PullLength, PullNotes} \subseteq Nat
    /\ PullBuff \in Nat \ {0} /\ PullChunk \in Nat /\ PullBuff <= PullChunk

VARIABLES part, v1, v2, v3, v4, v5, v6, v7, v8, v9, v10, v11

state == <<part, v1, v2, v3, v4, v5, v6, v7, v8, v9, v10, v11>>

----------------------------------------------------------------------------
(* Loggers: two modules, one below the other, two outputs and four files,  *)
(* one of which cannot be read.                                            *)
ModuleAncestors == [root |-> {}, main |-> {"root"}, sub |-> {"root", "main"}]
LogConfig(rt, mo, neg, fmode, length, good) ==
    [ok |-> good,
     type |-> [root |-> rt, main |-> {}, sub |-> {"DEBUG"}],
     output |-> [root |-> {"f"}, main |-> mo, sub |-> {}],
     neg |-> [root |-> {}, main |-> {}, sub |-> neg],
     len |-> [root |-> length, main |-> 0, sub |-> 0],
     mode |-> [f |-> fmode, s |-> "stdout"]]
LogConfigs == {LogConfig({"ERROR"}, {}, {}, "files", 0, TRUE),
               LogConfig({"ERROR", "SHUTDOWN"}, {"s"}, {"f"}, "stdout", 5, TRUE),
               LogConfig({}, {"s"}, {"s"}, "shutdown", 0, TRUE),
               LogConfig({}, {}, {}, "files", 0, FALSE)}

(* Log files: a limit of one or two bytes, none or two older files.        *)
FileEntry(n, s, r, p) == [name |-> n, size |-> s, rolloever |-> r, period |-> p]
FileEntries == {FileEntry("a", 2, 2, 0), FileEntry("a", 1, 2, 2), FileEntry("b", 2, 0, 0)}

----------------------------------------------------------------------------
(* The parts.                                                              *)

Uses == INSTANCE CacheDeque WITH
    Items <- Nodes, Null <- Nil, deque_head <- v1, deque_tail <- v2, free_queue <- v3,
    dq_size <- v4, dq_next <- v5, dq_prev <- v6, made <- v7

Pool == INSTANCE BufferManager WITH
    next_ <- v1, buffer_ <- v2, buffer_list_ <- v3, free_buffer_list_ <- v4,
    n_alloced_ <- v5, held <- v6

Mutex == INSTANCE RecursiveMutex WITH
    Threads <- Tids, NoThread <- Nil, mutex_ <- v1, owner_thr_ <- v2,
    nesting_level_ <- v3, at <- v4, held <- v5

Task == INSTANCE TaskBase WITH
    NoOne <- Nil, lock_ <- v1, thr_count_ <- v2, thr <- v3, call <- v4, calls <- v5

Loggers == INSTANCE LogManager WITH
    Modules <- {"root", "sub"}, Ancestors <- ModuleAncestors, Outputs <- {"f", "s"},
    Configs <- LogConfigs, interval <- 1, DefaultLen <- 4, MaxTime <- 3,
    MaxReloads <- 2, None <- Nil, file <- v1, now <- v2, last_check <- v3,
    last_modify <- v4, ini <- v5, loggers <- v6, output_list <- v7, max_len <- v8,
    record_size <- v9, reloads <- v10, toggling <- v11

File == INSTANCE LogFile WITH
    Names <- {"a", "b"}, OutputEntries <- FileEntries, Longest <- 2, MaxBytes <- 5, MaxClock <- 2,
    MaxShort <- 1, None <- Nil, disk <- v1, entry <- v2, log_open <- v3,
    file_size <- v4, last_period <- v5, clock <- v6, written <- v7, interrupted <- v8

Pull == INSTANCE FcachePull WITH
    Length <- PullLength, Chunk <- PullChunk, RecvBuff <- PullBuff,
    PipeSize <- PullNotes, client <- v1, pulling <- v2,
    agent <- v3, step <- v4, susp <- v5, xfer <- v6, pipe <- v7, disk <- v8,
    notes <- v9, fault <- v10, stray <- v11

Stream == INSTANCE StreamIO WITH
    len <- IoLength, iov_len <- 1, MaxBytes <- IoBytes, arrived <- v1, room <- v2, supply <- v3,
    peer_open <- v4, nonblock <- v5, call <- v6, last <- v7

----------------------------------------------------------------------------
PartsInit ==
    \/ part = "deque" /\ Uses!Init /\ v8 = Nil /\ v9 = Nil /\ v10 = Nil /\ v11 = Nil
    \/ part = "blocks" /\ Pool!Init /\ v7 = Nil /\ v8 = Nil /\ v9 = Nil /\ v10 = Nil /\ v11 = Nil
    \/ part = "mutex" /\ Mutex!Init /\ v6 = Nil /\ v7 = Nil /\ v8 = Nil /\ v9 = Nil /\ v10 = Nil /\ v11 = Nil
    \/ part = "task" /\ Task!Init /\ v6 = Nil /\ v7 = Nil /\ v8 = Nil /\ v9 = Nil /\ v10 = Nil /\ v11 = Nil
    \/ part = "loggers" /\ Loggers!Init
    \/ part = "logfile" /\ File!Init /\ v9 = Nil /\ v10 = Nil /\ v11 = Nil
    \/ part = "pull" /\ Pull!Init
    \/ part = "stream" /\ Stream!Init /\ v8 = Nil /\ v9 = Nil /\ v10 = Nil /\ v11 = Nil

PartsNext ==
    /\ UNCHANGED part
    /\ \/ part = "deque" /\ Uses!Next /\ UNCHANGED <<v8, v9, v10, v11>>
       \/ part = "blocks" /\ Pool!Next /\ UNCHANGED <<v7, v8, v9, v10, v11>>
       \/ part = "mutex" /\ Mutex!Next /\ UNCHANGED <<v6, v7, v8, v9, v10, v11>>
       \/ part = "task" /\ Task!Next /\ UNCHANGED <<v6, v7, v8, v9, v10, v11>>
       \/ part = "loggers" /\ Loggers!Next
       \/ part = "logfile" /\ File!Next /\ UNCHANGED <<v9, v10, v11>>
       \/ part = "pull" /\ Pull!Next
       \/ part = "stream" /\ Stream!Next /\ UNCHANGED <<v8, v9, v10, v11>>

CallGoesOn == part = "stream" /\ Stream!Goes_on /\ UNCHANGED <<part, v8, v9, v10, v11>>

(* A thread that is in an I/O call goes on. *)
PartsSpec == PartsInit /\ [][PartsNext]_state /\ WF_state(CallGoesOn)

----------------------------------------------------------------------------
(* Properties.                                                             *)

(* cache_deque, the order in which a cache evicts, and buffer_manager, the pool
   of file blocks: the list is linked both ways, every item is in one list, and
   a block has one owner, after any mixture of calls (LinkedBothWays and
   BlocksApart). *)
ListsSound ==
    /\ part = "deque" => Uses!LinkedBothWays
    /\ part = "blocks" => Pool!BlocksApart

(* recursive_thread_mutex: owner and level are exact although owner_thr_ is read
   without the mutex; task_base::activate lets in one crew of threads at a time
   (Reentrant and FreshCrew). *)
ThreadsSound ==
    /\ part = "mutex" => Mutex!Reentrant
    /\ part = "task" => Task!FreshCrew

(* log_manager and log_to_file: no logger writes to an output that a reload
   deleted, loggers agree on the configuration loaded last, and the files keep
   the newest bytes in order (OutputsAlive, LoggersAgree and KeepsTheNewest). *)
LoggingSound ==
    /\ part = "loggers" => Loggers!OutputsAlive /\ Loggers!LoggersAgree
    /\ part = "logfile" => File!KeepsTheNewest

(* fcache, pull side: up to the first fault neither agent nor transfer uses a
   pipe_buffer after it was closed, and every url is taken off once (PipeHeld
   and UrlRemovedOnce). *)
PipeHeld == part = "pull" => Pull!PipeHeld /\ Pull!UrlRemovedOnce

(* What a step may never do: move the items of a cache_deque among each other,
   write to a log file that has reached its limit, or free a pipe_buffer that
   holds data which nobody tried to write to disk (KeepsUseOrder, WritesWithin
   and FreesTheWritten). *)
NoStepHarms ==
    [][/\ part = "deque" => Uses!MovesOne \/ UNCHANGED Uses!vars
       /\ part = "logfile" => File!WritesWithin
       /\ part = "pull" => Pull!FreesTheWritten]_state

(* recv_n and the other I/O functions: the bytes of the stream and of the buffer
   stay in step (InStep). *)
InStep == part = "stream" => Stream!InStep

(* An I/O call with a timeout returns, whatever the peer does or does not do. *)
TimedCallsReturn ==
    (part = "stream" /\ Stream!InTimedCall) ~> ~(part = "stream" /\ Stream!InTimedCall)
=============================================================================

--------------------------- MODULE RecursiveMutex ---------------------------
(***************************************************************************)
(* recursive_thread_mutex: a plain pthread mutex made recursive by the     *)
(* fields owner_thr_ and nesting_level_.  acquire and try_acquire read     *)
(* owner_thr_ without holding the mutex, so that read races with the       *)
(* owner's writes; a thread id is one machine word, and a racing read      *)
(* returns the value before or after the write.  Every read, write and     *)
(* pthread call is a step of its own.                                      *)
(***************************************************************************)
EXTENDS Integers

CONSTANTS
    Threads,        \* the threads that share the mutex
    NoThread,       \* the id 0 no thread has
    MaxNesting      \* bound: acquires one thread may have outstanding

VARIABLES
    mutex_,         \* the thread that holds the pthread mutex, or NoThread
    owner_thr_,
    nesting_level_,
    at,             \* the next step of each thread
    held            \* ghost: acquires that returned 0 minus releases, per thread

vars == <<mutex_, owner_thr_, nesting_level_, at, held>>

Init ==
    /\ mutex_ = NoThread
    /\ owner_thr_ = NoThread
    /\ nesting_level_ = 0
    /\ at = [t \in Threads |-> "out"]
    /\ held = [t \in Threads |-> 0]

Goto(t, from, to) == at[t] = from /\ at' = [at EXCEPT ![t] = to]

Took(t) == held' = [held EXCEPT ![t] = @ + 1]

(* acquire and try_acquire by the owner: the level goes up, the mutex is not
   touched. *)
acquire_again(t) ==
    /\ Goto(t, "out", "out")
    /\ owner_thr_ = t
    /\ held[t] < MaxNesting
    /\ nesting_level_' = nesting_level_ + 1
    /\ Took(t)
    /\ UNCHANGED <<mutex_, owner_thr_>>

(* acquire by another thread: the test of owner_thr_ fails, the thread goes on
   to pthread_mutex_lock. *)
acquire(t) ==
    /\ Goto(t, "out", "lock")
    /\ owner_thr_ # t
    /\ UNCHANGED <<mutex_, owner_thr_, nesting_level_, held>>

(* try_acquire by another thread, up to pthread_mutex_trylock. *)
try_acquire(t) ==
    /\ Goto(t, "out", "trylock")
    /\ owner_thr_ # t
    /\ UNCHANGED <<mutex_, owner_thr_, nesting_level_, held>>

(* pthread_mutex_lock returns: the mutex was free. *)
Locks(t) ==
    /\ \/ Goto(t, "lock", "own")
       \/ Goto(t, "trylock", "own")
    /\ mutex_ = NoThread
    /\ mutex_' = t
    /\ UNCHANGED <<owner_thr_, nesting_level_, held>>

(* pthread_mutex_trylock finds the mutex taken: try_acquire returns -1. *)
Busy(t) ==
    /\ Goto(t, "trylock", "out")
    /\ mutex_ # NoThread
    /\ UNCHANGED <<mutex_, owner_thr_, nesting_level_, held>>

(* Under the mutex: the owner is written first, then the level. *)
SetOwner(t) ==
    /\ Goto(t, "own", "level")
    /\ owner_thr_' = t
    /\ UNCHANGED <<mutex_, nesting_level_, held>>

SetLevel(t) ==
    /\ Goto(t, "level", "out")
    /\ nesting_level_' = 0
    /\ Took(t)
    /\ UNCHANGED <<mutex_, owner_thr_>>

(* release by a thread that is not the owner returns -1 and changes nothing. *)
release_refused(t) ==
    /\ Goto(t, "out", "out")
    /\ owner_thr_ # t
    /\ UNCHANGED <<mutex_, owner_thr_, nesting_level_, held>>

release_nested(t) ==
    /\ Goto(t, "out", "out")
    /\ owner_thr_ = t
    /\ nesting_level_ > 0
    /\ nesting_level_' = nesting_level_ - 1
    /\ held' = [held EXCEPT ![t] = @ - 1]
    /\ UNCHANGED <<mutex_, owner_thr_>>

(* As release_disown, with owner_thr_ left naming the thread that is about to
   give the mutex up. *)
release_disown_forgets(t) ==
    /\ Goto(t, "out", "unlock")
    /\ owner_thr_ = t
    /\ nesting_level_ = 0
    /\ held' = [held EXCEPT ![t] = @ - 1]
    /\ UNCHANGED <<mutex_, owner_thr_, nesting_level_>>

(* The last release gives the id up first and the mutex second. *)
release_disown(t) ==
    /\ Goto(t, "out", "unlock")
    /\ owner_thr_ = t
    /\ nesting_level_ = 0
    /\ owner_thr_' = NoThread
    /\ held' = [held EXCEPT ![t] = @ - 1]
    /\ UNCHANGED <<mutex_, nesting_level_>>

release_unlock(t) ==
    /\ Goto(t, "unlock", "out")
    /\ mutex_' = NoThread
    /\ UNCHANGED <<owner_thr_, nesting_level_, held>>

Next ==
    \E t \in Threads :
        \/ acquire_again(t)
        \/ acquire(t)
        \/ try_acquire(t)
        \/ Locks(t)
        \/ Busy(t)
        \/ SetOwner(t)
        \/ SetLevel(t)
        \/ release_refused(t)
        \/ release_nested(t)
        \/ release_disown(t)
        \/ release_unlock(t)

Spec == Init /\ [][Next]_vars

(***************************************************************************)
(* Properties                                                              *)
(***************************************************************************)

(* A thread between two calls that still has acquires outstanding holds the
   pthread mutex, is the recorded owner, and the level is one less than the
   number of its acquires: the unlocked read of owner_thr_ never lets a second
   thread in, and no thread's last release comes early or late. *)
Reentrant ==
    \A t \in Threads :
        (at[t] = "out" /\ held[t] > 0) =>
            /\ mutex_ = t
            /\ owner_thr_ = t
            /\ nesting_level_ = held[t] - 1

=============================================================================

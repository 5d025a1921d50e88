------------------------------ MODULE TaskBase ------------------------------
(***************************************************************************)
(* task_base and the thread functions below it: activate starts the        *)
(* threads of a task one pthread_create at a time under lock_, a new       *)
(* thread runs at once and its svc may return before activate has counted  *)
(* it, and cleanup takes it off the count under the same lock.             *)
(***************************************************************************)
EXTENDS Integers, Sequences, FiniteSets, SequencesExt

CONSTANTS
    Callers,        \* threads of the application that call activate and wait
    Tids,           \* thread ids, given out by pthread_create
    NoOne,
    MaxThreads,     \* bound: the n_threads of one activate
    MaxCalls        \* bound: calls of activate

VARIABLES
    lock_,          \* the caller inside activate, or NoOne
    thr_count_,
    thr,            \* each id: "unused", in "svc", in "cleanup" or "ended"
    call,           \* each caller: where it is, its arguments, the ids it got
    calls           \* calls of activate so far

vars == <<lock_, thr_count_, thr, call, calls>>

Outside == [at |-> "out", n |-> 0, left |-> 0, append |-> FALSE, detach |-> FALSE, ids |-> <<>>]

Alive == {t \in Tids : thr[t] \in {"svc", "cleanup"}}

(* Detached threads give their id back when they end, the others when they are
   joined: a thread nobody waits for keeps it. *)
Detached == {t \in Tids : thr[t] # "unused" /\ \A c \in Callers : t \notin ToSet(call[c].ids)}

Init ==
    /\ lock_ = NoOne
    /\ thr_count_ = 0
    /\ thr = [t \in Tids |-> "unused"]
    /\ call = [c \in Callers |-> Outside]
    /\ calls = 0

(* activate, up to the guard: its arguments are n_threads, append_thr and the
   detach flag. *)
activate(c, n, append, detach) ==
    /\ call[c].at = "out"
    /\ call[c].ids = <<>>
    /\ calls < MaxCalls
    /\ calls' = calls + 1
    /\ call' = [call EXCEPT ![c] = [at |-> "lock", n |-> n, left |-> n,
                                    append |-> append, detach |-> detach, ids |-> <<>>]]
    /\ UNCHANGED <<lock_, thr_count_, thr>>

(* Inside the guard: a task that has threads is left alone unless the caller
   appends to it. *)
Decide(c) ==
    /\ call[c].at = "lock"
    /\ IF thr_count_ > 0 /\ ~call[c].append
       THEN call' = [call EXCEPT ![c] = Outside] /\ UNCHANGED lock_
       ELSE call' = [call EXCEPT ![c].at = "spawn"] /\ lock_' = c
    /\ UNCHANGED <<thr_count_, thr, calls>>

(* As Enter, without waiting for the guard. *)
Enter_unguarded(c) == Decide(c)

Enter(c) == lock_ = NoOne /\ Decide(c)

(* thread::spawn creates a thread, which starts in svc_run. *)
spawn(c, t) ==
    /\ call[c].at = "spawn"
    /\ call[c].left > 0
    /\ thr[t] = "unused"
    /\ thr' = [thr EXCEPT ![t] = "svc"]
    /\ call' = [call EXCEPT ![c].left = @ - 1, ![c].ids = Append(@, t)]
    /\ UNCHANGED <<lock_, thr_count_, calls>>

(* thread::spawn fails (stack size or pthread_create): spawn_n stops and returns
   the number it started, which is never -1, so activate goes on as if all had
   been started. *)
spawn_fails(c) ==
    /\ call[c].at = "spawn"
    /\ call[c].left > 0
    /\ call' = [call EXCEPT ![c].left = 0]
    /\ UNCHANGED <<lock_, thr_count_, thr, calls>>

(* The end of activate: n_threads are counted, the guard is released.  Nobody
   keeps the ids of detached threads. *)
Counted(c) ==
    /\ call[c].at = "spawn"
    /\ call[c].left = 0
    /\ thr_count_' = thr_count_ + call[c].n
    /\ lock_' = NoOne
    /\ call' = [call EXCEPT ![c] =
                   IF call[c].detach THEN Outside ELSE [Outside EXCEPT !.ids = call[c].ids]]
    /\ UNCHANGED <<thr, calls>>

(* wait joins the threads in the order of the array; a thread that has not
   ended keeps the caller in pthread_join. *)
wait(c) ==
    /\ call[c].at = "out"
    /\ call[c].ids # <<>>
    /\ LET t == Head(call[c].ids) IN
         /\ thr[t] = "ended"
         /\ thr' = [thr EXCEPT ![t] = "unused"]
    /\ call' = [call EXCEPT ![c].ids = Tail(@)]
    /\ UNCHANGED <<lock_, thr_count_, calls>>

(* svc returns; svc_run goes on to cleanup. *)
svc_run(t) ==
    /\ thr[t] = "svc"
    /\ thr' = [thr EXCEPT ![t] = "cleanup"]
    /\ UNCHANGED <<lock_, thr_count_, call, calls>>

(* cleanup under the guard: off the count, then the close hook; the thread ends
   and the id of a detached one is free again. *)
cleanup(t) ==
    /\ thr[t] = "cleanup"
    /\ lock_ = NoOne
    /\ thr_count_' = thr_count_ - 1
    /\ thr' = [thr EXCEPT ![t] = IF t \in Detached THEN "unused" ELSE "ended"]
    /\ UNCHANGED <<lock_, call, calls>>

Next ==
    \/ \E c \in Callers :
          \/ \E n \in 1..MaxThreads, append, detach \in BOOLEAN : activate(c, n, append, detach)
          \/ Enter(c)
          \/ \E t \in Tids : spawn(c, t)
          \/ spawn_fails(c)
          \/ Counted(c)
          \/ wait(c)
    \/ \E t \in Tids : svc_run(t) \/ cleanup(t)

Spec == Init /\ [][Next]_vars

(***************************************************************************)
(* Properties                                                              *)
(***************************************************************************)

(* A caller of activate that does not append to the task never finds a thread
   of an earlier activation still alive: the count under lock_ lets one crew in
   at a time, however fast a thread ends and whoever else is activating. *)
FreshCrew ==
    \A c \in Callers :
        (call[c].at = "spawn" /\ ~call[c].append) => Alive \subseteq ToSet(call[c].ids)

(* What the comment on thr_count says: outside the guard it is the number of
   threads that run within the task. *)
CountIsRunning == lock_ = NoOne => thr_count_ = Cardinality(Alive)

=============================================================================

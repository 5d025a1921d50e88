---------------------------- MODULE ReactorToken ----------------------------
(***************************************************************************)
(* A reactor shared by threads: ndk::reactor_token, token_guard and the    *)
(* notification pipe (ndk/reactor_token.h, ndk/epoll_reactor.inl,          *)
(* unix_reactor_notify in ndk/unix_reactor.cpp and .inl).                  *)
(*                                                                         *)
(* A thread in handle_events takes the token as a reader and keeps it      *)
(* while it polls and dispatches: it is the leader.  Every other method of *)
(* the reactor takes it as a writer for its duration; one that must sleep  *)
(* runs the sleep hook, which writes to the pipe the leader polls.         *)
(* Handlers run in the leader and call those methods while it holds the    *)
(* token.  A handler does not call handle_events.                          *)
(*                                                                         *)
(* The tuples of unix_reactor_notify are queued and taken together with    *)
(* their bytes under notify_mutex_, so a number stands for both.           *)
(***************************************************************************)
EXTENDS Token

CONSTANTS
    PipeCapacity,   \* bytes the pipe holds; a write beyond them fails
    MaxNotify       \* bound: calls of notify by the program itself

ASSUME ReactorTokenAssumption ==
    /\ PipeCapacity \in Nat \ {0}
    /\ MaxNotify \in Nat
    /\ "timeout" \in Failures

VARIABLES
    where,    \* where[t]: how far t is in handle_events
    pipe,     \* bytes in notification_pipe_, one for each queued tuple
    notified  \* calls of notify by the program so far

reactorVars == <<where, pipe, notified>>
rtVars == <<vars, reactorVars>>

Places == {"out", "entered", "dispatching", "draining"}

\* The types of the reactor's own state; a full pipe takes no further byte and
\* so no further tuple (unix_reactor_notify::notify).
ReactorTypeOK ==
    /\ where \in [Threads -> Places]
    /\ pipe \in 0 .. PipeCapacity
    /\ notified \in Nat

RTInit ==
    /\ Init
    /\ where = [t \in Threads |-> "out"]
    /\ pipe = 0
    /\ notified = 0

\* unix_reactor_notify::notify: one byte and its tuple, or neither.
notify(p) == IF p < PipeCapacity THEN p + 1 ELSE p

\* token_guard's hook for readers, which disturbs nobody.  (As the hook of the
\* writers it would be wrong: see the mutants.)
polite_sleep_hook(p) == p

\* reactor_token::sleep_hook, run by a writer that has to sleep.
sleep_hook(p) == notify(p)

\* notify(eh, msg) called by the program, from any thread that runs.
Notify(t) ==
    /\ ~Sleeping(t)
    /\ where[t] # "entered"
    /\ notified < MaxNotify
    /\ pipe' = notify(pipe)
    /\ notified' = notified + 1
    /\ UNCHANGED <<vars, where>>

\* Mutant: handle_events goes on without looking at is_owner().
EnterUnchecked(t) ==
    /\ where[t] = "out"
    /\ depth[t] = 0
    /\ Acquire(t, "read_token")
    /\ where' = [where EXCEPT ![t] = "entered"]
    /\ UNCHANGED <<pipe, notified>>

\* handle_events: token_guard::acquire_quietly, whose sleep hook is polite.
Enter(t) ==
    /\ where[t] = "out"
    /\ depth[t] = 0
    /\ Acquire(t, "read_token")
    /\ where' = IF opt'[t] = Unused THEN [where EXCEPT ![t] = "entered"] ELSE where
    /\ pipe' = polite_sleep_hook(pipe)
    /\ UNCHANGED notified

\* register_handler, remove_handler, suspend_handler, resume_handler,
\* schedule_timer, cancel_timer and the like: guard<reactor_token>.  If the
\* call has to sleep, reactor_token::sleep_hook wakes the leader.
Modify(t) ==
    /\ where[t] # "entered"
    /\ Acquire(t, "write_token")
    /\ pipe' = IF opt'[t] = Unused THEN pipe ELSE sleep_hook(pipe)
    /\ UNCHANGED <<where, notified>>

\* The token arrives: a reader goes on into handle_events_i.
Woken(t) ==
    /\ Wake(t)
    /\ where' = IF opt[t] = "read_token" /\ owner = t
                THEN [where EXCEPT ![t] = "entered"] ELSE where
    /\ UNCHANGED <<pipe, notified>>

\* max_wait_time passed before the token came: handle_events returns -1, and
\* token_guard has nothing to release.  Writers wait without a timeout.
TimedOut(t) ==
    /\ opt[t] = "read_token"
    /\ WaitFails(t, "timeout")
    /\ UNCHANGED reactorVars

\* poll_events_i returns, for a handle, a timer, the caller's timeout or the
\* pipe; only the pipe is sure to end it.
Poll(t) ==
    /\ where[t] = "entered"
    /\ ~Sleeping(t)
    /\ where' = [where EXCEPT ![t] = "dispatching"]
    /\ UNCHANGED <<vars, pipe, notified>>

\* dispatch_io_events comes to the pipe: unix_reactor_notify::handle_input.
HandleInput(t) ==
    /\ where[t] = "dispatching"
    /\ depth[t] = 1
    /\ ~Sleeping(t)
    /\ pipe > 0
    /\ where' = [where EXCEPT ![t] = "draining"]
    /\ UNCHANGED <<vars, pipe, notified>>

\* read_notify_msg succeeds: a byte and its tuple are gone.
ReadNotifyMsg(t) ==
    /\ where[t] = "draining"
    /\ depth[t] = 1
    /\ ~Sleeping(t)
    /\ pipe > 0
    /\ pipe' = pipe - 1
    /\ UNCHANGED <<vars, where, notified>>

\* read_notify_msg finds the pipe empty and ends the loop.
Drained(t) ==
    /\ where[t] = "draining"
    /\ depth[t] = 1
    /\ ~Sleeping(t)
    /\ pipe = 0
    /\ where' = [where EXCEPT ![t] = "dispatching"]
    /\ UNCHANGED <<vars, pipe, notified>>

\* handle_events returns; ~token_guard releases the token.
Leave(t) ==
    /\ where[t] = "dispatching"
    /\ depth[t] = 1
    /\ Release(t)
    /\ where' = [where EXCEPT ![t] = "out"]
    /\ UNCHANGED <<pipe, notified>>

\* Another method of the reactor returns; ~guard releases the token.
Unlock(t) ==
    /\ where[t] = "out" \/ (where[t] # "entered" /\ depth[t] > 1)
    /\ Release(t)
    /\ UNCHANGED reactorVars

RTNext ==
    \E t \in Threads :
        \/ Notify(t)
        \/ Enter(t)
        \/ Modify(t)
        \/ Woken(t)
        \/ TimedOut(t)
        \/ Poll(t)
        \/ HandleInput(t)
        \/ ReadNotifyMsg(t)
        \/ Drained(t)
        \/ Leave(t)
        \/ Unlock(t)

RTSpec == RTInit /\ [][RTNext]_rtVars

\* The steps that bring a thread to the end of what it is doing.  epoll_wait is
\* sure to return only when the pipe is readable.
Proceed(t) ==
    \/ Woken(t)
    \/ Poll(t) /\ pipe > 0
    \/ ReadNotifyMsg(t)
    \/ Drained(t)
    \/ Leave(t)
    \/ Unlock(t) /\ depth[t] = 1

\* Running threads run on.  Fairness to Proceed is strong since a handler, or a
\* method that makes upcalls, may call into the reactor on the way to its end;
\* it does so finitely often.
RTFairness ==
    \A t \in Threads : SF_rtVars(Proceed(t)) /\ WF_rtVars(Unlock(t))

FairRTSpec == RTSpec /\ RTFairness

----------------------------------------------------------------------------
(* Properties.                                                             *)

Inside(t) == where[t] # "out"

\* At most one thread polls and dispatches at a time, and it is the one that
\* holds the token: what lets handle_events_i touch events_, the repository and
\* the timers without a lock of their own.  Until a wait fails (finding of run
\* token_timeout_exclusion).
SingleLeader ==
    ~failed => \A t \in Threads : Inside(t) =>
                   /\ Holds(t)
                   /\ \A u \in Threads : u # t => ~Inside(u) /\ ~Holds(u)

\* A leader never settles down to poll over the head of a sleeping writer: if
\* one sleeps there is a byte in the pipe, so epoll_wait returns at once
\* (reactor_token::sleep_hook).  The byte must survive the writer's sleeping in
\* before the leader was awake, and a drain by the leader before.
NoSilentLeader ==
    ~failed => \A t \in Threads :
                   where[t] = "entered" /\ (\E u \in Threads : opt[u] = "write_token") => pipe > 0

\* A thread that calls register_handler or any other modifying method gets in
\* although the leader may poll without a timeout for handles that never become
\* ready.
WriterGetsIn == \A t \in Threads : opt[t] = "write_token" ~> (Holds(t) \/ failed)
============================================================================

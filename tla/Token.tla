------------------------------- MODULE Token -------------------------------
(***************************************************************************)
(* ndk::token (ndk/token.h, ndk/token.cpp): the recursive, queueing lock   *)
(* that serialises the threads of a reactor.                               *)
(*                                                                         *)
(* Every method runs under the internal mutex lock_, which is given up     *)
(* only inside condition::wait, so one action stands for the code between  *)
(* two such points:                                                        *)
(*   Acquire    shared_acquire up to the first wait                        *)
(*   Wake       the wait returns 0: the loop test and the rest of the call *)
(*   WaitFails  the wait returns -1 (timeout or error)                     *)
(*   Release    release                                                    *)
(*                                                                         *)
(* A queue entry lives on its thread's stack, so a thread names its entry  *)
(* and a token_queue is a sequence of threads.                             *)
(***************************************************************************)
EXTENDS Integers, Sequences

CONSTANTS
    Threads,      \* threads that use the token
    NullThread,   \* NULL_thread
    Strategy,     \* queueing_strategy_: "FIFO" or "LIFO"
    Failures,     \* how a wait may fail: a subset of {"timeout", "error"}
    MaxDepth      \* bound: nested acquisitions of one thread

ASSUME TokenAssumption ==
    /\ NullThread \notin Threads
    /\ Strategy \in {"FIFO", "LIFO"}
    /\ Failures \subseteq {"timeout", "error"}
    /\ MaxDepth \in Nat \ {0}

OptType == {"read_token", "write_token"}
Unused  == "none"                  \* the value 0 of in_use_

VARIABLES
    in_use,         \* in_use_
    owner,          \* owner_
    nesting_level,  \* nesting_level_
    waiters,        \* waiters_
    writers,        \* writers_
    readers,        \* readers_
    opt,            \* opt[t]: the opt_type t sleeps with, Unused if awake
    runable,        \* threads whose queue entry has runable_ = 1
    signalled,      \* threads whose condition was signalled and not yet consumed
    depth,          \* depth[t]: acquisitions that returned 0 to t, less releases
    failed          \* history: some wait has failed

queueVars == <<waiters, writers, readers>>
entryVars == <<opt, runable, signalled>>
vars == <<in_use, owner, nesting_level, queueVars, entryVars, depth, failed>>

Sleeping(t) == opt[t] # Unused
Elems(q) == {q[i] : i \in DOMAIN q}

TypeOK ==
    /\ in_use \in OptType \cup {Unused}
    /\ owner \in Threads \cup {NullThread}
    /\ nesting_level \in Nat
    /\ waiters \in Nat
    /\ writers \in Seq(Threads)
    /\ readers \in Seq(Threads)
    /\ opt \in [Threads -> OptType \cup {Unused}]
    /\ runable \subseteq Threads
    /\ signalled \subseteq Threads
    /\ depth \in [Threads -> Nat]
    /\ failed \in BOOLEAN

Init ==
    /\ in_use = Unused
    /\ owner = NullThread
    /\ nesting_level = 0
    /\ waiters = 0
    /\ writers = <<>>
    /\ readers = <<>>
    /\ opt = [t \in Threads |-> Unused]
    /\ runable = {}
    /\ signalled = {}
    /\ depth = [t \in Threads |-> 0]
    /\ failed = FALSE

----------------------------------------------------------------------------
(* token_queue.                                                            *)

insert_entry(q, t) == IF Strategy = "LIFO" THEN <<t>> \o q ELSE Append(q, t)

\* The list without the first entry that is t; unchanged when there is none.
remove_entry(q, t) ==
    IF t \notin Elems(q)
    THEN q
    ELSE LET k == CHOOSE i \in DOMAIN q :
                      q[i] = t /\ \A j \in DOMAIN q : j < i => q[j] # t
         IN  [i \in 1 .. (Len(q) - 1) |-> IF i < k THEN q[i] ELSE q[i + 1]]

\* Mutant: the newest writer is served first.
HeirNewest(w, r) == IF w # <<>> THEN w[Len(w)] ELSE IF r # <<>> THEN Head(r) ELSE NullThread

\* The entry wakeup_next_waiter picks: the first writer, else the first reader.
Heir(w, r) == IF w # <<>> THEN Head(w) ELSE IF r # <<>> THEN Head(r) ELSE NullThread

\* Mutant: the heir becomes the owner but its condition is not signalled.
wakeup_unsignalled(w, r, run, sig, gone) ==
    /\ in_use' = IF w # <<>> THEN "write_token"
                 ELSE IF r # <<>> THEN "read_token" ELSE Unused
    /\ owner' = Heir(w, r)
    /\ runable' = (run \cup ({Heir(w, r)} \ {NullThread})) \ gone
    /\ signalled' = sig \ gone

\* Mutant: the heir is signalled but not marked runable.
wakeup_not_runable(w, r, run, sig, gone) ==
    /\ in_use' = IF w # <<>> THEN "write_token"
                 ELSE IF r # <<>> THEN "read_token" ELSE Unused
    /\ owner' = Heir(w, r)
    /\ runable' = run \ gone
    /\ signalled' = (sig \cup ({Heir(w, r)} \ {NullThread})) \ gone

\* wakeup_next_waiter with the queues w and r: the token passes to the heir,
\* whose entry becomes runable and whose condition is signalled; with no
\* waiter the token is free.  run and sig are the entries runable and
\* signalled before the call, gone the thread whose entry leaves the stack.
wakeup_next_waiter(w, r, run, sig, gone) ==
    LET woken == {Heir(w, r)} \ {NullThread}
    IN  /\ in_use' = IF w # <<>> THEN "write_token"
                     ELSE IF r # <<>> THEN "read_token" ELSE Unused
        /\ owner' = Heir(w, r)
        /\ runable' = (run \cup woken) \ gone
        /\ signalled' = (sig \cup woken) \ gone

----------------------------------------------------------------------------
(* shared_acquire.                                                         *)

\* The token is free: take it.
AcquireFree(t, o) ==
    /\ in_use = Unused
    /\ in_use' = o
    /\ owner' = t
    /\ depth' = [depth EXCEPT ![t] = @ + 1]
    /\ UNCHANGED <<nesting_level, queueVars, entryVars>>

\* Mutant: any caller counts as the owner.
AcquireNestedAnyone(t) ==
    /\ in_use # Unused
    /\ nesting_level' = nesting_level + 1
    /\ depth' = [depth EXCEPT ![t] = @ + 1]
    /\ UNCHANGED <<in_use, owner, queueVars, entryVars>>

\* Mutant: a nested acquire is granted but not counted.
AcquireNestedUncounted(t) ==
    /\ in_use # Unused
    /\ owner = t
    /\ depth' = [depth EXCEPT ![t] = @ + 1]
    /\ UNCHANGED <<in_use, owner, nesting_level, queueVars, entryVars>>

\* The caller owns the token already.
AcquireNested(t) ==
    /\ in_use # Unused
    /\ owner = t
    /\ nesting_level' = nesting_level + 1
    /\ depth' = [depth EXCEPT ![t] = @ + 1]
    /\ UNCHANGED <<in_use, owner, queueVars, entryVars>>

\* Queue an entry, run the sleep hook (a no-op in ndk::token) and sleep.
AcquireSleep(t, o) ==
    /\ in_use # Unused
    /\ owner # t
    /\ writers' = IF o = "write_token" THEN insert_entry(writers, t) ELSE writers
    /\ readers' = IF o = "read_token" THEN insert_entry(readers, t) ELSE readers
    /\ waiters' = waiters + 1
    /\ opt' = [opt EXCEPT ![t] = o]
    /\ UNCHANGED <<in_use, owner, nesting_level, runable, signalled, depth>>

Acquire(t, o) ==
    /\ ~Sleeping(t)
    /\ depth[t] < MaxDepth
    /\ \/ AcquireFree(t, o)
       \/ AcquireNested(t)
       \/ AcquireSleep(t, o)
    /\ UNCHANGED failed

\* The caller's entry leaves its queue, whatever the wait returned.
Dequeue(t) ==
    /\ writers' = IF opt[t] = "write_token" THEN remove_entry(writers, t) ELSE writers
    /\ readers' = IF opt[t] = "read_token" THEN remove_entry(readers, t) ELSE readers
    /\ waiters' = waiters - 1
    /\ opt' = [opt EXCEPT ![t] = Unused]

\* wait returned 0 and the token is the caller's: shared_acquire returns 0.
WakeOwner(t) ==
    /\ t \in signalled
    /\ owner = t
    /\ Dequeue(t)
    /\ runable' = runable \ {t}
    /\ signalled' = signalled \ {t}
    /\ depth' = [depth EXCEPT ![t] = @ + 1]
    /\ UNCHANGED <<in_use, owner, nesting_level>>

\* wait returned 0 but the token went elsewhere meanwhile: sleep again.
WakeAgain(t) ==
    /\ t \in signalled
    /\ owner # t
    /\ signalled' = signalled \ {t}
    /\ UNCHANGED <<in_use, owner, nesting_level, queueVars, opt, runable, depth>>

Wake(t) == Sleeping(t) /\ (WakeOwner(t) \/ WakeAgain(t)) /\ UNCHANGED failed

\* wait returned -1.  The code wakes the next waiter while its own entry is
\* still queued, takes the entry out, and after a timeout wakes the next one
\* again if its own entry is runable.  shared_acquire returns -1.
WaitFails(t, why) ==
    /\ Sleeping(t)
    /\ Dequeue(t)
    /\ LET h == Heir(writers, readers)
       IN  IF why = "timeout" /\ t \in runable \cup {h}
           THEN wakeup_next_waiter(writers', readers', runable \cup {h},
                                   signalled \cup {h}, {t})
           ELSE wakeup_next_waiter(writers, readers, runable, signalled, {t})
    /\ failed' = TRUE
    /\ UNCHANGED <<nesting_level, depth>>

\* release, by a thread that holds the token.  token_guard looks whether its
\* acquire returned 0; guard<reactor_token> does not, but waits without a
\* timeout, so that only an error of the wait itself could fool it.
Release(t) ==
    /\ ~Sleeping(t)
    /\ depth[t] > 0
    /\ depth' = [depth EXCEPT ![t] = @ - 1]
    /\ IF nesting_level > 0
       THEN /\ nesting_level' = nesting_level - 1
            /\ UNCHANGED <<in_use, owner, runable, signalled>>
       ELSE /\ wakeup_next_waiter(writers, readers, runable, signalled, {})
            /\ UNCHANGED nesting_level
    /\ UNCHANGED <<queueVars, opt, failed>>

Next ==
    \E t \in Threads :
        \/ \E o \in OptType : Acquire(t, o)
        \/ Wake(t)
        \/ \E why \in Failures : WaitFails(t, why)
        \/ Release(t)

Spec == Init /\ [][Next]_vars

\* The code a thread runs between waits terminates, and a thread that holds
\* the token ends its outermost guard scope: it is not held for ever.
Fairness ==
    \A t \in Threads : /\ WF_vars(Wake(t))
                       /\ WF_vars(Release(t))
                       /\ SF_vars(Release(t) /\ depth[t] = 1)

FairSpec == Spec /\ Fairness

----------------------------------------------------------------------------
(* Properties.                                                             *)

Holds(t) == depth[t] > 0

\* A thread whose acquire returned 0 is the one current_owner() names, and no
\* other thread holds the token: what the reactor relies on to serialise its
\* callers (token.h, "the id of the current thread that owns the token").
ExclusionAlways == \A t \in Threads : Holds(t) => owner = t /\ in_use # Unused

\* The same as long as no wait has failed: wakeup_next_waiter gives the token
\* to a sleeper only when its holder released it for the last time.
MutualExclusion == ~failed => ExclusionAlways

\* nesting_level_ counts the owner's extra acquisitions, so the release that
\* passes the token on is the owner's last one, neither earlier nor later.
NestingExact ==
    ~failed => \A t \in Threads :
                   owner = t => depth[t] = IF Sleeping(t) THEN 0 ELSE nesting_level + 1

\* assert(my_entry.runable_) at the end of shared_acquire: a sleeper that finds
\* itself the owner has been made runable.
RunableWhenOwner == \A t \in Threads : Sleeping(t) /\ owner = t => t \in runable

\* Nobody sleeps behind a token that no thread will pass on: while there are
\* sleepers the token is held, or is on its way to a sleeper that was signalled.
TokenNotLost ==
    (~failed /\ \E t \in Threads : Sleeping(t)) =>
        \E t \in Threads : owner = t /\ (Holds(t) \/ (Sleeping(t) /\ t \in signalled))

\* The token is passed on neither early, nor late, nor to nobody: nesting is
\* exact and the token is never lost, as long as no wait has failed.
TokenKept == NestingExact /\ TokenNotLost

\* The queues hold exactly the sleepers, once each, in the queue of their kind,
\* and waiters_ counts them (token::waiters).
QueuesMatchSleepers ==
    /\ Elems(writers) = {t \in Threads : opt[t] = "write_token"}
    /\ Elems(readers) = {t \in Threads : opt[t] = "read_token"}
    /\ \A q \in {writers, readers} : \A i, j \in DOMAIN q : q[i] = q[j] => i = j
    /\ waiters = Len(writers) + Len(readers)

\* The queueing promise of the FIFO strategy: an acquire cannot overtake a
\* writer that sleeps already, so ownership passes to a sleeping writer's
\* junior only after the writer itself had the token or gave up.
NoOvertaking ==
    [][\A t \in Threads : (~failed' /\ opt[t] = "write_token" /\ opt'[t] = "write_token" /\ owner' # owner)
          => owner' \in Threads /\
             (owner' = t \/ \E i, j \in DOMAIN writers :
                  writers[i] = owner' /\ writers[j] = t /\ i < j)]_vars

\* A thread that asked for the write token gets it, whatever the others do, as
\* long as no wait fails.
WriterServed == \A t \in Threads : opt[t] = "write_token" ~> (Holds(t) \/ failed)

\* The FIFO strategy is fair to writers: nobody overtakes one, and its turn
\* comes.
WritersInTurn == NoOvertaking /\ WriterServed
============================================================================

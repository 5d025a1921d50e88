---------------------------- MODULE SynchProofs ----------------------------
(***************************************************************************)
(* Theorems about the parts that block threads: ndk::token, for every      *)
(* number of threads and both queueing strategies; ReactorToken, for any   *)
(* pipe as well; and ndk::message_queue.  Every step of the reactor is a   *)
(* step of the token or leaves it alone, so what is shown of the token     *)
(* holds of a reactor's threads too.                                       *)
(***************************************************************************)
EXTENDS ReactorToken, MessageQueue, FiniteSetTheorems, TLAPS

NoDup(q) == \A i, j \in DOMAIN q : q[i] = q[j] => i = j

\* The queue of each kind holds the sleepers of that kind, once each.
QueueInv(q, o) ==
    /\ q \in Seq(Threads)
    /\ Elems(q) = {t \in Threads : opt[t] = o}
    /\ NoDup(q)

\* What inserting an entry does to a token_queue, at either end.
LEMMA InsertEntry ==
    ASSUME NEW q \in Seq(Threads), NEW t \in Threads, NoDup(q), t \notin Elems(q)
    PROVE  /\ insert_entry(q, t) \in Seq(Threads)
           /\ Elems(insert_entry(q, t)) = Elems(q) \cup {t}
           /\ NoDup(insert_entry(q, t))
           /\ Len(insert_entry(q, t)) = Len(q) + 1
<1>1. CASE Strategy = "LIFO"
  <2> DEFINE p == <<t>> \o q
  <2>1. /\ p \in Seq(Threads) /\ Len(p) = Len(q) + 1
        /\ DOMAIN p = 1 .. Len(q) + 1 /\ DOMAIN q = 1 .. Len(q) /\ Len(q) \in Nat
        /\ p[1] = t /\ \A i \in 1 .. Len(q) : p[i + 1] = q[i]
    OBVIOUS
  <2> HIDE DEF p
  <2>2. Elems(p) = Elems(q) \cup {t}
    <3>1. ASSUME NEW i \in DOMAIN p PROVE p[i] \in Elems(q) \cup {t}
      <4>1. i = 1 \/ (i - 1 \in 1 .. Len(q) /\ p[i] = q[i - 1])
        BY <2>1
      <4> QED BY <4>1, <2>1 DEF Elems
    <3>2. ASSUME NEW i \in DOMAIN q PROVE q[i] \in Elems(p)
      BY <2>1 DEF Elems
    <3>3. t \in Elems(p)
      <4>1. 1 \in DOMAIN p /\ p[1] = t
        BY <2>1
      <4> QED BY <4>1 DEF Elems
    <3> QED BY <3>1, <3>2, <3>3 DEF Elems
  <2>3. NoDup(p)
    <3> SUFFICES ASSUME NEW i \in DOMAIN p, NEW j \in DOMAIN p, p[i] = p[j] PROVE i = j
      BY DEF NoDup
    <3>1. /\ i = 1 \/ (i - 1 \in 1 .. Len(q) /\ p[i] = q[i - 1])
          /\ j = 1 \/ (j - 1 \in 1 .. Len(q) /\ p[j] = q[j - 1])
      BY <2>1
    <3> QED BY <3>1, <2>1 DEF Elems, NoDup
  <2> QED BY <1>1, <2>1, <2>2, <2>3 DEF insert_entry, p
<1>2. CASE Strategy # "LIFO"
  <2> DEFINE p == Append(q, t)
  <2>1. /\ p \in Seq(Threads) /\ Len(p) = Len(q) + 1
        /\ DOMAIN p = 1 .. Len(q) + 1 /\ DOMAIN q = 1 .. Len(q) /\ Len(q) \in Nat
        /\ p[Len(q) + 1] = t /\ \A i \in 1 .. Len(q) : p[i] = q[i]
    OBVIOUS
  <2> HIDE DEF p
  <2>2. Elems(p) = Elems(q) \cup {t}
    BY <2>1 DEF Elems
  <2>3. NoDup(p)
    BY <2>1 DEF NoDup, Elems
  <2> QED BY <1>2, <2>1, <2>2, <2>3 DEF insert_entry, p
<1> QED BY <1>1, <1>2

\* What taking an entry out of a token_queue leaves.
LEMMA RemoveEntry ==
    ASSUME NEW q \in Seq(Threads), NEW t \in Elems(q), NoDup(q)
    PROVE  /\ remove_entry(q, t) \in Seq(Threads)
           /\ Elems(remove_entry(q, t)) = Elems(q) \ {t}
           /\ NoDup(remove_entry(q, t))
           /\ Len(remove_entry(q, t)) = Len(q) - 1
           /\ Len(q) > 0
<1>0. DOMAIN q = 1 .. Len(q) /\ Len(q) \in Nat
  OBVIOUS
<1> DEFINE IsFirst(i) == q[i] = t /\ \A j \in DOMAIN q : j < i => q[j] # t
           k == CHOOSE i \in DOMAIN q : IsFirst(i)
           p == [i \in 1 .. (Len(q) - 1) |-> IF i < k THEN q[i] ELSE q[i + 1]]
<1>1. k \in DOMAIN q /\ q[k] = t
  <2>1. PICK i \in DOMAIN q : q[i] = t
    BY DEF Elems
  <2>2. \A j \in DOMAIN q : j < i => q[j] # t
    BY <2>1, <1>0 DEF NoDup
  <2>3. IsFirst(i)
    BY <2>1, <2>2
  <2> HIDE DEF IsFirst
  <2>4. k \in DOMAIN q /\ IsFirst(k)
    BY <2>3
  <2> QED BY <2>4 DEF IsFirst
<1>2. remove_entry(q, t) = p
  BY DEF remove_entry
<1> HIDE DEF k
<1>3. p \in Seq(Threads) /\ Len(p) = Len(q) - 1 /\ DOMAIN p = 1 .. Len(q) - 1 /\ Len(q) > 0
  <2>1. Len(q) > 0 /\ Len(q) - 1 \in Nat
    BY <1>0, <1>1
  <2>2. \A i \in 1 .. Len(q) - 1 : p[i] \in Threads
    BY <1>0, <1>1
  <2> QED BY <2>1, <2>2
<1>4. \A i \in DOMAIN p : p[i] = IF i < k THEN q[i] ELSE q[i + 1]
  BY <1>3
<1> HIDE DEF p
<1>5. Elems(p) = Elems(q) \ {t}
  <2>1. ASSUME NEW i \in DOMAIN p PROVE p[i] \in Elems(q) \ {t}
    BY <1>0, <1>1, <1>3, <1>4 DEF Elems, NoDup
  <2>2. ASSUME NEW i \in DOMAIN q, q[i] # t PROVE q[i] \in Elems(p)
    <3>1. CASE i < k
      BY <3>1, <1>0, <1>1, <1>3, <1>4 DEF Elems
    <3>2. CASE i > k
      <4>1. i - 1 \in DOMAIN p /\ p[i - 1] = q[i]
        BY <3>2, <1>0, <1>1, <1>3, <1>4
      <4> QED BY <4>1 DEF Elems
    <3> QED BY <3>1, <3>2, <2>2, <1>0, <1>1
  <2> QED BY <2>1, <2>2 DEF Elems
<1>6. NoDup(p)
  BY <1>0, <1>1, <1>3, <1>4, SMTT(20) DEF NoDup
<1> QED BY <1>2, <1>3, <1>5, <1>6

----------------------------------------------------------------------------
(* The queues.  Holds whether or not waits fail.                           *)

QInv ==
    /\ TypeOK
    /\ QueueInv(writers, "write_token")
    /\ QueueInv(readers, "read_token")
    /\ waiters = Len(writers) + Len(readers)

\* A thread that sleeps is not the owner unless its entry is runable.
IInv == QInv /\ RunableWhenOwner

\* The heir is a sleeper, or there is none.
LEMMA HeirSleeps ==
    ASSUME NEW w \in Seq(Threads), NEW r \in Seq(Threads)
    PROVE  /\ Heir(w, r) \in Threads \cup {NullThread}
           /\ Heir(w, r) # NullThread => Heir(w, r) \in Elems(w) \cup Elems(r)
           /\ w = <<>> /\ r = <<>> <=> Heir(w, r) = NullThread
<1>1. ASSUME NEW q \in Seq(Threads), q # <<>> PROVE Head(q) \in Threads /\ Head(q) \in Elems(q)
  <2>1. Len(q) \in Nat \ {0} /\ DOMAIN q = 1 .. Len(q) /\ Head(q) = q[1]
    BY <1>1
  <2> QED BY <2>1 DEF Elems
<1> QED BY <1>1, TokenAssumption DEF Heir

\* The initial state satisfies the invariant.
LEMMA InitIInv == Init => IInv
<1> SUFFICES ASSUME Init PROVE IInv
  OBVIOUS
<1>1. failed \in BOOLEAN
  BY DEF Init
<1>2. TypeOK
  <2> HIDE DEF Init
  <2>1. /\ in_use = Unused /\ owner = NullThread /\ nesting_level = 0 /\ waiters = 0
        /\ writers = <<>> /\ readers = <<>> /\ opt = [t \in Threads |-> Unused]
        /\ runable = {} /\ signalled = {} /\ depth = [t \in Threads |-> 0]
    BY DEF Init
  <2> QED BY <1>1, <2>1 DEF TypeOK, OptType, Unused
<1>3. /\ QueueInv(writers, "write_token") /\ QueueInv(readers, "read_token")
      /\ waiters = Len(writers) + Len(readers) /\ RunableWhenOwner
  BY TokenAssumption DEF Init, QueueInv, NoDup, Elems, RunableWhenOwner, Sleeping, Unused
<1> QED BY <1>2, <1>3 DEF IInv, QInv

\* Dequeue keeps the queues exact.
LEMMA DequeueQueues ==
    ASSUME QInv, NEW t \in Threads, Sleeping(t), Dequeue(t)
    PROVE  /\ QueueInv(writers, "write_token")'
           /\ QueueInv(readers, "read_token")'
           /\ waiters' = Len(writers') + Len(readers')
           /\ waiters' \in Nat
           /\ opt' \in [Threads -> OptType \cup {Unused}]
           /\ opt' = [opt EXCEPT ![t] = Unused]
<1> USE DEF QInv, TypeOK, Sleeping, OptType, Unused
<1>1. opt[t] = "write_token" \/ opt[t] = "read_token"
  OBVIOUS
<1>2. /\ opt' = [opt EXCEPT ![t] = "none"]
      /\ opt' \in [Threads -> OptType \cup {Unused}]
      /\ Len(writers) \in Nat /\ Len(readers) \in Nat
  BY DEF Dequeue
<1>3. CASE opt[t] = "write_token"
  <2>1. t \in Elems(writers) /\ writers \in Seq(Threads) /\ NoDup(writers)
    BY <1>3 DEF QueueInv
  <2>2. writers' = remove_entry(writers, t) /\ readers' = readers /\ waiters' = waiters - 1
    BY <1>3 DEF Dequeue
  <2>3. /\ writers' \in Seq(Threads) /\ Elems(writers') = Elems(writers) \ {t}
        /\ NoDup(writers') /\ Len(writers') = Len(writers) - 1 /\ Len(writers) > 0
    BY <2>1, <2>2, RemoveEntry
  <2>4. QueueInv(writers, "write_token")'
    BY <2>3, <1>2, <1>3 DEF QueueInv, NoDup, Elems
  <2>5. QueueInv(readers, "read_token")'
    BY <2>2, <1>2, <1>3 DEF QueueInv, NoDup, Elems
  <2> QED BY <2>2, <2>3, <2>4, <2>5, <1>2
<1>4. CASE opt[t] = "read_token"
  <2>1. t \in Elems(readers) /\ readers \in Seq(Threads) /\ NoDup(readers)
    BY <1>4 DEF QueueInv
  <2>2. readers' = remove_entry(readers, t) /\ writers' = writers /\ waiters' = waiters - 1
    BY <1>4 DEF Dequeue
  <2>3. /\ readers' \in Seq(Threads) /\ Elems(readers') = Elems(readers) \ {t}
        /\ NoDup(readers') /\ Len(readers') = Len(readers) - 1 /\ Len(readers) > 0
    BY <2>1, <2>2, RemoveEntry
  <2>4. QueueInv(readers, "read_token")'
    BY <2>3, <1>2, <1>4 DEF QueueInv, NoDup, Elems
  <2>5. QueueInv(writers, "write_token")'
    BY <2>2, <1>2, <1>4 DEF QueueInv, NoDup, Elems
  <2> QED BY <2>2, <2>3, <2>4, <2>5, <1>2
<1> QED BY <1>1, <1>3, <1>4

\* AcquireSleep keeps the queues exact.
LEMMA SleepQueues ==
    ASSUME QInv, NEW t \in Threads, ~Sleeping(t), NEW o \in OptType, AcquireSleep(t, o)
    PROVE  /\ QueueInv(writers, "write_token")'
           /\ QueueInv(readers, "read_token")'
           /\ waiters' = Len(writers') + Len(readers')
           /\ waiters' \in Nat
           /\ opt' \in [Threads -> OptType \cup {Unused}]
           /\ opt' = [opt EXCEPT ![t] = o]
<1> USE DEF QInv, TypeOK, Sleeping, OptType, Unused
<1>2. /\ opt' = [opt EXCEPT ![t] = o]
      /\ opt' \in [Threads -> OptType \cup {Unused}]
      /\ Len(writers) \in Nat /\ Len(readers) \in Nat
      /\ waiters' = waiters + 1
  BY DEF AcquireSleep
<1>3. CASE o = "write_token"
  <2>1. t \notin Elems(writers) /\ writers \in Seq(Threads) /\ NoDup(writers)
    BY <1>3 DEF QueueInv
  <2>2. writers' = insert_entry(writers, t) /\ readers' = readers
    BY <1>3 DEF AcquireSleep
  <2>3. /\ writers' \in Seq(Threads) /\ Elems(writers') = Elems(writers) \cup {t}
        /\ NoDup(writers') /\ Len(writers') = Len(writers) + 1
    BY <2>1, <2>2, InsertEntry
  <2>4. QueueInv(writers, "write_token")'
    <3>1. {x \in Threads : opt'[x] = "write_token"} = {x \in Threads : opt[x] = "write_token"} \cup {t}
      BY <1>2, <1>3
    <3>2. Elems(writers') = {x \in Threads : opt'[x] = "write_token"}
      BY <3>1, <2>3 DEF QueueInv
    <3> QED BY <3>2, <2>3 DEF QueueInv, NoDup, Elems
  <2>5. QueueInv(readers, "read_token")'
    BY <2>2, <1>2, <1>3 DEF QueueInv, NoDup, Elems
  <2> QED BY <2>2, <2>3, <2>4, <2>5, <1>2
<1>4. CASE o = "read_token"
  <2>1. t \notin Elems(readers) /\ readers \in Seq(Threads) /\ NoDup(readers)
    BY <1>4 DEF QueueInv
  <2>2. readers' = insert_entry(readers, t) /\ writers' = writers
    BY <1>4 DEF AcquireSleep
  <2>3. /\ readers' \in Seq(Threads) /\ Elems(readers') = Elems(readers) \cup {t}
        /\ NoDup(readers') /\ Len(readers') = Len(readers) + 1
    BY <2>1, <2>2, InsertEntry
  <2>4. QueueInv(readers, "read_token")'
    <3>1. {x \in Threads : opt'[x] = "read_token"} = {x \in Threads : opt[x] = "read_token"} \cup {t}
      BY <1>2, <1>4
    <3>2. Elems(readers') = {x \in Threads : opt'[x] = "read_token"}
      BY <3>1, <2>3 DEF QueueInv
    <3> QED BY <3>2, <2>3 DEF QueueInv, NoDup, Elems
  <2>5. QueueInv(writers, "write_token")'
    BY <2>2, <1>2, <1>4 DEF QueueInv, NoDup, Elems
  <2> QED BY <2>2, <2>3, <2>4, <2>5, <1>2
<1> QED BY <1>3, <1>4

\* Handing the token on leaves a well-typed owner whose entry, if it sleeps,
\* is runable.
LEMMA WakeupTypes ==
    ASSUME TypeOK, NEW w \in Seq(Threads), NEW r \in Seq(Threads),
           NEW run \in SUBSET Threads, NEW sig \in SUBSET Threads, NEW gone \in SUBSET Threads,
           wakeup_next_waiter(w, r, run, sig, gone)
    PROVE  /\ in_use' \in OptType \cup {Unused}
           /\ owner' = Heir(w, r)
           /\ owner' \in Threads \cup {NullThread}
           /\ runable' \in SUBSET Threads
           /\ signalled' \in SUBSET Threads
           /\ owner' \in Threads => owner' \in runable' \cup gone /\ owner' \in signalled' \cup gone
  BY HeirSleeps, TokenAssumption DEF wakeup_next_waiter, OptType, Unused

\* One step keeps the invariant; each action disturbs the queues, the owner
\* or the runable entries, never all of them at once except WaitFails.
LEMMA NextIInv == IInv /\ [Next]_vars => IInv'
<1> SUFFICES ASSUME IInv, [Next]_vars PROVE IInv'
  OBVIOUS
<1> USE DEF IInv, QInv
<1>t. TypeOK
  OBVIOUS
<1>1. ASSUME NEW t \in Threads, NEW o \in OptType, Acquire(t, o) PROVE IInv'
  <2>1. CASE AcquireFree(t, o)
    BY <1>1, <2>1 DEF Acquire, AcquireFree, TypeOK, QueueInv, RunableWhenOwner, Sleeping,
       queueVars, entryVars, Elems, NoDup
  <2>2. CASE AcquireNested(t)
    <3>1. UNCHANGED <<in_use, owner, queueVars, entryVars>>
      BY <2>2 DEF AcquireNested
    <3>2. depth' \in [Threads -> Nat] /\ nesting_level' \in Nat
      BY <1>1, <1>t, <2>2 DEF AcquireNested, TypeOK
    <3>3. failed' = failed
      BY <1>1, <2>2, <3>1 DEF AcquireNested, Acquire, queueVars, entryVars
    <3>4. UNCHANGED <<writers, readers, waiters, opt, owner, runable, signalled>>
      BY <3>1 DEF queueVars, entryVars
    <3>5. QueueInv(writers, "write_token")' /\ QueueInv(readers, "read_token")'
      BY <3>4 DEF QueueInv, Elems, NoDup
    <3>6. RunableWhenOwner'
      BY <3>4 DEF RunableWhenOwner, Sleeping
    <3>7. TypeOK'
      BY <1>t, <3>1, <3>2, <3>4, <3>3 DEF TypeOK
    <3> QED BY <3>4, <3>5, <3>6, <3>7
  <2>3. CASE AcquireSleep(t, o)
    <3>1. /\ QueueInv(writers, "write_token")'
          /\ QueueInv(readers, "read_token")'
          /\ waiters' = Len(writers') + Len(readers')
          /\ waiters' \in Nat
          /\ opt' \in [Threads -> OptType \cup {Unused}]
          /\ opt' = [opt EXCEPT ![t] = o]
      BY <1>1, <2>3, SleepQueues DEF Acquire
    <3>2. TypeOK'
      BY <1>1, <3>1, <2>3 DEF Acquire, AcquireSleep, TypeOK, QueueInv
    <3>3. RunableWhenOwner'
      BY <3>1, <2>3 DEF AcquireSleep, TypeOK, RunableWhenOwner, Sleeping
    <3> QED BY <3>1, <3>2, <3>3
  <2> QED BY <1>1, <2>1, <2>2, <2>3 DEF Acquire
<1>2. ASSUME NEW t \in Threads, Wake(t) PROVE IInv'
  <2>1. CASE WakeOwner(t)
    <3>1. /\ QueueInv(writers, "write_token")'
          /\ QueueInv(readers, "read_token")'
          /\ waiters' = Len(writers') + Len(readers')
          /\ waiters' \in Nat
          /\ opt' \in [Threads -> OptType \cup {Unused}]
          /\ opt' = [opt EXCEPT ![t] = Unused]
      BY <1>2, <2>1, DequeueQueues DEF Wake, WakeOwner
    <3>2. TypeOK'
      BY <1>2, <3>1, <2>1 DEF Wake, WakeOwner, TypeOK, QueueInv
    <3>3. RunableWhenOwner'
      BY <3>1, <2>1 DEF WakeOwner, TypeOK, RunableWhenOwner, Sleeping
    <3> QED BY <3>1, <3>2, <3>3
  <2>2. CASE WakeAgain(t)
    BY <1>2, <2>2 DEF Wake, WakeAgain, TypeOK, QueueInv, RunableWhenOwner, Sleeping, queueVars, Elems, NoDup
  <2> QED BY <1>2, <2>1, <2>2 DEF Wake
<1>3. ASSUME NEW t \in Threads, NEW why \in Failures, WaitFails(t, why) PROVE IInv'
  <2> DEFINE h == Heir(writers, readers)
  <2>1. /\ QueueInv(writers, "write_token")'
        /\ QueueInv(readers, "read_token")'
        /\ waiters' = Len(writers') + Len(readers')
        /\ waiters' \in Nat
        /\ opt' \in [Threads -> OptType \cup {Unused}]
        /\ opt' = [opt EXCEPT ![t] = Unused]
    BY <1>3, DequeueQueues DEF WaitFails
  <2>2. h \in Threads
    <3>1. t \in Elems(writers) \cup Elems(readers)
      BY <1>3 DEF WaitFails, Sleeping, TypeOK, QueueInv, OptType
    <3>2. ~(writers = <<>> /\ readers = <<>>)
      BY <3>1 DEF Elems
    <3> QED BY <3>2, HeirSleeps DEF TypeOK
  <2>3. /\ in_use' \in OptType \cup {Unused}
        /\ owner' \in Threads \cup {NullThread}
        /\ runable' \in SUBSET Threads
        /\ signalled' \in SUBSET Threads
        /\ owner' \in Threads => owner' \in runable' \cup {t}
    <3> HIDE DEF h
    <3>1. CASE why = "timeout" /\ t \in runable \cup {h}
      <4>1. wakeup_next_waiter(writers', readers', runable \cup {h}, signalled \cup {h}, {t})
        BY <1>3, <3>1 DEF WaitFails, h
      <4>2. /\ writers' \in Seq(Threads) /\ readers' \in Seq(Threads)
            /\ runable \cup {h} \in SUBSET Threads /\ signalled \cup {h} \in SUBSET Threads
            /\ {t} \in SUBSET Threads
        BY <2>1, <2>2 DEF QueueInv, TypeOK
      <4> QED BY <1>t, <4>1, <4>2, WakeupTypes
    <3>2. CASE ~(why = "timeout" /\ t \in runable \cup {h})
      <4>1. wakeup_next_waiter(writers, readers, runable, signalled, {t})
        BY <1>3, <3>2 DEF WaitFails, h
      <4>2. /\ writers \in Seq(Threads) /\ readers \in Seq(Threads)
            /\ runable \in SUBSET Threads /\ signalled \in SUBSET Threads
            /\ {t} \in SUBSET Threads
        BY DEF TypeOK
      <4> QED BY <1>t, <4>1, <4>2, WakeupTypes
    <3> QED BY <3>1, <3>2
  <2>4. TypeOK'
    BY <1>3, <2>1, <2>3 DEF WaitFails, TypeOK, QueueInv
  <2>5. RunableWhenOwner'
    BY <2>1, <2>3 DEF RunableWhenOwner, Sleeping, TypeOK
  <2> QED BY <2>1, <2>4, <2>5
<1>4. ASSUME NEW t \in Threads, Release(t) PROVE IInv'
  <2>1. /\ UNCHANGED <<writers, readers, waiters, opt>>
        /\ depth' \in [Threads -> Nat]
        /\ failed' = failed
    BY <1>4 DEF Release, queueVars, TypeOK
  <2>2. CASE nesting_level > 0
    BY <1>4, <2>1, <2>2, SMTT(20) DEF Release, TypeOK, QueueInv, RunableWhenOwner, Sleeping, Elems, NoDup
  <2>3. CASE ~(nesting_level > 0)
    <3>1. wakeup_next_waiter(writers, readers, runable, signalled, {}) /\ nesting_level' = nesting_level
      BY <1>4, <2>3 DEF Release
    <3>2. /\ in_use' \in OptType \cup {Unused}
          /\ owner' \in Threads \cup {NullThread}
          /\ runable' \in SUBSET Threads
          /\ signalled' \in SUBSET Threads
          /\ owner' \in Threads => owner' \in runable'
      <4>1. /\ writers \in Seq(Threads) /\ readers \in Seq(Threads)
            /\ runable \in SUBSET Threads /\ signalled \in SUBSET Threads
            /\ {} \in SUBSET Threads
        BY DEF TypeOK
      <4> QED BY <1>t, <3>1, <4>1, WakeupTypes
    <3>3. TypeOK'
      BY <2>1, <3>1, <3>2 DEF TypeOK
    <3>4. RunableWhenOwner'
      BY <3>2 DEF RunableWhenOwner
    <3> QED BY <2>1, <3>3, <3>4 DEF QueueInv, Elems, NoDup
  <2> QED BY <2>2, <2>3
<1>5. CASE UNCHANGED vars
  BY <1>5 DEF vars, queueVars, entryVars, TypeOK, QueueInv, RunableWhenOwner, Sleeping, Elems, NoDup
<1> QED BY <1>1, <1>2, <1>3, <1>4, <1>5 DEF Next

\* Every reachable state satisfies the invariant of the queues.
LEMMA IInvInvariant == Spec => []IInv
  BY InitIInv, NextIInv, PTL DEF Spec

\* The state of a token is always well typed; in particular waiters_ never
\* goes below zero, whatever mix of timeouts and wakeups happens.
THEOREM TypeCorrect == Spec => []TypeOK
<1>1. IInv => TypeOK
  BY DEF IInv, QInv
<1> QED BY <1>1, IInvInvariant, PTL

\* The queues hold exactly the sleeping threads, once each, and waiters_
\* counts them, also when waits time out or fail (token.cpp: remove_entry is
\* reached on every path out of the wait).
THEOREM QueuesExact == Spec => []QueuesMatchSleepers
<1>1. IInv => QueuesMatchSleepers
  BY DEF IInv, QInv, QueueInv, QueuesMatchSleepers, NoDup
<1> QED BY <1>1, IInvInvariant, PTL

\* assert(my_entry.runable_) in shared_acquire cannot fail, timeouts included.
THEOREM RunableAssertion == Spec => []RunableWhenOwner
<1>1. IInv => RunableWhenOwner
  BY DEF IInv
<1> QED BY <1>1, IInvInvariant, PTL

----------------------------------------------------------------------------
(* Exclusion, until a wait fails.                                          *)

\* Inductive strengthening: a free token has no sleepers and no nesting left
\* over; the owner either holds it or sleeps, signalled, with nothing held.
MInv ==
    /\ in_use = Unused <=> owner = NullThread
    /\ owner = NullThread => writers = <<>> /\ readers = <<>> /\ nesting_level = 0
    /\ NestingExact
    /\ \A t \in Threads : owner = t /\ Sleeping(t) => nesting_level = 0 /\ t \in signalled
    /\ \A t \in Threads : owner # t => depth[t] = 0

\* An empty queue is one with no element.
LEMMA EmptyElems ==
    ASSUME NEW q \in Seq(Threads)
    PROVE  q = <<>> <=> Elems(q) = {}
<1>1. q # <<>> => 1 \in DOMAIN q
  OBVIOUS
<1> QED BY <1>1 DEF Elems

\* One step keeps the strengthening unless a wait fails in it.
LEMMA NextMInv == IInv /\ (~failed => MInv) /\ [Next]_vars => (~failed' => MInv')
<1> SUFFICES ASSUME IInv, ~failed => MInv, [Next]_vars, ~failed' PROVE MInv'
  OBVIOUS
<1>w. ASSUME NEW t \in Threads, NEW why \in Failures, WaitFails(t, why) PROVE FALSE
  BY <1>w DEF WaitFails
<1>f. ~failed
  BY <1>w DEF Next, Acquire, Wake, Release, vars
<1>m. MInv
  BY <1>f
<1>t. TypeOK /\ QueueInv(writers, "write_token") /\ QueueInv(readers, "read_token")
  BY DEF IInv, QInv
<1>n. NullThread \notin Threads
  BY TokenAssumption
<1>1. ASSUME NEW t \in Threads, NEW o \in OptType, Acquire(t, o) PROVE MInv'
  <2>1. CASE AcquireFree(t, o)
    BY <1>1, <1>t, <1>n, <2>1, <1>m, <1>f DEF Acquire, AcquireFree, MInv, NestingExact, Sleeping,
       TypeOK, OptType, Unused, queueVars, entryVars
  <2>2. CASE AcquireNested(t)
    BY <1>1, <1>t, <1>n, <2>2, <1>m, <1>f DEF Acquire, AcquireNested, MInv, NestingExact, Sleeping,
       TypeOK, queueVars, entryVars
  <2>3. CASE AcquireSleep(t, o)
    <3>1. owner \in Threads /\ owner # t /\ UNCHANGED <<in_use, owner, nesting_level, signalled, depth>>
      BY <1>t, <2>3, <1>m, <1>f DEF AcquireSleep, MInv, TypeOK
    <3>2. opt' = [opt EXCEPT ![t] = o]
      BY <2>3 DEF AcquireSleep
    <3> QED BY <3>1, <3>2, <1>t, <1>n, <1>m, <1>f DEF MInv, NestingExact, Sleeping, TypeOK
  <2> QED BY <1>1, <2>1, <2>2, <2>3 DEF Acquire
<1>2. ASSUME NEW t \in Threads, Wake(t) PROVE MInv'
  <2>1. CASE WakeOwner(t)
    <3>1. /\ owner = t /\ depth[t] = 0 /\ nesting_level = 0
          /\ opt' = [opt EXCEPT ![t] = Unused]
          /\ depth' = [depth EXCEPT ![t] = depth[t] + 1]
          /\ UNCHANGED <<in_use, owner, nesting_level>>
      BY <1>2, <2>1, <1>m, <1>f DEF Wake, WakeOwner, Dequeue, MInv, NestingExact
    <3> QED BY <3>1, <1>t, <1>n, <1>m, <1>f DEF MInv, NestingExact, Sleeping, TypeOK
  <2>2. CASE WakeAgain(t)
    BY <2>2, <1>t, <1>m, <1>f DEF WakeAgain, MInv, NestingExact, Sleeping, queueVars, TypeOK
  <2> QED BY <1>2, <2>1, <2>2 DEF Wake
<1>3. ASSUME NEW t \in Threads, Release(t) PROVE MInv'
  <2>1. /\ owner = t /\ ~Sleeping(t) /\ depth[t] = nesting_level + 1
        /\ UNCHANGED <<writers, readers, opt>>
        /\ depth' = [depth EXCEPT ![t] = depth[t] - 1]
    BY <1>3, <1>t, <1>m, <1>f DEF Release, MInv, NestingExact, queueVars, TypeOK
  <2>2. CASE nesting_level > 0
    BY <1>3, <1>t, <1>n, <2>1, <2>2, <1>m, <1>f DEF Release, MInv, NestingExact, Sleeping, TypeOK
  <2>3. CASE ~(nesting_level > 0)
    <3> DEFINE h == Heir(writers, readers)
    <3>1. wakeup_next_waiter(writers, readers, runable, signalled, {}) /\ nesting_level' = 0
      BY <1>3, <1>t, <2>3 DEF Release, TypeOK
    <3>2. /\ owner' = h /\ h \in Threads \cup {NullThread}
          /\ h # NullThread => h \in Threads /\ Sleeping(h) /\ h \in signalled'
          /\ h = NullThread => writers = <<>> /\ readers = <<>>
          /\ in_use' = Unused <=> h = NullThread
      <4>1. /\ h \in Threads \cup {NullThread}
            /\ h # NullThread => h \in Elems(writers) \cup Elems(readers)
            /\ h = NullThread <=> writers = <<>> /\ readers = <<>>
        BY <1>t, HeirSleeps DEF TypeOK
      <4>2. h # NullThread => Sleeping(h)
        BY <1>t, <4>1 DEF QueueInv, Sleeping, Unused
      <4> QED BY <3>1, <4>1, <4>2 DEF wakeup_next_waiter, Unused
    <3>3. \A u \in Threads : depth'[u] = 0
      BY <1>t, <2>1, <2>3, <1>m, <1>f DEF MInv, TypeOK
    <3> QED BY <2>1, <3>1, <3>2, <3>3, <1>t, <1>n, <1>m, <1>f DEF MInv, NestingExact, Sleeping, TypeOK
  <2> QED BY <2>2, <2>3
<1>4. CASE UNCHANGED vars
  BY <1>4, <1>m, <1>f DEF vars, queueVars, entryVars, MInv, NestingExact, Sleeping
<1> QED BY <1>1, <1>2, <1>3, <1>4, <1>w DEF Next

\* Until a wait fails the token excludes: the thread whose acquire returned 0
\* is the owner, for any number of threads, either queueing strategy and any
\* nesting; the release that passes the token on is the owner's outermost one;
\* and no sleeper is left behind a token nobody holds.
THEOREM Exclusion == Spec => [](MutualExclusion /\ NestingExact /\ TokenNotLost)
<1>1. Init => (~failed => MInv)
  BY TokenAssumption DEF Init, MInv, NestingExact, Sleeping, Unused
<1>2. IInv /\ (~failed => MInv) => MutualExclusion /\ NestingExact /\ TokenNotLost
  <2> SUFFICES ASSUME IInv, ~failed => MInv, ~failed
               PROVE  MutualExclusion /\ NestingExact /\ TokenNotLost
    BY DEF MutualExclusion, NestingExact, TokenNotLost
  <2>t. TypeOK /\ QueueInv(writers, "write_token") /\ QueueInv(readers, "read_token")
    BY DEF IInv, QInv
  <2>1. MutualExclusion
    BY <2>t, TokenAssumption DEF MInv, MutualExclusion, ExclusionAlways, Holds, TypeOK
  <2>2. TokenNotLost
    <3> SUFFICES ASSUME NEW t \in Threads, Sleeping(t)
                 PROVE  \E u \in Threads : owner = u /\ (Holds(u) \/ (Sleeping(u) /\ u \in signalled))
      BY DEF TokenNotLost
    <3>1. t \in Elems(writers) \cup Elems(readers)
      BY <2>t DEF Sleeping, TypeOK, QueueInv, OptType
    <3>2. owner # NullThread
      BY <2>t, <3>1, EmptyElems DEF MInv, TypeOK
    <3> QED BY <2>t, <3>2 DEF MInv, NestingExact, Holds, TypeOK
  <2> QED BY <2>1, <2>2 DEF MInv
<1> QED BY <1>1, <1>2, NextMInv, IInvInvariant, PTL DEF Spec

\* The token is passed on by the owner's outermost release, neither earlier nor
\* later, and never to nobody while threads sleep, until a wait fails.
THEOREM TokenIsKept == Spec => []TokenKept
<1>1. NestingExact /\ TokenNotLost => TokenKept
  BY DEF TokenKept
<1> QED BY <1>1, Exclusion, PTL

----------------------------------------------------------------------------
(* The token of a reactor. *)

\* A step of the reactor is a step of the token, or the token stutters.
LEMMA StepsOfToken == [RTNext]_rtVars => [Next]_vars
<1> USE DEF Next, OptType
<1>1. ASSUME NEW t \in Threads, Enter(t) \/ Modify(t) PROVE Next
  BY <1>1 DEF Enter, Modify
<1>2. ASSUME NEW t \in Threads, Woken(t) PROVE Next
  BY <1>2 DEF Woken
<1>3. ASSUME NEW t \in Threads, TimedOut(t) PROVE Next
  BY <1>3, ReactorTokenAssumption DEF TimedOut
<1>4. ASSUME NEW t \in Threads, Leave(t) \/ Unlock(t) PROVE Next
  BY <1>4 DEF Leave, Unlock
<1>5. ASSUME NEW t \in Threads, \/ Notify(t) \/ Poll(t) \/ HandleInput(t)
                                \/ ReadNotifyMsg(t) \/ Drained(t)
      PROVE  UNCHANGED vars
  BY <1>5 DEF Notify, Poll, HandleInput, ReadNotifyMsg, Drained
<1>6. ASSUME UNCHANGED rtVars PROVE UNCHANGED vars
  BY <1>6 DEF rtVars
<1> QED BY <1>1, <1>2, <1>3, <1>4, <1>5, <1>6 DEF RTNext

\* The reactor uses its token as the token demands: acquire and release come in
\* pairs in every thread, so handle_events, the reactor's methods and their
\* guards implement the client that Token's specification describes.
THEOREM ReactorUsesToken == RTSpec => Spec
<1>1. RTInit => Init
  BY DEF RTInit
<1> QED BY <1>1, StepsOfToken, PTL DEF RTSpec, Spec

----------------------------------------------------------------------------
\* Inductive strengthening of the properties.  A thread inside handle_events
\* holds the token; and a reader that has the token, or has been chosen to get
\* it and not run yet, has a byte to read if a writer sleeps.
Leads(t) == owner = t /\ (opt[t] = "read_token" \/ where[t] = "entered")

RInv ==
    /\ \A t \in Threads : Inside(t) => Holds(t)
    /\ \A t \in Threads : Leads(t) /\ writers # <<>> => pipe > 0

\* A write leaves at least one byte in the pipe and never too many.
LEMMA NotifyFills == ASSUME NEW p \in 0 .. PipeCapacity
                     PROVE  notify(p) \in 0 .. PipeCapacity /\ notify(p) > 0
BY ReactorTokenAssumption DEF notify

\* One step keeps the types of the reactor's state.
LEMMA ReactorTypes == ReactorTypeOK /\ [RTNext]_rtVars => ReactorTypeOK'
<1> SUFFICES ASSUME ReactorTypeOK, [RTNext]_rtVars PROVE ReactorTypeOK'
  OBVIOUS
<1> USE DEF ReactorTypeOK, Places
<1>1. ASSUME NEW t \in Threads, Notify(t) \/ Modify(t) PROVE ReactorTypeOK'
  BY <1>1, NotifyFills DEF Notify, Modify, sleep_hook
<1>2. ASSUME NEW t \in Threads, \/ Enter(t) \/ Woken(t) \/ Poll(t) \/ HandleInput(t)
                                \/ Drained(t) \/ Leave(t)
      PROVE  ReactorTypeOK'
  BY <1>2 DEF Enter, polite_sleep_hook, Woken, Poll, HandleInput, Drained, Leave
<1>3. ASSUME NEW t \in Threads, ReadNotifyMsg(t) PROVE ReactorTypeOK'
  BY <1>3, ReactorTokenAssumption DEF ReadNotifyMsg
<1>4. ASSUME NEW t \in Threads, TimedOut(t) \/ Unlock(t) PROVE ReactorTypeOK'
  BY <1>4 DEF TimedOut, Unlock, reactorVars
<1>5. ASSUME UNCHANGED rtVars PROVE ReactorTypeOK'
  BY <1>5 DEF rtVars, reactorVars
<1> QED BY <1>1, <1>2, <1>3, <1>4, <1>5 DEF RTNext

\* What a release does to the token: the thread keeps it, or the heir gets it;
\* an heir that reads finds no writer asleep.
LEMMA ReleaseHeir ==
    ASSUME IInv, MInv, ~failed, NEW t \in Threads, Release(t)
    PROVE  /\ owner = t /\ depth[t] = nesting_level + 1 /\ ~Sleeping(t)
           /\ writers' = writers /\ opt' = opt
           /\ depth' = [depth EXCEPT ![t] = @ - 1]
           /\ depth[t] > 1 => owner' = t
           /\ \A u \in Threads : owner' = u /\ depth[t] = 1 =>
                  Sleeping(u) /\ (opt[u] = "read_token" => writers = <<>>)
<1>t. TypeOK /\ QueueInv(writers, "write_token") /\ QueueInv(readers, "read_token")
  BY DEF IInv, QInv
<1>1. owner = t /\ depth[t] = nesting_level + 1 /\ ~Sleeping(t)
  BY <1>t DEF Release, MInv, NestingExact, TypeOK
<1>2. /\ writers' = writers /\ opt' = opt
      /\ depth' = [depth EXCEPT ![t] = @ - 1]
      /\ depth[t] > 1 => owner' = t
  BY <1>1, <1>t DEF Release, queueVars, TypeOK
<1>3. ASSUME NEW u \in Threads, owner' = u, depth[t] = 1
      PROVE  Sleeping(u) /\ (opt[u] = "read_token" => writers = <<>>)
  <2>1. owner' = Heir(writers, readers)
    BY <1>1, <1>3, <1>t DEF Release, wakeup_next_waiter, TypeOK
  <2>2. u \in Elems(writers) \cup Elems(readers)
    BY <1>3, <2>1, <1>t, HeirSleeps, TokenAssumption DEF TypeOK
  <2>3. Sleeping(u)
    BY <2>2, <1>t DEF QueueInv, Sleeping, Unused
  <2>4. ASSUME writers # <<>> PROVE opt[u] = "write_token"
    <3>1. u = Head(writers) /\ 1 \in DOMAIN writers
      BY <1>3, <2>1, <2>4, <1>t DEF Heir, TypeOK
    <3>2. u \in Elems(writers)
      BY <3>1, <1>t DEF Elems, TypeOK
    <3> QED BY <3>2, <1>t DEF QueueInv
  <2> QED BY <2>3, <2>4
<1> QED BY <1>1, <1>2, <1>3

\* One step keeps the strengthening unless a wait fails in it.
LEMMA NextRInv ==
    IInv /\ (~failed => MInv) /\ ReactorTypeOK /\ (~failed => RInv) /\ [RTNext]_rtVars
        => (~failed' => RInv')
<1> SUFFICES ASSUME IInv, ~failed => MInv, ReactorTypeOK, ~failed => RInv, [RTNext]_rtVars, ~failed'
             PROVE  RInv'
  OBVIOUS
<1>w. ASSUME NEW t \in Threads, TimedOut(t) PROVE FALSE
  BY <1>w DEF TimedOut, WaitFails
<1>f. ~failed
  <2>1. ASSUME NEW t \in Threads, Enter(t) \/ Modify(t) PROVE ~failed
    BY <2>1 DEF Enter, Modify, Acquire
  <2>2. ASSUME NEW t \in Threads, Woken(t) PROVE ~failed
    BY <2>2 DEF Woken, Wake
  <2>3. ASSUME NEW t \in Threads, Leave(t) \/ Unlock(t) PROVE ~failed
    BY <2>3 DEF Leave, Unlock, Release
  <2>4. ASSUME NEW t \in Threads, \/ Notify(t) \/ Poll(t) \/ HandleInput(t)
                                  \/ ReadNotifyMsg(t) \/ Drained(t)
        PROVE  ~failed
    BY <2>4 DEF Notify, Poll, HandleInput, ReadNotifyMsg, Drained, vars
  <2>5. ASSUME UNCHANGED rtVars PROVE ~failed
    BY <2>5 DEF rtVars, vars
  <2> QED BY <1>w, <2>1, <2>2, <2>3, <2>4, <2>5 DEF RTNext
<1>m. MInv /\ RInv
  BY <1>f
<1>t. TypeOK /\ QueueInv(writers, "write_token") /\ QueueInv(readers, "read_token")
  BY DEF IInv, QInv
<1>n. NullThread \notin Threads
  BY TokenAssumption
\* The holder of the token is its owner and awake.
<1>o. \A t \in Threads : Holds(t) => owner = t /\ ~Sleeping(t) /\ opt[t] = Unused
  BY <1>m, <1>f, <1>t DEF MInv, NestingExact, Holds, Sleeping, TypeOK
<1>1. ASSUME NEW t \in Threads, Enter(t) PROVE RInv'
  <2>1. CASE AcquireFree(t, "read_token")
    <3>1. writers' = <<>> /\ opt'[t] = Unused /\ depth' = [depth EXCEPT ![t] = @ + 1]
      BY <1>1, <2>1, <1>m DEF Enter, Acquire, AcquireFree, MInv, queueVars, entryVars, Sleeping
    <3> QED BY <1>1, <3>1, <1>m, <1>t DEF Enter, RInv, Inside, Holds, TypeOK, ReactorTypeOK
  <2>2. CASE AcquireNested(t)
    BY <1>1, <2>2, <1>m, <1>f, <1>t DEF Enter, Acquire, AcquireNested, MInv, NestingExact, Sleeping, TypeOK
  <2>3. CASE AcquireSleep(t, "read_token")
    <3>1. /\ opt' = [opt EXCEPT ![t] = "read_token"] /\ where' = where /\ pipe' = pipe
          /\ UNCHANGED <<owner, depth, writers>> /\ owner # t
      BY <1>1, <2>3, <1>t DEF Enter, polite_sleep_hook, AcquireSleep, Unused, TypeOK
    <3> QED BY <3>1, <1>m, <1>t DEF RInv, Inside, Holds, Leads, TypeOK
  <2> QED BY <1>1, <2>1, <2>2, <2>3 DEF Enter, Acquire
<1>2. ASSUME NEW t \in Threads, Modify(t) PROVE RInv'
  <2>1. CASE AcquireFree(t, "write_token") \/ AcquireNested(t)
    <3>1. /\ UNCHANGED <<opt, writers, where, pipe>> /\ opt[t] = Unused
          /\ depth' = [depth EXCEPT ![t] = @ + 1] /\ owner' = t /\ where[t] # "entered"
      BY <1>2, <2>1 DEF Modify, Acquire, AcquireFree, AcquireNested, queueVars, entryVars, Sleeping
    <3> QED BY <3>1, <1>m, <1>t DEF RInv, Inside, Holds, Leads, TypeOK, Unused
  <2>2. CASE AcquireSleep(t, "write_token")
    <3>1. /\ UNCHANGED <<owner, depth, where>> /\ pipe' = notify(pipe)
      BY <1>2, <2>2, <1>t DEF Modify, AcquireSleep, Unused, TypeOK, sleep_hook
    <3> QED BY <3>1, NotifyFills, <1>m DEF RInv, Inside, Holds, ReactorTypeOK
  <2> QED BY <1>2, <2>1, <2>2 DEF Modify, Acquire
<1>3. ASSUME NEW t \in Threads, Woken(t) PROVE RInv'
  <2>1. CASE WakeOwner(t)
    <3>1. /\ owner = t /\ UNCHANGED <<owner, pipe>>
          /\ depth' = [depth EXCEPT ![t] = @ + 1] /\ ~Holds(t)
          /\ opt[t] = "read_token" => writers' = writers
          /\ where' = IF opt[t] = "read_token" THEN [where EXCEPT ![t] = "entered"] ELSE where
          /\ opt' = [opt EXCEPT ![t] = Unused]
      BY <1>3, <2>1, <1>o DEF Woken, Wake, WakeOwner, Dequeue
    <3>2. \A u \in Threads : Inside(u)' => Holds(u)'
      BY <3>1, <1>m, <1>t DEF RInv, Inside, Holds, TypeOK
    <3>3. ASSUME NEW u \in Threads, Leads(u)', writers' # <<>> PROVE pipe' > 0
      <4>1. u = t
        BY <3>1, <3>3 DEF Leads
      <4>2. opt[t] = "read_token"
        BY <3>1, <3>3, <4>1, <1>m, <1>t DEF Leads, RInv, Inside, TypeOK, Unused
      <4> QED BY <3>1, <3>3, <4>2, <1>m DEF Leads, RInv
    <3> QED BY <3>2, <3>3 DEF RInv
  <2>2. CASE WakeAgain(t)
    BY <1>3, <2>2, <1>m DEF Woken, WakeAgain, RInv, Inside, Holds, Leads, queueVars
  <2> QED BY <1>3, <2>1, <2>2 DEF Woken, Wake
<1>4. ASSUME NEW t \in Threads, Leave(t) \/ Unlock(t) PROVE RInv'
  <2>1. /\ owner = t /\ depth[t] = nesting_level + 1 /\ ~Sleeping(t) /\ opt[t] = Unused
        /\ writers' = writers /\ opt' = opt
        /\ depth' = [depth EXCEPT ![t] = @ - 1]
        /\ depth[t] > 1 => owner' = t
        /\ \A u \in Threads : owner' = u /\ depth[t] = 1 =>
               Sleeping(u) /\ (opt[u] = "read_token" => writers = <<>>)
    BY <1>4, <1>m, <1>f, ReleaseHeir DEF Leave, Unlock, Sleeping
  <2>2. /\ UNCHANGED pipe /\ where[t] # "entered"
        /\ where' = where \/ where' = [where EXCEPT ![t] = "out"]
        /\ where'[t] # "out" => depth[t] > 1
        /\ depth[t] >= 1 /\ depth[t] \in Nat
    BY <1>4, <1>t, <2>1 DEF Leave, Unlock, reactorVars, ReactorTypeOK, TypeOK
  <2>3. \A u \in Threads : Inside(u)' => Holds(u)'
    BY <2>1, <2>2, <1>m, <1>t DEF RInv, Inside, Holds, TypeOK, ReactorTypeOK
  <2>4. ASSUME NEW u \in Threads, Leads(u)', writers' # <<>> PROVE pipe' > 0
    <3>1. CASE depth[t] > 1
      BY <2>1, <2>2, <2>4, <3>1, <1>m DEF Leads, RInv, Unused, ReactorTypeOK
    <3>2. CASE depth[t] = 1
      <4>1. Sleeping(u) /\ opt[u] # "read_token" /\ u # t
        BY <2>1, <2>4, <3>2 DEF Leads
      <4>2. where[u] = "entered"
        BY <2>1, <2>2, <2>4, <4>1 DEF Leads, ReactorTypeOK
      <4>3. Holds(u)
        BY <4>2, <1>m DEF RInv, Inside
      <4> QED BY <4>1, <4>3, <1>o
    <3> QED BY <2>2, <3>1, <3>2
  <2> QED BY <2>3, <2>4 DEF RInv
<1>5. ASSUME NEW t \in Threads, Poll(t) \/ HandleInput(t) \/ Drained(t) PROVE RInv'
  <2>1. /\ UNCHANGED <<owner, opt, writers, depth, pipe>> /\ where[t] # "out"
        /\ \E p \in Places \ {"entered"} : where' = [where EXCEPT ![t] = p]
    BY <1>5 DEF Poll, HandleInput, Drained, vars, queueVars, entryVars, Places
  <2> QED BY <2>1, <1>m DEF RInv, Inside, Holds, Leads, ReactorTypeOK
<1>6. ASSUME NEW t \in Threads, Notify(t) PROVE RInv'
  <2>1. UNCHANGED <<owner, opt, writers, depth, where>> /\ pipe' = notify(pipe)
    BY <1>6 DEF Notify, vars, queueVars, entryVars
  <2> QED BY <2>1, NotifyFills, <1>m DEF RInv, Inside, Holds, ReactorTypeOK
<1>7. ASSUME NEW t \in Threads, ReadNotifyMsg(t) PROVE RInv'
  <2>1. UNCHANGED <<owner, opt, writers, depth, where>> /\ where[t] = "draining"
    BY <1>7 DEF ReadNotifyMsg, vars, queueVars, entryVars
  <2>2. owner = t /\ opt[t] = Unused
    BY <2>1, <1>m, <1>o DEF RInv, Inside
  <2> QED BY <2>1, <2>2, <1>m DEF RInv, Inside, Holds, Leads, Unused
<1>8. CASE UNCHANGED rtVars
  BY <1>8, <1>m DEF rtVars, vars, queueVars, entryVars, reactorVars, RInv, Inside, Holds, Leads
<1> QED BY <1>1, <1>2, <1>3, <1>4, <1>5, <1>6, <1>7, <1>8, <1>w DEF RTNext

\* The strengthening holds in every state before a wait fails.
LEMMA RInvInvariant ==
    RTSpec => [](IInv /\ (~failed => MInv) /\ ReactorTypeOK /\ (~failed => RInv))
<1>1. RTInit => IInv /\ (~failed => MInv) /\ ReactorTypeOK /\ (~failed => RInv)
  <2> SUFFICES ASSUME RTInit PROVE IInv /\ MInv /\ ReactorTypeOK /\ RInv
    OBVIOUS
  <2>1. IInv
    BY InitIInv DEF RTInit
  <2>2. MInv
    BY TokenAssumption DEF RTInit, Init, MInv, NestingExact, Sleeping, Unused
  <2>3. ReactorTypeOK
    BY ReactorTokenAssumption DEF RTInit, ReactorTypeOK, Places
  <2>4. RInv
    BY DEF RTInit, Init, RInv, Inside
  <2> QED BY <2>1, <2>2, <2>3, <2>4
<1>2. IInv /\ (~failed => MInv) /\ [RTNext]_rtVars => IInv' /\ (~failed' => MInv')
  BY StepsOfToken, NextIInv, NextMInv
<1> QED BY <1>1, <1>2, ReactorTypes, NextRInv, PTL DEF RTSpec

\* Until a wait fails one thread at a time polls and dispatches, and no other
\* holds the token meanwhile, for any number of threads.
THEOREM OneLeader == RTSpec => [](ReactorTypeOK /\ SingleLeader)
<1>1. IInv /\ (~failed => MInv) /\ ReactorTypeOK /\ (~failed => RInv) => SingleLeader
  <2> SUFFICES ASSUME IInv, MInv, RInv, ~failed, NEW t \in Threads, Inside(t)
               PROVE  Holds(t) /\ \A u \in Threads : u # t => ~Inside(u) /\ ~Holds(u)
    BY DEF SingleLeader
  <2>1. TypeOK
    BY DEF IInv, QInv
  <2>2. \A u \in Threads : Holds(u) => owner = u
    BY <2>1 DEF MInv, Holds, TypeOK
  <2> QED BY <2>2 DEF RInv
<1> QED BY <1>1, RInvInvariant, PTL

\* Until a wait fails a leader that is about to poll or polls has a byte to read
\* whenever a writer sleeps, for any number of threads and any pipe.
THEOREM LeaderAlert == RTSpec => []NoSilentLeader
<1>1. IInv /\ (~failed => MInv) /\ ReactorTypeOK /\ (~failed => RInv) => NoSilentLeader
  <2> SUFFICES ASSUME IInv, MInv, RInv, ~failed, NEW t \in Threads, where[t] = "entered",
                      NEW u \in Threads, opt[u] = "write_token"
               PROVE  pipe > 0
    BY DEF NoSilentLeader
  <2>1. TypeOK /\ QueueInv(writers, "write_token")
    BY DEF IInv, QInv
  <2>2. owner = t
    BY <2>1 DEF RInv, Inside, Holds, MInv, TypeOK
  <2>3. writers # <<>>
    BY <2>1, EmptyElems DEF QueueInv, TypeOK
  <2> QED BY <2>2, <2>3 DEF RInv, Leads
<1> QED BY <1>1, RInvInvariant, PTL
----------------------------------------------------------------------------
(* ndk::message_queue, for every number of threads, every water mark and   *)
(* every size of list: the bound on the queue's length and, where each     *)
(* signal stands for one block, that no wakeup is lost.                    *)

\* A signal moves the caller to idle and at most one waiter to woken.
LEMMA SignalMoves ==
    ASSUME NEW S, NEW t \in QueueThreads, signal(S, t), S \subseteq QueueThreads,
           pc \in [QueueThreads -> {"idle", "enter", "wait", "woken"}]
    PROVE  pc' \in [QueueThreads -> {"idle", "enter", "wait", "woken"}]
  BY DEF signal, At

\* The arguments are reset to values of their types.
LEMMA ForgetTypes ==
    ASSUME QueueTypeOK, NEW t \in QueueThreads, Forget(t)
    PROVE  /\ size' \in [QueueThreads -> Int]
           /\ \A u \in QueueThreads : size'[u] \in Sizes(u)
           /\ timeout' \in [QueueThreads -> Timeouts]
  BY MessageQueueAssumption, SMTT(20) DEF Forget, QueueTypeOK, Sizes, Timeouts

\* The inductive invariant behind the bound on the queue's length.
BInv == QueueTypeOK /\ BoundedByMark

\* Every step preserves the types and the bound.
LEMMA NextBInv == BInv /\ [QueueNext]_queue_vars => BInv'
<1> SUFFICES ASSUME BInv, [QueueNext]_queue_vars PROVE BInv'
    OBVIOUS
<1> USE MessageQueueAssumption DEF BInv
<1>1. CASE UNCHANGED queue_vars
    BY <1>1 DEF queue_vars, QueueTypeOK, BoundedByMark, history
<1>2. ASSUME NEW t \in QueueThreads, NEW n \in Sizes(t), NEW to \in Timeouts, Call(t, n, to)
      PROVE  BInv'
    BY <1>2 DEF Call, QueueTypeOK, BoundedByMark, Sizes, Timeouts, history
<1>3. ASSUME NEW t \in QueueThreads, WaitOrFail(t) PROVE BInv'
    BY <1>3, ForgetTypes DEF WaitOrFail, Fail, QueueTypeOK, BoundedByMark, history
<1>4. ASSUME NEW t \in Producers, enqueue(t) PROVE BInv'
  <2>1. t \in QueueThreads /\ Consumers \subseteq QueueThreads
      BY DEF QueueThreads
  <2>2. size[t] \in 1 .. MaxList
      BY <2>1 DEF QueueTypeOK, Sizes
  <2>3. mb_count' \in Nat /\ BoundedByMark'
      BY <1>4, <2>2 DEF enqueue, is_full_i, QueueTypeOK, BoundedByMark
  <2> QED
      BY <1>4, <2>1, <2>3, ForgetTypes, SignalMoves DEF enqueue, QueueTypeOK
<1>5. ASSUME NEW t \in Consumers, dequeue(t) PROVE BInv'
  <2>1. t \in QueueThreads /\ Producers \subseteq QueueThreads /\ t \notin Producers
      BY DEF QueueThreads
  <2>2. size[t] \in Int /\ (size[t] = -1 \/ size[t] >= 1)
      BY <2>1 DEF QueueTypeOK, Sizes
  <2>3. mb_count' \in Nat /\ BoundedByMark'
      BY <1>5, <2>2 DEF dequeue, Takes, is_empty_i, QueueTypeOK, BoundedByMark
  <2> QED
      BY <1>5, <2>1, <2>3, ForgetTypes, SignalMoves DEF dequeue, QueueTypeOK
<1>6. ASSUME NEW t \in QueueThreads, TimesOut(t) PROVE BInv'
    BY <1>6, ForgetTypes DEF TimesOut, Fail, QueueTypeOK, BoundedByMark, history
<1>7. ASSUME NEW t \in QueueThreads, SpuriousWakeup(t) PROVE BInv'
    BY <1>7 DEF SpuriousWakeup, QueueTypeOK, BoundedByMark, history
<1> QED
    BY <1>1, <1>2, <1>3, <1>4, <1>5, <1>6, <1>7
    DEF QueueNext, Resume, wait_not_full_cond, wait_not_empty_cond

\* Types and the bound hold at the start.
LEMMA InitBInv == QueueInit => BInv
<1> SUFFICES ASSUME QueueInit PROVE BInv
    OBVIOUS
<1>1. lists \in BOOLEAN /\ grabs \in BOOLEAN
    BY Zenon DEF QueueInit
<1>2. \A t \in QueueThreads : size[t] \in Sizes(t)
    BY MessageQueueAssumption DEF QueueInit, Sizes
<1> QED
    BY <1>1, <1>2, MessageQueueAssumption DEF QueueInit, BInv, QueueTypeOK, BoundedByMark, Timeouts

\* message_queue never holds more than its water mark plus one list less one
\* block, and its counter never wraps, for any number of threads.
THEOREM Bounded == QueueSpec => [](QueueTypeOK /\ BoundedByMark)
  BY InitBInv, NextBInv, PTL DEF QueueSpec, BInv

----------------------------------------------------------------------------
(* Wakeups.                                                                *)

PcOK == pc \in [QueueThreads -> {"idle", "enter", "wait", "woken"}]

\* The threads of S at one place form a finite set.
LEMMA AtFinite ==
    ASSUME NEW S, IsFiniteSet(S), NEW w
    PROVE  /\ IsFiniteSet(At(S, w)) /\ Cardinality(At(S, w)) \in Nat
           /\ IsFiniteSet(At(S, w)') /\ Cardinality(At(S, w)') \in Nat
<1>1. At(S, w) \subseteq S /\ At(S, w)' \subseteq S
    BY DEF At
<1> QED
    BY <1>1, FS_Subset, FS_CardinalityType

\* A step that leaves the threads of S where they are.
LEMMA SameAt ==
    ASSUME NEW S, S \subseteq QueueThreads, \A u \in S : pc'[u] = pc[u], NEW w
    PROVE  At(S, w)' = At(S, w)
  BY DEF At

\* A signal by t to the waiters of another group: one more of them is woken,
\* or none waits.
LEMMA SignalWakes ==
    ASSUME NEW S, IsFiniteSet(S), S \subseteq QueueThreads, PcOK,
           NEW t \in QueueThreads, t \notin S, signal(S, t)
    PROVE  \/ At(S, "wait")' = {}
           \/ Cardinality(At(S, "woken")') = Cardinality(At(S, "woken")) + 1
<1>1. CASE At(S, "wait") = {} /\ pc' = [pc EXCEPT ![t] = "idle"]
    BY <1>1 DEF At, PcOK
<1>2. ASSUME NEW u \in At(S, "wait"), pc' = [pc EXCEPT ![t] = "idle", ![u] = "woken"]
      PROVE  Cardinality(At(S, "woken")') = Cardinality(At(S, "woken")) + 1
  <2>1. At(S, "woken")' = At(S, "woken") \cup {u} /\ u \notin At(S, "woken")
      BY <1>2 DEF At, PcOK
  <2> QED
      BY <2>1, AtFinite, FS_AddElement
<1> QED
    BY <1>1, <1>2 DEF signal

\* A thread of S that holds the mutex and returns was not waiting, and takes
\* at most itself out of the woken.
LEMMA ReturnLeaves ==
    ASSUME NEW S, IsFiniteSet(S), S \subseteq QueueThreads, NEW R, R \cap S = {}, R \subseteq QueueThreads,
           PcOK, NEW t \in S, HasMutex(t), signal(R, t)
    PROVE  /\ At(S, "wait")' = At(S, "wait")
           /\ Cardinality(At(S, "woken")') >= Cardinality(At(S, "woken")) - 1
<1>1. /\ At(S, "wait")' = At(S, "wait")
      /\ At(S, "woken")' = At(S, "woken") \ {t}
    BY DEF signal, At, PcOK, HasMutex
<1>2. CASE t \in At(S, "woken")
    BY <1>1, <1>2, AtFinite, FS_RemoveElement
<1>3. CASE t \notin At(S, "woken")
  <2>1. At(S, "woken")' = At(S, "woken")
      BY <1>1, <1>3
  <2> QED
      BY <1>1, <2>1, AtFinite
<1> QED
    BY <1>1, <1>2, <1>3

\* Steps that move one thread without a signal and without changing the queue
\* keep a bound on the free blocks or places, unless that thread starts waiting.
LEMMA QuietStep ==
    ASSUME NEW S, IsFiniteSet(S), S \subseteq QueueThreads, PcOK, NEW t \in QueueThreads,
           NEW w \in {"idle", "enter", "woken"}, pc' = [pc EXCEPT ![t] = w],
           pc[t] # "woken"
    PROVE  /\ At(S, "wait")' \subseteq At(S, "wait")
           /\ Cardinality(At(S, "woken")') >= Cardinality(At(S, "woken"))
<1>1. /\ At(S, "wait")' \subseteq At(S, "wait")
      /\ At(S, "woken") \subseteq At(S, "woken")'
    BY DEF At, PcOK
<1> QED
    BY <1>1, AtFinite, FS_Subset

\* Consumers: the step preserves that every block has a woken consumer.
LEMMA NextConsumersWoken ==
    ASSUME BInv, ConsumersWoken, [QueueNext]_queue_vars
    PROVE  ConsumersWoken'
<1> USE MessageQueueAssumption
<1> DEFINE W == At(Consumers, "wait")
           K == At(Consumers, "woken")
<1>0. /\ PcOK /\ mb_count \in Nat /\ mb_count' \in Nat
      /\ Consumers \subseteq QueueThreads /\ Producers \subseteq QueueThreads
      /\ \A p \in Producers : p \in QueueThreads /\ p \notin Consumers
      /\ Cardinality(K) \in Nat /\ Cardinality(K') \in Nat
  <2>1. BInv'
      BY NextBInv
  <2> QED
      BY <2>1, AtFinite DEF BInv, QueueTypeOK, PcOK, QueueThreads
<1>1. CASE UNCHANGED queue_vars
    BY <1>0, <1>1, SameAt DEF queue_vars, ConsumersWoken, history
<1>2. ASSUME NEW t \in QueueThreads, NEW n \in Sizes(t), NEW to \in Timeouts, Call(t, n, to)
      PROVE  ConsumersWoken'
  <2>1. W' \subseteq W /\ Cardinality(K') >= Cardinality(K)
      BY <1>0, <1>2, QuietStep DEF Call, history
  <2> QED
      BY <1>0, <1>2, <2>1 DEF Call, ConsumersWoken, history
<1>3. ASSUME NEW t \in Producers, WaitOrFail(t) PROVE ConsumersWoken'
  <2>1. W' = W /\ K' = K /\ mb_count' = mb_count /\ lists' = lists
      BY <1>0, <1>3, SameAt DEF WaitOrFail, Fail, PcOK, history
  <2> QED
      BY <2>1 DEF ConsumersWoken
<1>4. ASSUME NEW t \in Consumers, is_empty_i, WaitOrFail(t) PROVE ConsumersWoken'
  <2>1. mb_count' = 0
      BY <1>4 DEF WaitOrFail, Fail, is_empty_i, history
  <2> QED
      BY <1>0, <2>1 DEF ConsumersWoken
<1>5. ASSUME NEW t \in Producers, enqueue(t) PROVE ConsumersWoken'
  <2>1. W' = {} \/ Cardinality(K') = Cardinality(K) + 1
      BY <1>0, <1>5, SignalWakes DEF enqueue
  <2>2. W' # {} => W # {}
      BY <1>0, <1>5 DEF enqueue, signal, At, PcOK
  <2>3. ~lists' => ~lists /\ mb_count' = mb_count + 1
    <3>1. size[t] \in 1 .. MaxList
        BY <1>0 DEF BInv, QueueTypeOK, Sizes
    <3> QED
        BY <3>1, <1>5 DEF enqueue
  <2> QED
      BY <1>0, <2>1, <2>2, <2>3 DEF ConsumersWoken
<1>6. ASSUME NEW t \in Consumers, dequeue(t) PROVE ConsumersWoken'
  <2>1. W' = W /\ Cardinality(K') >= Cardinality(K) - 1 /\ lists' = lists
      BY <1>0, <1>6, ReturnLeaves DEF dequeue
  <2>2. mb_count' <= mb_count - 1
    <3>1. size[t] \in Int /\ (size[t] = -1 \/ size[t] >= 1)
        BY <1>0 DEF BInv, QueueTypeOK, Sizes
    <3> QED
        BY <1>0, <1>6, <3>1 DEF dequeue, Takes, is_empty_i
  <2> QED
      BY <1>0, <2>1, <2>2 DEF ConsumersWoken
<1>7. ASSUME NEW t \in QueueThreads, TimesOut(t) \/ SpuriousWakeup(t) PROVE ConsumersWoken'
  <2>1. W' \subseteq W /\ Cardinality(K') >= Cardinality(K)
      BY <1>0, <1>7, QuietStep DEF TimesOut, Fail, SpuriousWakeup, history
  <2> QED
      BY <1>0, <1>7, <2>1 DEF TimesOut, Fail, SpuriousWakeup, ConsumersWoken, history
<1> QED
    BY <1>1, <1>2, <1>3, <1>4, <1>5, <1>6, <1>7
    DEF QueueNext, Resume, wait_not_full_cond, wait_not_empty_cond

\* Producers: the step preserves that every free place has a woken producer.
LEMMA NextProducersWoken ==
    ASSUME BInv, ProducersWoken, [QueueNext]_queue_vars
    PROVE  ProducersWoken'
<1> USE MessageQueueAssumption
<1> DEFINE W == At(Producers, "wait")
           K == At(Producers, "woken")
<1>0. /\ PcOK /\ mb_count \in Nat /\ mb_count' \in Nat
      /\ Consumers \subseteq QueueThreads /\ Producers \subseteq QueueThreads
      /\ \A c \in Consumers : c \in QueueThreads /\ c \notin Producers
      /\ Cardinality(K) \in Nat /\ Cardinality(K') \in Nat
  <2>1. BInv'
      BY NextBInv
  <2> QED
      BY <2>1, AtFinite DEF BInv, QueueTypeOK, PcOK, QueueThreads
<1>1. CASE UNCHANGED queue_vars
    BY <1>0, <1>1, SameAt DEF queue_vars, ProducersWoken, history
<1>2. ASSUME NEW t \in QueueThreads, NEW n \in Sizes(t), NEW to \in Timeouts, Call(t, n, to)
      PROVE  ProducersWoken'
  <2>1. W' \subseteq W /\ Cardinality(K') >= Cardinality(K)
      BY <1>0, <1>2, QuietStep DEF Call, history
  <2> QED
      BY <1>0, <1>2, <2>1 DEF Call, ProducersWoken, history
<1>3. ASSUME NEW t \in Consumers, WaitOrFail(t) PROVE ProducersWoken'
  <2>1. W' = W /\ K' = K /\ mb_count' = mb_count /\ grabs' = grabs
      BY <1>0, <1>3, SameAt DEF WaitOrFail, Fail, PcOK, history
  <2> QED
      BY <2>1 DEF ProducersWoken
<1>4. ASSUME NEW t \in Producers, is_full_i, WaitOrFail(t) PROVE ProducersWoken'
  <2>1. mb_count' >= high_water_mark
      BY <1>4 DEF WaitOrFail, Fail, is_full_i, history
  <2> QED
      BY <1>0, <2>1 DEF ProducersWoken
<1>5. ASSUME NEW t \in Producers, enqueue(t) PROVE ProducersWoken'
  <2>1. W' = W /\ Cardinality(K') >= Cardinality(K) - 1 /\ grabs' = grabs
      BY <1>0, <1>5, ReturnLeaves DEF enqueue
  <2>2. mb_count' >= mb_count + 1
    <3>1. size[t] \in 1 .. MaxList
        BY <1>0 DEF BInv, QueueTypeOK, Sizes
    <3> QED
        BY <1>0, <1>5, <3>1 DEF enqueue
  <2> QED
      BY <1>0, <2>1, <2>2 DEF ProducersWoken
<1>6. ASSUME NEW t \in Consumers, dequeue(t) PROVE ProducersWoken'
  <2>1. W' = {} \/ Cardinality(K') = Cardinality(K) + 1
      BY <1>0, <1>6, SignalWakes DEF dequeue
  <2>2. W' # {} => W # {}
      BY <1>0, <1>6 DEF dequeue, signal, At, PcOK
  <2>3. ~grabs' => ~grabs /\ mb_count' = mb_count - 1
    <3>1. size[t] \in Int
        BY <1>0 DEF BInv, QueueTypeOK
    <3> QED
        BY <1>0, <3>1, <1>6 DEF dequeue, Takes, is_empty_i
  <2> QED
      BY <1>0, <2>1, <2>2, <2>3 DEF ProducersWoken
<1>7. ASSUME NEW t \in QueueThreads, TimesOut(t) \/ SpuriousWakeup(t) PROVE ProducersWoken'
  <2>1. W' \subseteq W /\ Cardinality(K') >= Cardinality(K)
      BY <1>0, <1>7, QuietStep DEF TimesOut, Fail, SpuriousWakeup, history
  <2> QED
      BY <1>0, <1>7, <2>1 DEF TimesOut, Fail, SpuriousWakeup, ProducersWoken, history
<1> QED
    BY <1>1, <1>2, <1>3, <1>4, <1>5, <1>6, <1>7
    DEF QueueNext, Resume, wait_not_full_cond, wait_not_empty_cond

\* Nobody waits at the start.
LEMMA InitWoken == QueueInit => ConsumersWoken /\ ProducersWoken
  BY DEF QueueInit, ConsumersWoken, ProducersWoken, At, QueueThreads

\* Until a list of several blocks goes in, whatever the dequeues take, time
\* out or barge in on: a consumer sleeps only while every block has a woken consumer coming.
THEOREM ConsumerWakeups == QueueSpec => []ConsumersWoken
<1>1. BInv /\ ConsumersWoken /\ [QueueNext]_queue_vars => BInv' /\ ConsumersWoken'
    BY NextBInv, NextConsumersWoken
<1> QED
    BY <1>1, InitBInv, InitWoken, PTL DEF QueueSpec

\* Until a dequeue takes several blocks, whatever the lists enqueued: a
\* producer sleeps only while every free place has a woken producer coming.
THEOREM ProducerWakeups == QueueSpec => []ProducersWoken
<1>1. BInv /\ ProducersWoken /\ [QueueNext]_queue_vars => BInv' /\ ProducersWoken'
    BY NextBInv, NextProducersWoken
<1> QED
    BY <1>1, InitBInv, InitWoken, PTL DEF QueueSpec

\* An empty queue beside a waiting producer has a woken producer coming.
EmptyIsNoticed == At(Producers, "wait") # {} /\ mb_count = 0 => At(Producers, "woken") # {}

\* Every step preserves it, whatever the sizes: producers start to wait only
\* beside a full queue, and the dequeue that empties it signals one of them.
LEMMA NextEmptyIsNoticed ==
    ASSUME BInv, EmptyIsNoticed, [QueueNext]_queue_vars
    PROVE  EmptyIsNoticed'
<1> USE MessageQueueAssumption
<1>0. /\ PcOK /\ mb_count \in Nat /\ mb_count' \in Nat
      /\ Consumers \subseteq QueueThreads /\ Producers \subseteq QueueThreads
      /\ \A c \in Consumers : c \in QueueThreads /\ c \notin Producers
  <2>1. BInv'
      BY NextBInv
  <2> QED
      BY <2>1 DEF BInv, QueueTypeOK, PcOK, QueueThreads
<1>1. CASE UNCHANGED queue_vars
    BY <1>1 DEF queue_vars, EmptyIsNoticed, At, history
<1>2. ASSUME NEW t \in QueueThreads, NEW n \in Sizes(t), NEW to \in Timeouts, Call(t, n, to)
      PROVE  EmptyIsNoticed'
    BY <1>0, <1>2 DEF Call, EmptyIsNoticed, At, PcOK
<1>3. ASSUME NEW t \in Consumers, WaitOrFail(t) PROVE EmptyIsNoticed'
    BY <1>0, <1>3 DEF WaitOrFail, Fail, EmptyIsNoticed, At, PcOK
<1>4. ASSUME NEW t \in Producers, is_full_i, WaitOrFail(t) PROVE EmptyIsNoticed'
    BY <1>0, <1>4 DEF WaitOrFail, Fail, is_full_i, EmptyIsNoticed, history
<1>5. ASSUME NEW t \in Producers, enqueue(t) PROVE EmptyIsNoticed'
  <2>1. size[t] \in 1 .. MaxList
      BY <1>0 DEF BInv, QueueTypeOK, Sizes
  <2> QED
      BY <1>0, <1>5, <2>1 DEF enqueue, EmptyIsNoticed
<1>6. ASSUME NEW t \in Consumers, dequeue(t) PROVE EmptyIsNoticed'
    BY <1>0, <1>6 DEF dequeue, signal, EmptyIsNoticed, At, PcOK
<1>7. ASSUME NEW t \in QueueThreads, TimesOut(t) \/ SpuriousWakeup(t) PROVE EmptyIsNoticed'
    BY <1>0, <1>7 DEF TimesOut, Fail, SpuriousWakeup, EmptyIsNoticed, At, PcOK
<1> QED
    BY <1>1, <1>2, <1>3, <1>4, <1>5, <1>6, <1>7
    DEF QueueNext, Resume, wait_not_full_cond, wait_not_empty_cond

\* Until a list of several blocks goes in, a blocked producer and a blocked consumer never
\* face each other with nobody woken or entering.
THEOREM StandoffFree == QueueSpec => []NoStandoff
<1>1. BInv /\ ConsumersWoken /\ EmptyIsNoticed /\ [QueueNext]_queue_vars
          => BInv' /\ ConsumersWoken' /\ EmptyIsNoticed'
    BY NextBInv, NextConsumersWoken, NextEmptyIsNoticed
<1>2. QueueInit => EmptyIsNoticed
    BY DEF QueueInit, EmptyIsNoticed, At, QueueThreads
<1>3. BInv /\ ConsumersWoken /\ EmptyIsNoticed => NoStandoff
  <2> SUFFICES ASSUME BInv, ConsumersWoken, EmptyIsNoticed,
                      ~lists, At(QueueThreads, "enter") \cup At(QueueThreads, "woken") = {},
                      At(Producers, "wait") # {}, At(Consumers, "wait") # {}
               PROVE  FALSE
      BY DEF NoStandoff
  <2>1. At(Consumers, "woken") = {} /\ At(Producers, "woken") = {}
      BY DEF At, QueueThreads
  <2>2. mb_count = 0
    <3>1. Cardinality(At(Consumers, "woken")) = 0
        BY <2>1, FS_EmptySet, Zenon
    <3> QED
        BY <3>1 DEF ConsumersWoken, BInv, QueueTypeOK
  <2> QED
      BY <2>1, <2>2 DEF EmptyIsNoticed
<1> QED
    BY <1>1, <1>2, <1>3, InitBInv, InitWoken, PTL DEF QueueSpec
=============================================================================

----------------------------- MODULE PartsProofs -----------------------------
(***************************************************************************)
(* Theorems about the parts of Parts: the I/O functions of a stream,       *)
(* recursive_thread_mutex and task_base, the pull side of fcache, loggers  *)
(* and log files, cache_deque and buffer_manager.  A behaviour is one of   *)
(* the part named by `part`, whose invariant is kept by its steps.         *)
(***************************************************************************)
EXTENDS Parts, DataLemmas

----------------------------------------------------------------------------
(* The I/O functions of ndk.cpp (StreamIO): v5 is nonblock, v6 the call     *)
(* that runs and v7 what the last one returned.                             *)

\* The first n bytes of the buffer, in order.
FirstBytes(moved, n) ==
    /\ moved \in Seq(Nat) /\ Len(moved) = n
    /\ \A i \in 1 .. n : moved[i] = i

Calls == [f : DOMAIN Stream!Function, timeout : {"none", "zero", "some"}, flag : BOOLEAN,
          step : {"io", "wait", "again"}, pos : Nat, moved : Seq(Nat)]

\* What a call returned says how many bytes it moved, and they are the first.
Returned(r) ==
    /\ \A i \in DOMAIN r.moved : r.moved[i] = i
    /\ r.n > 0 => r.n = Len(r.moved)

\* A call that runs stands behind the bytes it has moved.
StreamInv ==
    /\ v5 \in BOOLEAN
    /\ v6 # Nil => v6 \in Calls /\ FirstBytes(v6.moved, v6.pos)
    /\ v7 # Nil => Returned(v7)

\* An iovec of one byte is moved whole or not at all.
LEMMA PlaceMoves ==
    ASSUME v6 \in Calls, NEW n \in Nat
    PROVE  Stream!Next_place(n) = v6.pos + n
<1>1. \A i \in Nat : (i \div 1) * 1 = i
  OBVIOUS
<1>2. v6.pos + n \in Nat
  BY DEF Calls
<1> QED BY <1>1, <1>2 DEF Stream!Next_place

\* n bytes more, taken from the place behind the ones there.
LEMMA BytesGrow ==
    ASSUME NEW moved, NEW pos \in Nat, FirstBytes(moved, pos), NEW n \in Nat
    PROVE  FirstBytes(moved \o [k \in 1 .. n |-> pos + k], pos + n)
<1> DEFINE more == [k \in 1 .. n |-> pos + k]
<1>1. more \in Seq(Nat) /\ Len(more) = n /\ \A k \in 1 .. n : more[k] = pos + k
  OBVIOUS
<1> HIDE DEF more
<1>2. /\ moved \o more \in Seq(Nat) /\ Len(moved \o more) = pos + n
      /\ \A i \in 1 .. (pos + n) : (moved \o more)[i] = IF i <= pos THEN moved[i] ELSE more[i - pos]
  <2>1. moved \in Seq(Nat) /\ Len(moved) = pos
    BY DEF FirstBytes
  <2> QED BY <1>1, <2>1, ConcatProperties
<1>3. ASSUME NEW i \in 1 .. (pos + n) PROVE (moved \o more)[i] = i
  <2>1. CASE i <= pos
    BY <2>1, <1>2 DEF FirstBytes
  <2>2. CASE i > pos
    <3>1. i - pos \in 1 .. n /\ ~(i <= pos)
      BY <2>2
    <3>2. (moved \o more)[i] = more[i - pos] /\ more[i - pos] = pos + (i - pos)
      BY <1>1, <1>2, <3>1
    <3>3. pos + (i - pos) = i
      OBVIOUS
    <3> QED BY <3>2, <3>3, Zenon
  <2>3. i <= pos \/ i > pos
    OBVIOUS
  <2> QED BY <2>1, <2>2, <2>3, Zenon
<1> QED BY <1>2, <1>3 DEF FirstBytes, more

\* The bytes of a call that returns are the ones it says.
LEMMA ReturnSound ==
    ASSUME NEW moved, NEW pos \in Nat, FirstBytes(moved, pos), NEW n \in {Len(moved), 0, -1},
           v5 \in BOOLEAN, v6 \in Calls, v6' = Nil, v5' \in {v5, v6.flag},
           NEW name, NEW why, v7' = [f |-> name, n |-> n, moved |-> moved, why |-> why]
    PROVE  StreamInv'
<1>1. v5' \in BOOLEAN
  BY Zenon DEF Calls
<1>3. v7'.n = n /\ v7'.moved = moved
  OBVIOUS
<1>4. DOMAIN moved = 1 .. pos /\ Len(moved) = pos
  BY DEF FirstBytes
<1>5. Returned(v7)'
  BY <1>3, <1>4 DEF Returned, FirstBytes
<1> QED BY <1>1, <1>5 DEF StreamInv

\* Every step of the peer and of the calls keeps the bytes in step.
LEMMA StreamKeeps ==
    ASSUME StreamInv, Stream!Next PROVE StreamInv'
<1>1. CASE Stream!PeerSends \/ Stream!PeerTakes \/ Stream!PeerCloses
  BY <1>1 DEF Stream!PeerSends, Stream!PeerTakes, Stream!PeerCloses, StreamInv, Returned
<1>2. ASSUME NEW name \in DOMAIN Stream!Function, NEW timeout \in {"none", "zero", "some"},
             Stream!Begin(name, timeout)
      PROVE  StreamInv'
  <2>1. v5' \in BOOLEAN
    BY <1>2, Zenon DEF Stream!Begin, StreamInv
  <2>2. v6' \in Calls /\ v6'.moved = <<>> /\ v6'.pos = 0
    BY <1>2 DEF Stream!Begin, StreamInv, Calls
  <2>3. FirstBytes(v6'.moved, v6'.pos)
    BY <2>2 DEF FirstBytes
  <2> QED BY <1>2, <2>1, <2>2, <2>3 DEF Stream!Begin, StreamInv
<1>3. CASE Stream!Goes_on
  <2>0. v6 # Nil
    BY <1>3 DEF Stream!Goes_on, Stream!Moves, Stream!Fails, Stream!handle_ready
  <2>1. v6 \in Calls /\ FirstBytes(v6.moved, v6.pos) /\ v6.pos \in Nat /\ v5 \in BOOLEAN
    BY <2>0 DEF StreamInv, Calls
  <2>2. ASSUME NEW n \in 1 .. IoLength, Stream!Moves(n) PROVE StreamInv'
    <3> DEFINE moved == v6.moved \o [k \in 1 .. n |-> v6.pos + k]
    <3>0. n \in Nat
      BY <2>2, PartsAssumption
    <3>1. FirstBytes(moved, v6.pos + n) /\ v6.pos + n \in Nat
      BY <2>1, <3>0, BytesGrow
    <3>2. Stream!Next_place(n) = v6.pos + n
      BY <2>1, <3>0, PlaceMoves
    <3> HIDE DEF moved
    <3>3. CASE v6' = [v6 EXCEPT !.pos = v6.pos + n, !.moved = moved] /\ UNCHANGED <<v5, v7>>
      <4>1. moved \in Seq(Nat)
        BY <3>1 DEF FirstBytes
      <4>2. v6' \in Calls /\ v6'.pos = v6.pos + n /\ v6'.moved = moved
        BY <2>1, <3>1, <3>3, <4>1 DEF Calls
      <4> QED BY <2>1, <3>1, <3>3, <4>2 DEF StreamInv, Returned
    <3>4. CASE Stream!Return(Len(moved), moved, Stream!f.all \/ ~Stream!f.keeps \/ v6.step = "again", "moved")
      BY <2>1, <3>1, <3>4, ReturnSound DEF Stream!Return
    <3> QED BY <2>2, <3>2, <3>3, <3>4, Zenon DEF Stream!Moves, moved
  <2>3. ASSUME NEW outcome, Stream!Fails(outcome) PROVE StreamInv'
    <3>1. CASE Stream!WouldBlock
      <4>1. CASE v6' = [v6 EXCEPT !.step = "wait", !.pos = Stream!Next_place(0)] /\ UNCHANGED <<v5, v7>>
        <5>1. Stream!Next_place(0) = v6.pos
          BY <2>1, PlaceMoves
        <5>2. v6' \in Calls /\ v6'.pos = v6.pos /\ v6'.moved = v6.moved
          BY <2>1, <4>1, <5>1 DEF Calls
        <5> QED BY <2>1, <4>1, <5>2 DEF StreamInv, Returned
      <4>2. CASE Stream!Return(IF Stream!f.all /\ Stream!f.timed THEN Len(v6.moved) ELSE -1, v6.moved, TRUE, "EAGAIN")
        <5>1. (IF Stream!f.all /\ Stream!f.timed THEN Len(v6.moved) ELSE -1) \in {Len(v6.moved), 0, -1}
          OBVIOUS
        <5> QED BY <2>1, <4>2, <5>1, ReturnSound DEF Stream!Return
      <4> QED BY <3>1, <4>1, <4>2 DEF Stream!WouldBlock
    <3>2. CASE UNCHANGED <<v6, v5, v7>>
      BY <3>2 DEF StreamInv, Returned
    <3>3. CASE Stream!Return(IF Stream!f.counts THEN Len(v6.moved) ELSE IF outcome = "closed" THEN 0 ELSE -1,
                             v6.moved, ~Stream!f.keeps \/ v6.step = "again", outcome)
      <4>1. (IF Stream!f.counts THEN Len(v6.moved) ELSE IF outcome = "closed" THEN 0 ELSE -1)
               \in {Len(v6.moved), 0, -1}
        OBVIOUS
      <4> QED BY <2>1, <3>3, <4>1, ReturnSound DEF Stream!Return
    <3> QED BY <2>3, <3>1, <3>2, <3>3 DEF Stream!Fails
  <2>4. CASE Stream!handle_ready
    <3>1. CASE v6' = [v6 EXCEPT !.step = IF Stream!f.all THEN "io" ELSE "again"] /\ UNCHANGED <<v5, v7>>
      <4>1. v6' \in Calls /\ v6'.pos = v6.pos /\ v6'.moved = v6.moved
        BY <2>1, <3>1 DEF Calls
      <4> QED BY <2>1, <3>1, <4>1 DEF StreamInv, Returned
    <3>2. CASE Stream!Return(IF Stream!f.all THEN Len(v6.moved) ELSE -1, v6.moved, TRUE, "timeout")
      <4>1. (IF Stream!f.all THEN Len(v6.moved) ELSE -1) \in {Len(v6.moved), 0, -1}
        OBVIOUS
      <4> QED BY <2>1, <3>2, <4>1, ReturnSound DEF Stream!Return
    <3> QED BY <2>4, <3>1, <3>2 DEF Stream!handle_ready
  <2> QED BY <1>3, <2>2, <2>3, <2>4 DEF Stream!Goes_on
<1> QED BY <1>1, <1>2, <1>3 DEF Stream!Next

\* recv_n and the other I/O functions keep the bytes of the stream and of the
\* buffer in step, for every length and whatever the peer and the timeouts do.
THEOREM BytesStayInStep == PartsSpec => []InStep
<1> DEFINE Inv == part = "stream" => StreamInv
<1>1. PartsInit => Inv
  <2> SUFFICES ASSUME PartsInit, part = "stream" PROVE StreamInv
    OBVIOUS
  <2>1. Stream!Init
    BY DEF PartsInit
  <2> QED BY <2>1, Zenon DEF Stream!Init, StreamInv
<1>2. Inv /\ [PartsNext]_state => Inv'
  <2> SUFFICES ASSUME Inv, [PartsNext]_state, part' = "stream" PROVE StreamInv'
    OBVIOUS
  <2>1. CASE UNCHANGED state
    BY <2>1 DEF state, StreamInv, Returned
  <2>2. CASE PartsNext
    <3>1. part = "stream" /\ Stream!Next
      BY <2>2 DEF PartsNext
    <3> QED BY <3>1, StreamKeeps
  <2> QED BY <2>1, <2>2
<1>3. Inv => InStep
  BY DEF InStep, Stream!InStep, StreamInv, Returned, FirstBytes, Calls
<1> QED BY <1>1, <1>2, <1>3, PTL DEF PartsSpec

----------------------------------------------------------------------------
(* recursive_thread_mutex (RecursiveMutex): v1 is mutex_, v2 owner_thr_, v3 *)
(* nesting_level_, v4 the next step of each thread and v5 what it holds.    *)

\* Where each thread stands decides who has the mutex and whose name is in
\* owner_thr_: the owner's name is there only while it has the mutex, so that
\* a thread that reads its own name without the mutex does hold it.
MutexInv ==
    /\ v3 \in Int
    /\ v4 \in [Tids -> {"out", "lock", "trylock", "own", "level", "unlock"}]
    /\ v5 \in [Tids -> Nat]
    /\ \A t \in Tids :
          /\ v4[t] \in {"own", "level", "unlock"} \/ v5[t] > 0 => v1 = t
          /\ v5[t] > 0 => v4[t] = "out" /\ v3 = v5[t] - 1
          /\ v2 = t <=> v4[t] = "level" \/ v5[t] > 0

\* Every step of every thread keeps it.
LEMMA MutexKeeps ==
    ASSUME MutexInv, Mutex!Next PROVE MutexInv'
<1>0. Nil \notin Tids
  BY PartsAssumption
<1>1. PICK t \in Tids :
        \/ Mutex!acquire_again(t) \/ Mutex!acquire(t) \/ Mutex!try_acquire(t) \/ Mutex!Locks(t)
        \/ Mutex!Busy(t) \/ Mutex!SetOwner(t) \/ Mutex!SetLevel(t) \/ Mutex!release_refused(t)
        \/ Mutex!release_nested(t) \/ Mutex!release_disown(t) \/ Mutex!release_unlock(t)
  BY DEF Mutex!Next
<1> USE <1>0 DEF MutexInv, Mutex!Goto
<1>2. CASE Mutex!acquire_again(t)
  BY <1>2 DEF Mutex!acquire_again, Mutex!Took
<1>3. CASE Mutex!acquire(t) \/ Mutex!try_acquire(t)
  BY <1>3 DEF Mutex!acquire, Mutex!try_acquire
<1>4. CASE Mutex!Locks(t)
  BY <1>4 DEF Mutex!Locks
<1>5. CASE Mutex!Busy(t)
  BY <1>5 DEF Mutex!Busy
<1>6. CASE Mutex!SetOwner(t)
  BY <1>6 DEF Mutex!SetOwner
<1>7. CASE Mutex!SetLevel(t)
  BY <1>7 DEF Mutex!SetLevel, Mutex!Took
<1>8. CASE Mutex!release_refused(t)
  BY <1>8 DEF Mutex!release_refused
<1>9. CASE Mutex!release_nested(t)
  BY <1>9 DEF Mutex!release_nested
<1>10. CASE Mutex!release_disown(t)
  BY <1>10 DEF Mutex!release_disown
<1>11. CASE Mutex!release_unlock(t)
  BY <1>11 DEF Mutex!release_unlock
<1> QED BY <1>1, <1>2, <1>3, <1>4, <1>5, <1>6, <1>7, <1>8, <1>9, <1>10, <1>11

----------------------------------------------------------------------------
(* task_base (TaskBase): v1 is lock_, v2 thr_count_, v3 what each thread    *)
(* does and v4 what each caller does.                                       *)

Crew == [at : {"out", "lock", "spawn"}, n : Nat, left : Nat, append : BOOLEAN,
         detach : BOOLEAN, ids : Seq(Tids)]

\* lock_ is with the caller that spawns.  The count covers the threads that
\* are alive: while one spawns together with those it has had to start, which
\* it counts whether they started or not.
TaskInv ==
    /\ v2 \in Int
    /\ v3 \in [Tids -> {"unused", "svc", "cleanup", "ended"}]
    /\ v4 \in [Callers -> Crew]
    /\ v1 \in Callers \cup {Nil}
    /\ \A c \in Callers : (v4[c].at = "spawn" <=> v1 = c) /\ v4[c].left <= v4[c].n
    /\ v1 = Nil => Cardinality(Task!Alive) <= v2
    /\ v1 # Nil => Cardinality(Task!Alive) <= v2 + v4[v1].n - v4[v1].left
    /\ Task!FreshCrew

\* The threads alive are finitely many, before and after a step.
LEMMA AliveFinite ==
    /\ IsFiniteSet(Task!Alive) /\ Cardinality(Task!Alive) \in Nat
    /\ IsFiniteSet(Task!Alive') /\ Cardinality(Task!Alive') \in Nat
<1>1. Task!Alive \subseteq Tids /\ Task!Alive' \subseteq Tids
  BY DEF Task!Alive
<1> QED BY <1>1, PartsAssumption, FS_Subset, FS_CardinalityType

\* A thread that is appended to the ids is one of them, with those before.
LEMMA IdsGrow ==
    ASSUME NEW ids \in Seq(Tids), NEW t \in Tids
    PROVE  Append(ids, t) \in Seq(Tids) /\ Task!ToSet(Append(ids, t)) = Task!ToSet(ids) \cup {t}
<1>1. /\ Append(ids, t) \in Seq(Tids) /\ DOMAIN Append(ids, t) = 1 .. Len(ids) + 1
      /\ DOMAIN ids = 1 .. Len(ids) /\ Len(ids) \in Nat
      /\ Append(ids, t)[Len(ids) + 1] = t /\ \A i \in 1 .. Len(ids) : Append(ids, t)[i] = ids[i]
  OBVIOUS
<1>2. ASSUME NEW i \in 1 .. Len(ids) + 1 PROVE Append(ids, t)[i] \in Task!ToSet(ids) \cup {t}
  <2>1. CASE i \in 1 .. Len(ids)
    BY <2>1, <1>1 DEF Task!ToSet
  <2>2. CASE i = Len(ids) + 1
    BY <2>2, <1>1
  <2> QED BY <1>1, <2>1, <2>2
<1>3. ASSUME NEW i \in 1 .. Len(ids) PROVE ids[i] \in Task!ToSet(Append(ids, t))
  BY <1>1 DEF Task!ToSet
<1>4. t \in Task!ToSet(Append(ids, t))
  <2>1. Len(ids) + 1 \in 1 .. Len(ids) + 1
    BY <1>1
  <2> QED BY <1>1, <2>1, Zenon DEF Task!ToSet
<1> QED BY <1>1, <1>2, <1>3, <1>4 DEF Task!ToSet

\* A step of a caller that holds no lock and gets none leaves the rest alone.
LEMMA CallerMoves ==
    ASSUME TaskInv, NEW c \in Callers, NEW crew \in Crew, v4' = [v4 EXCEPT ![c] = crew],
           v4[c].at # "spawn", crew.at # "spawn", crew.left <= crew.n, v1' = v1, v2' = v2,
           v3' \in [Tids -> {"unused", "svc", "cleanup", "ended"}], Task!Alive' = Task!Alive
    PROVE  TaskInv'
<1>1. v1 # c /\ v4' \in [Callers -> Crew] /\ \A d \in Callers \ {c} : v4'[d] = v4[d]
  BY DEF TaskInv
<1>2. \A d \in Callers : (v4'[d].at = "spawn" <=> v1' = d) /\ v4'[d].left <= v4'[d].n
  BY <1>1 DEF TaskInv
<1>3. Task!FreshCrew'
  BY <1>1 DEF TaskInv, Task!FreshCrew
<1>4. v1' # Nil => v4'[v1'] = v4[v1]
  BY <1>1 DEF TaskInv
<1> QED BY <1>1, <1>2, <1>3, <1>4 DEF TaskInv

\* Every step of the callers and of the threads keeps the invariant.
LEMMA TaskKeeps ==
    ASSUME TaskInv, Task!Next PROVE TaskInv'
<1>1. Nil \notin Callers /\ MaxThreads \in Nat
  BY PartsAssumption
<1>2. /\ Task!Outside \in Crew /\ Task!Outside.at = "out" /\ Task!Outside.ids = <<>>
      /\ Task!Outside.left <= Task!Outside.n
  BY DEF Task!Outside, Crew
<1>3. ASSUME NEW c \in Callers, NEW n \in 1 .. MaxThreads, NEW append \in BOOLEAN, NEW detach \in BOOLEAN,
             Task!activate(c, n, append, detach)
      PROVE  TaskInv'
  <2>1. PICK crew : crew = [at |-> "lock", n |-> n, left |-> n, append |-> append, detach |-> detach, ids |-> <<>>]
    OBVIOUS
  <2>2. crew \in Crew /\ crew.at # "spawn" /\ crew.left <= crew.n
    BY <1>1, <2>1 DEF Crew
  <2>3. v4' = [v4 EXCEPT ![c] = crew] /\ v4[c].at # "spawn" /\ UNCHANGED <<v1, v2, v3>>
    BY <1>3, <2>1 DEF Task!activate
  <2>4. Task!Alive' = Task!Alive /\ v3' \in [Tids -> {"unused", "svc", "cleanup", "ended"}]
    BY <2>3 DEF Task!Alive, TaskInv
  <2> QED BY <2>2, <2>3, <2>4, CallerMoves
<1>4. ASSUME NEW c \in Callers, Task!Enter(c) PROVE TaskInv'
  <2>1. v1 = Nil /\ v4[c].at = "lock" /\ UNCHANGED <<v2, v3>>
    BY <1>4 DEF Task!Enter, Task!Decide
  <2>2. Task!Alive' = Task!Alive /\ v3' \in [Tids -> {"unused", "svc", "cleanup", "ended"}]
    BY <2>1 DEF Task!Alive, TaskInv
  <2>3. CASE v4' = [v4 EXCEPT ![c] = Task!Outside] /\ UNCHANGED v1
    BY <1>2, <2>1, <2>2, <2>3, CallerMoves
  <2>4. CASE v4' = [v4 EXCEPT ![c].at = "spawn"] /\ v1' = c /\ ~(v2 > 0 /\ ~v4[c].append)
    <3>1. PICK crew : crew = [v4[c] EXCEPT !.at = "spawn"]
      OBVIOUS
    <3>2. /\ crew \in Crew /\ crew.at = "spawn" /\ crew.n = v4[c].n /\ crew.left = v4[c].left
          /\ crew.append = v4[c].append /\ crew.ids = v4[c].ids
      BY <3>1 DEF Crew, TaskInv
    <3>3. v4' \in [Callers -> Crew] /\ v4'[c] = crew /\ \A d \in Callers \ {c} : v4'[d] = v4[d]
      BY <2>4, <3>1, <3>2 DEF TaskInv
    <3>4. \A d \in Callers : (v4'[d].at = "spawn" <=> v1' = d) /\ v4'[d].left <= v4'[d].n
      BY <1>1, <2>1, <2>4, <3>2, <3>3 DEF TaskInv
    <3>5. Task!FreshCrew'
      <4> SUFFICES ASSUME NEW d \in Callers, v4'[d].at = "spawn", ~v4'[d].append
                   PROVE  Task!Alive' = {}
        BY DEF Task!FreshCrew
      <4>1. d = c /\ ~v4[c].append
        BY <2>4, <3>2, <3>3, <3>4
      <4>2. Cardinality(Task!Alive) <= v2 /\ ~(v2 > 0) /\ v2 \in Int
        BY <2>1, <2>4, <4>1 DEF TaskInv
      <4>3. Cardinality(Task!Alive) = 0
        BY <4>2, AliveFinite
      <4> QED BY <4>3, <2>2, AliveFinite, FS_EmptySet
    <3>6. Cardinality(Task!Alive') <= v2' + v4'[v1'].n - v4'[v1'].left
      <4>1. crew.n \in Nat /\ crew.left \in Nat /\ crew.left <= crew.n
        BY <3>2 DEF Crew, TaskInv
      <4>2. Cardinality(Task!Alive') = Cardinality(Task!Alive) /\ Cardinality(Task!Alive) <= v2 /\ v2' = v2 /\ v2 \in Int
        BY <2>1, <2>2 DEF TaskInv
      <4>3. v4'[v1'] = crew
        BY <2>4, <3>3
      <4>4. Cardinality(Task!Alive) <= v2 + crew.n - crew.left
        BY <4>1, <4>2, AliveFinite
      <4> QED BY <4>2, <4>3, <4>4
    <3> QED BY <1>1, <2>1, <2>2, <2>4, <3>3, <3>4, <3>5, <3>6 DEF TaskInv
  <2> QED BY <1>4, <2>3, <2>4 DEF Task!Enter, Task!Decide
<1>5. ASSUME NEW c \in Callers, v4[c].at = "spawn", NEW crew \in Crew, v4' = [v4 EXCEPT ![c] = crew],
             crew.at = "spawn", crew.n = v4[c].n, crew.left < v4[c].left, crew.append = v4[c].append,
             UNCHANGED <<v1, v2>>, v3' \in [Tids -> {"unused", "svc", "cleanup", "ended"}],
             Cardinality(Task!Alive') <= Cardinality(Task!Alive) + v4[c].left - crew.left,
             ~v4[c].append => Task!Alive' \subseteq Task!ToSet(crew.ids)
      PROVE  TaskInv'
  <2>1. v1 = c /\ v1 # Nil /\ v4' \in [Callers -> Crew] /\ v4'[c] = crew /\ \A d \in Callers \ {c} : v4'[d] = v4[d]
    BY <1>1, <1>5 DEF TaskInv
  <2>2. \A d \in Callers : (v4'[d].at = "spawn" <=> v1' = d) /\ v4'[d].left <= v4'[d].n
    BY <1>5, <2>1 DEF TaskInv, Crew
  <2>3. Cardinality(Task!Alive') <= v2' + v4'[v1'].n - v4'[v1'].left
    <3>1. /\ Cardinality(Task!Alive) <= v2 + v4[c].n - v4[c].left
          /\ v2 \in Int /\ v4[c].n \in Int /\ v4[c].left \in Int
      BY <1>5, <2>1 DEF TaskInv, Crew
    <3>2. v2' = v2 /\ v4'[v1'] = crew /\ crew.n = v4[c].n /\ crew.left \in Int
      BY <1>5, <2>1 DEF Crew
    <3>3. Cardinality(Task!Alive) \in Int /\ Cardinality(Task!Alive') \in Int
      BY AliveFinite
    <3> QED BY <1>5, <3>1, <3>2, <3>3
  <2>4. Task!FreshCrew'
    BY <1>5, <2>1, <2>2 DEF Task!FreshCrew
  <2> QED BY <1>5, <2>1, <2>2, <2>3, <2>4 DEF TaskInv
<1>6. ASSUME NEW c \in Callers, NEW t \in Tids, Task!spawn(c, t) PROVE TaskInv'
  <2>1. PICK crew : crew = [v4[c] EXCEPT !.left = @ - 1, !.ids = Append(@, t)]
    OBVIOUS
  <2>2. v4[c] \in Crew /\ v4[c].ids \in Seq(Tids) /\ v4[c].left \in Nat /\ v4[c].left > 0
    BY <1>6 DEF Task!spawn, TaskInv, Crew
  <2>3. Append(v4[c].ids, t) \in Seq(Tids) /\ Task!ToSet(Append(v4[c].ids, t)) = Task!ToSet(v4[c].ids) \cup {t}
    BY <2>2, IdsGrow
  <2>4. /\ crew \in Crew /\ crew.at = v4[c].at /\ crew.n = v4[c].n /\ crew.append = v4[c].append
        /\ crew.left = v4[c].left - 1 /\ crew.ids = Append(v4[c].ids, t)
    <3>1. PICK left : left = v4[c].left - 1
      OBVIOUS
    <3>2. PICK ids : ids = Append(v4[c].ids, t)
      OBVIOUS
    <3>3. left \in Nat /\ ids \in Seq(Tids) /\ crew = [v4[c] EXCEPT !.left = left, !.ids = ids]
      BY <2>1, <2>2, <2>3, <3>1, <3>2
    <3>4. /\ crew \in Crew /\ crew.at = v4[c].at /\ crew.n = v4[c].n /\ crew.append = v4[c].append
          /\ crew.left = left /\ crew.ids = ids
      BY <2>2, <3>3 DEF Crew
    <3> QED BY <3>1, <3>2, <3>4
  <2>5. /\ v4[c].at = "spawn" /\ v4' = [v4 EXCEPT ![c] = crew] /\ UNCHANGED <<v1, v2>>
        /\ v3[t] = "unused" /\ v3' = [v3 EXCEPT ![t] = "svc"]
    BY <1>6, <2>1 DEF Task!spawn, TaskInv
  <2>6. Task!Alive' = Task!Alive \cup {t} /\ t \notin Task!Alive
        /\ v3' \in [Tids -> {"unused", "svc", "cleanup", "ended"}]
    BY <2>5 DEF Task!Alive, TaskInv
  <2>7. Cardinality(Task!Alive') = Cardinality(Task!Alive) + 1
    BY <2>6, AliveFinite, FS_AddElement
  <2>8. ~v4[c].append => Task!Alive' \subseteq Task!ToSet(crew.ids)
    BY <2>3, <2>4, <2>5, <2>6 DEF TaskInv, Task!FreshCrew
  <2>9. /\ crew.left < v4[c].left /\ crew.at = "spawn"
        /\ Cardinality(Task!Alive') <= Cardinality(Task!Alive) + v4[c].left - crew.left
    BY <2>2, <2>4, <2>5, <2>7, AliveFinite
  <2> QED BY <1>5, <2>4, <2>5, <2>6, <2>8, <2>9, Zenon
<1>7. ASSUME NEW c \in Callers, Task!spawn_fails(c) PROVE TaskInv'
  <2>1. PICK crew : crew = [v4[c] EXCEPT !.left = 0]
    OBVIOUS
  <2>2. v4[c] \in Crew /\ v4[c].left \in Nat /\ v4[c].left > 0
    BY <1>7 DEF Task!spawn_fails, TaskInv, Crew
  <2>3. /\ crew \in Crew /\ crew.at = v4[c].at /\ crew.n = v4[c].n /\ crew.append = v4[c].append
        /\ crew.left = 0 /\ crew.ids = v4[c].ids
    BY <2>1, <2>2 DEF Crew
  <2>4. v4[c].at = "spawn" /\ v4' = [v4 EXCEPT ![c] = crew] /\ UNCHANGED <<v1, v2, v3>>
    BY <1>7, <2>1 DEF Task!spawn_fails, TaskInv
  <2>5. Task!Alive' = Task!Alive /\ v3' \in [Tids -> {"unused", "svc", "cleanup", "ended"}]
    BY <2>4 DEF Task!Alive, TaskInv
  <2>6. ~v4[c].append => Task!Alive' \subseteq Task!ToSet(crew.ids)
    BY <2>3, <2>4, <2>5 DEF TaskInv, Task!FreshCrew
  <2>7. /\ crew.left < v4[c].left /\ crew.at = "spawn"
        /\ Cardinality(Task!Alive') <= Cardinality(Task!Alive) + v4[c].left - crew.left
    BY <2>2, <2>3, <2>4, <2>5, AliveFinite
  <2> QED BY <1>5, <2>3, <2>4, <2>5, <2>6, <2>7, Zenon
<1>8. ASSUME NEW c \in Callers, Task!Counted(c) PROVE TaskInv'
  <2>1. PICK crew : crew = IF v4[c].detach THEN Task!Outside ELSE [Task!Outside EXCEPT !.ids = v4[c].ids]
    OBVIOUS
  <2>2. crew \in Crew /\ crew.at = "out" /\ crew.left <= crew.n
    BY <1>2, <2>1 DEF TaskInv, Crew, Task!Outside
  <2>3. /\ v4[c].at = "spawn" /\ v4[c].left = 0 /\ v4' = [v4 EXCEPT ![c] = crew]
        /\ v2' = v2 + v4[c].n /\ v1' = Nil /\ UNCHANGED v3
    BY <1>8, <2>1 DEF Task!Counted
  <2>4. v1 = c /\ v1 # Nil /\ v4' \in [Callers -> Crew] /\ v4'[c] = crew /\ \A d \in Callers \ {c} : v4'[d] = v4[d]
    BY <1>1, <2>2, <2>3 DEF TaskInv
  <2>5. \A d \in Callers : v4'[d].at # "spawn" /\ v4'[d].left <= v4'[d].n /\ v1' # d
    BY <1>1, <2>2, <2>3, <2>4 DEF TaskInv
  <2>6. Task!Alive' = Task!Alive
    BY <2>3 DEF Task!Alive
  <2>7. v2' \in Int /\ Cardinality(Task!Alive') <= v2'
    BY <2>3, <2>4, <2>6, AliveFinite DEF TaskInv, Crew
  <2> QED BY <2>3, <2>4, <2>5, <2>7 DEF TaskInv, Task!FreshCrew
<1>9. ASSUME NEW c \in Callers, Task!wait(c) PROVE TaskInv'
  <2>1. PICK crew : crew = [v4[c] EXCEPT !.ids = Tail(@)]
    OBVIOUS
  <2>2. v4[c] \in Crew /\ v4[c].ids \in Seq(Tids) /\ v4[c].ids # <<>>
    BY <1>9 DEF Task!wait, TaskInv, Crew
  <2>3. Tail(v4[c].ids) \in Seq(Tids) /\ Head(v4[c].ids) \in Tids
    BY <2>2
  <2>4. crew \in Crew /\ crew.at = v4[c].at /\ crew.left <= crew.n
    BY <2>1, <2>2, <2>3 DEF Crew, TaskInv
  <2>5. /\ v4[c].at = "out" /\ v4' = [v4 EXCEPT ![c] = crew] /\ UNCHANGED <<v1, v2>>
        /\ v3[Head(v4[c].ids)] = "ended" /\ v3' = [v3 EXCEPT ![Head(v4[c].ids)] = "unused"]
    BY <1>9, <2>1 DEF Task!wait, TaskInv
  <2>6. Task!Alive' = Task!Alive /\ v3' \in [Tids -> {"unused", "svc", "cleanup", "ended"}]
    BY <2>3, <2>5 DEF Task!Alive, TaskInv
  <2> QED BY <2>4, <2>5, <2>6, CallerMoves
<1>10. ASSUME NEW t \in Tids, Task!svc_run(t) PROVE TaskInv'
  <2>1. UNCHANGED <<v1, v2, v4>> /\ v3[t] = "svc" /\ v3' = [v3 EXCEPT ![t] = "cleanup"]
    BY <1>10 DEF Task!svc_run
  <2>2. Task!Alive' = Task!Alive /\ v3' \in [Tids -> {"unused", "svc", "cleanup", "ended"}]
    BY <2>1 DEF Task!Alive, TaskInv
  <2> QED BY <2>1, <2>2 DEF TaskInv, Task!FreshCrew
<1>11. ASSUME NEW t \in Tids, Task!cleanup(t) PROVE TaskInv'
  <2>1. PICK w \in {"unused", "ended"} : v3' = [v3 EXCEPT ![t] = w]
    BY <1>11 DEF Task!cleanup
  <2>2. v1 = Nil /\ UNCHANGED <<v1, v4>> /\ v3[t] = "cleanup" /\ v2' = v2 - 1
    BY <1>11 DEF Task!cleanup
  <2>3. Task!Alive' = Task!Alive \ {t} /\ t \in Task!Alive
        /\ v3' \in [Tids -> {"unused", "svc", "cleanup", "ended"}]
    BY <2>1, <2>2 DEF Task!Alive, TaskInv
  <2>4. Cardinality(Task!Alive') = Cardinality(Task!Alive) - 1
    BY <2>3, AliveFinite, FS_RemoveElement
  <2>5. v2' \in Int /\ Cardinality(Task!Alive') <= v2'
    BY <2>2, <2>4, AliveFinite DEF TaskInv
  <2>6. Task!FreshCrew'
    BY <1>1, <2>2 DEF TaskInv, Task!FreshCrew
  <2> QED BY <2>2, <2>3, <2>5, <2>6 DEF TaskInv
<1> QED BY <1>3, <1>4, <1>6, <1>7, <1>8, <1>9, <1>10, <1>11 DEF Task!Next

\* recursive_thread_mutex: a thread with acquires outstanding holds the mutex,
\* is the recorded owner, and its level is exact, although owner_thr_ is read
\* without the mutex; task_base::activate lets in one crew of threads at a
\* time, however fast a thread ends.  For any threads and callers.
THEOREM ThreadsStaySound == PartsSpec => []ThreadsSound
<1> DEFINE Inv == (part = "mutex" => MutexInv) /\ (part = "task" => TaskInv)
<1>1. PartsInit => Inv
  <2>1. ASSUME PartsInit, part = "mutex" PROVE MutexInv
    <3>1. Mutex!Init
      BY <2>1 DEF PartsInit
    <3> QED BY <3>1, PartsAssumption DEF Mutex!Init, MutexInv
  <2>2. ASSUME PartsInit, part = "task" PROVE TaskInv
    <3>1. Task!Init
      BY <2>2 DEF PartsInit
    <3>2. Task!Outside \in Crew /\ Task!Outside.at = "out" /\ Task!Outside.left <= Task!Outside.n
      BY DEF Task!Outside, Crew
    <3>3. Task!Alive = {}
      BY <3>1 DEF Task!Init, Task!Alive
    <3>4. Cardinality(Task!Alive) <= v2
      BY <3>1, <3>3, FS_EmptySet DEF Task!Init
    <3> QED BY <3>1, <3>2, <3>3, <3>4, PartsAssumption DEF Task!Init, TaskInv, Task!FreshCrew
  <2> QED BY <2>1, <2>2
<1>2. Inv /\ [PartsNext]_state => Inv'
  <2> SUFFICES ASSUME Inv, [PartsNext]_state PROVE Inv'
    OBVIOUS
  <2>1. CASE UNCHANGED state
    BY <2>1 DEF state, MutexInv, TaskInv, Task!Alive, Task!FreshCrew
  <2>2. CASE PartsNext
    <3>1. part' = part /\ (part = "mutex" => Mutex!Next) /\ (part = "task" => Task!Next)
      BY <2>2 DEF PartsNext
    <3> QED BY <3>1, MutexKeeps, TaskKeeps
  <2> QED BY <2>1, <2>2
<1>3. Inv => ThreadsSound
  BY DEF ThreadsSound, Mutex!Reentrant, MutexInv, TaskInv
<1> QED BY <1>1, <1>2, <1>3, PTL DEF PartsSpec

----------------------------------------------------------------------------
(* The pull side of fcache (FcachePull): v1 is client, v2 pulling, v3 the   *)
(* agent, v4 its step, v5 susp, v6 the transfer, v7 the pipes, v8 disk, v9  *)
(* notes and v10 fault.                                                     *)

Agents == [life : {"none", "connecting", "waiting", "content", "gone"}, chunk : Nat, pb : Int,
           recv : Int, rd : Int, wr : Int, first : BOOLEAN]
Transfers == [life : {"live", "deleted"}, run : BOOLEAN, pc : {"start", "read", "eof", "send"},
              chunk : Nat, pb : Int, rd : Int, buf : Int, out : Int, pos : Int, sent : Int, remain : Int]
Pipes == [live : BOOLEAN, size : Int, wr : Int, ref : Int, io : BOOLEAN]

PullTypes ==
    /\ v3 \in Agents
    /\ v4 \in {"idle", "write", "all", "full", "suspended"}
    /\ v6 = Pull!NoXfer \/ v6 \in Transfers
    /\ v7 \in [Pull!Chunks -> Pipes]

\* A pipe_buffer with n holders.
HeldBy(p, n) ==
    /\ n > 0 => p.live
    /\ p.live => n <= p.ref
    /\ p.io => p.ref = 0

AgentCount(k) == IF v3.pb = k THEN 1 ELSE 0
XferCount(k) == IF v6.life = "live" /\ v6.pb = k THEN 1 ELSE 0

\* The last chunk the transfer has made a pipe_buffer for.
LastMade == IF v6.life = "none" THEN 0 ELSE v6.chunk

\* Every pipe_buffer counts its holders.  Behind the last one made there is
\* none, so that making the next one disturbs nobody; one the agent has not
\* reached is empty, and is freed, not written, when the transfer closes it.
PipesInv ==
    \A k \in Pull!Chunks :
        /\ HeldBy(v7[k], AgentCount(k) + XferCount(k))
        /\ k > LastMade => ~v7[k].live
        /\ k >= v3.chunk /\ v7[k].live => v7[k].wr = 0 /\ ~v7[k].io

\* Until the header is there nothing has been made.
BeforeContent ==
    /\ v6 = Pull!NoXfer
    /\ v3.pb = -1 /\ v3.first /\ v3.recv = 0 /\ v3.rd = 0 /\ v3.wr = 0
    /\ \A k \in Pull!Chunks : ~v7[k].live

\* The first package fits in the first pipe_buffer, so the agent still holds
\* that one when it starts the transfer, unless the origin sent more than all.
FirstInv ==
    /\ v6 = Pull!NoXfer
    /\ v4 # "suspended" => v3.pb = 0
    /\ v4 \in {"idle", "write"} => /\ v3.recv = 0 /\ v3.rd = 0 /\ v3.wr <= PullBuff
                                   /\ v7[0].wr = 0 /\ v7[0].size = Pull!Lesser(PullChunk, PullLength)
    /\ v4 \in {"full", "suspended"} => v3.recv = PullLength

AgentInv ==
    /\ v3.life \in {"connecting", "waiting"} => v2
    /\ v10 # "remove"
    /\ v4 # "idle" => v3.life = "content"
    /\ v3.pb # -1 => v3.pb \in Pull!Chunks /\ v3.chunk = v3.pb + 1
    /\ v3.life \in {"none", "connecting", "waiting"} => BeforeContent
    /\ v3.life = "content" /\ v3.first => FirstInv

XferInv ==
    v6.life = "live" =>
        /\ v6.pb = -1 \/ v6.pb = v6.chunk
        /\ v6.pb # -1 /\ v10 = "none" => v6.pb \in Pull!Chunks
        /\ v6.pc # "start" => v6.pb # -1

PullInv == PullTypes /\ PipesInv /\ AgentInv /\ XferInv

\* Chunks are numbers, and the first is one of them.
LEMMA ChunksAre == Pull!Chunks \subseteq Nat /\ 0 \in Pull!Chunks /\ -1 \notin Pull!Chunks
<1>1. PullLength \in Nat /\ PullChunk \in Nat /\ PullChunk > 0
  BY PartsAssumption
<1>2. PullLength \div PullChunk \in Nat
  BY <1>1
<1> QED BY <1>2 DEF Pull!Chunks

\* Closing a pipe_buffer takes one of its holders away and opens nothing; where
\* start_aio refuses, its count is too high afterwards.
LEMMA CloseHeld ==
    ASSUME NEW p \in Pipes, NEW n \in Nat, HeldBy(p, n + 1), NEW c \in Pull!pipe_close(p)
    PROVE  /\ c \in Pipes /\ HeldBy(c, n)
           /\ c.live => p.live
           /\ p.wr = 0 /\ ~p.io => c.wr = 0 /\ ~c.io
<1>1. p.live /\ p.ref >= n + 1 /\ p.ref \in Int /\ ~p.io
  BY DEF HeldBy, Pipes
<1>2. CASE p.ref > 1
  <2>1. PICK r \in Int : r = p.ref - 1
    BY <1>1
  <2>2. PICK q : q = [p EXCEPT !.ref = r]
    OBVIOUS
  <2>3. q.ref = r /\ q.live = p.live /\ q.io = p.io /\ q.wr = p.wr
    BY <2>2 DEF Pipes
  <2>4. q \in Pipes
    BY <2>2 DEF Pipes
  <2>5. c = q
    BY <1>2, <2>1, <2>2 DEF Pull!pipe_close
  <2>6. HeldBy(q, n)
    BY <1>1, <1>2, <2>1, <2>3 DEF HeldBy
  <2>7. (q.live => p.live) /\ (p.wr = 0 /\ ~p.io => q.wr = 0 /\ ~q.io)
    BY <2>3
  <2> QED BY <2>4, <2>5, <2>6, <2>7
<1>3. CASE p.ref <= 1 /\ p.wr = 0
  <2>1. PICK q : q = Pull!NoPipe
    OBVIOUS
  <2>2. q \in Pipes /\ q.live = FALSE /\ q.io = FALSE /\ q.ref = 0 /\ q.wr = 0
    BY <2>1 DEF Pipes, Pull!NoPipe
  <2>3. c = q
    BY <1>1, <1>3, <2>1 DEF Pull!pipe_close
  <2> QED BY <1>1, <1>3, <2>2, <2>3 DEF HeldBy
<1>4. CASE p.ref <= 1 /\ p.wr # 0
  <2>0. PICK yes \in BOOLEAN : yes = TRUE
    OBVIOUS
  <2>r. PICK r \in Int : r = 0
    OBVIOUS
  <2>1. PICK q : q = [p EXCEPT !.ref = r, !.io = yes]
    OBVIOUS
  <2>2. q.ref = r /\ q.live = p.live /\ q.io = yes /\ q.wr = p.wr
    BY <2>1 DEF Pipes
  <2>3. q \in Pipes
    BY <2>1 DEF Pipes
  <2>4. c = q \/ c = p
    BY <1>1, <1>4, <2>0, <2>r, <2>1 DEF Pull!pipe_close
  <2>5. HeldBy(q, n) /\ (q.live => p.live)
    BY <1>1, <1>4, <2>r, <2>2 DEF HeldBy
  <2>6. HeldBy(p, n)
    BY <1>1 DEF HeldBy
  <2> QED BY <1>1, <1>4, <2>3, <2>4, <2>5, <2>6
<1> QED BY <1>1, <1>2, <1>3, <1>4

\* The pipe_buffers when chunk h's is closed, if there is one.
Closes(pipes, h) == pipes \in Pull!close_pipe(v7, h) \/ (h \notin Pull!Chunks /\ pipes = v7)

\* A holder h lets its pipe_buffer go: the others still hold theirs.
LEMMA LetGo ==
    ASSUME v7 \in [Pull!Chunks -> Pipes], NEW h \in Int, NEW counts \in [Pull!Chunks -> Nat],
           \A k \in Pull!Chunks : HeldBy(v7[k], IF k = h THEN counts[k] + 1 ELSE counts[k]),
           NEW pipes, Closes(pipes, h)
    PROVE  /\ pipes \in [Pull!Chunks -> Pipes]
           /\ \A k \in Pull!Chunks :
                 /\ HeldBy(pipes[k], counts[k])
                 /\ pipes[k].live => v7[k].live
                 /\ v7[k].wr = 0 /\ ~v7[k].io => pipes[k].wr = 0 /\ ~pipes[k].io
                 /\ k # h => pipes[k] = v7[k]
<1>0. (pipes = v7 /\ h \notin Pull!Chunks) \/ \E q \in Pull!pipe_close(v7[h]) : pipes = [v7 EXCEPT ![h] = q]
  BY DEF Closes, Pull!close_pipe
<1>1. \A k \in Pull!Chunks \ {h} : pipes[k] = v7[k]
  BY <1>0
<1>2. CASE h \notin Pull!Chunks
  <2>1. pipes = v7
    BY <1>0, <1>2
  <2> QED BY <1>2, <2>1
<1>3. CASE h \in Pull!Chunks
  <2>1. v7[h] \in Pipes /\ counts[h] \in Nat /\ HeldBy(v7[h], counts[h] + 1)
    BY <1>3
  <2>2. PICK q \in Pull!pipe_close(v7[h]) : pipes = [v7 EXCEPT ![h] = q]
    BY <1>0, <1>3
  <2>3. /\ q \in Pipes /\ HeldBy(q, counts[h])
        /\ q.live => v7[h].live
        /\ v7[h].wr = 0 /\ ~v7[h].io => q.wr = 0 /\ ~q.io
    BY <2>1, <2>2, CloseHeld
  <2>4. pipes[h] = q /\ pipes = [v7 EXCEPT ![h] = q]
    BY <1>3, <2>2
  <2>5. pipes \in [Pull!Chunks -> Pipes]
    BY <2>3, <2>4
  <2>6. ASSUME NEW k \in Pull!Chunks
        PROVE  /\ HeldBy(pipes[k], counts[k])
               /\ pipes[k].live => v7[k].live
               /\ v7[k].wr = 0 /\ ~v7[k].io => pipes[k].wr = 0 /\ ~pipes[k].io
    <3>1. CASE k = h
      BY <3>1, <2>3, <2>4
    <3>2. CASE k # h
      BY <3>2, <1>1
    <3> QED BY <3>1, <3>2
  <2> QED BY <1>1, <2>5, <2>6
<1> QED BY <1>2, <1>3

\* What is left when the transfer, or the agent, lets its pipe_buffer go.
LEMMA XferLetsGo ==
    ASSUME PullTypes, PipesInv, v6.life = "live", v6 \in Transfers,
           NEW pipes, Closes(pipes, v6.pb)
    PROVE  /\ pipes \in [Pull!Chunks -> Pipes]
           /\ \A k \in Pull!Chunks :
                 /\ HeldBy(pipes[k], AgentCount(k))
                 /\ pipes[k].live => v7[k].live
                 /\ v7[k].wr = 0 /\ ~v7[k].io => pipes[k].wr = 0 /\ ~pipes[k].io
                 /\ k # v6.pb => pipes[k] = v7[k]
<1>1. PICK counts : counts = [k \in Pull!Chunks |-> AgentCount(k)]
  OBVIOUS
<1>2. counts \in [Pull!Chunks -> Nat] /\ \A k \in Pull!Chunks : counts[k] = AgentCount(k) /\ AgentCount(k) \in Nat
  BY <1>1 DEF AgentCount
<1>3. \A k \in Pull!Chunks : HeldBy(v7[k], IF k = v6.pb THEN counts[k] + 1 ELSE counts[k])
  <2> SUFFICES ASSUME NEW k \in Pull!Chunks PROVE HeldBy(v7[k], IF k = v6.pb THEN counts[k] + 1 ELSE counts[k])
    OBVIOUS
  <2>1. AgentCount(k) + XferCount(k) = IF k = v6.pb THEN counts[k] + 1 ELSE counts[k]
    BY <1>2 DEF XferCount
  <2> QED BY <2>1 DEF PipesInv
<1>4. PICK h \in Int : h = v6.pb /\ v7 \in [Pull!Chunks -> Pipes]
  BY DEF PullTypes, Transfers
<1>5. /\ pipes \in [Pull!Chunks -> Pipes]
      /\ \A k \in Pull!Chunks :
            /\ HeldBy(pipes[k], counts[k])
            /\ pipes[k].live => v7[k].live
            /\ v7[k].wr = 0 /\ ~v7[k].io => pipes[k].wr = 0 /\ ~pipes[k].io
            /\ k # h => pipes[k] = v7[k]
  <2>1. \A k \in Pull!Chunks : HeldBy(v7[k], IF k = h THEN counts[k] + 1 ELSE counts[k])
    BY <1>3, <1>4
  <2>2. Closes(pipes, h)
    BY <1>4
  <2>3. counts \in [Pull!Chunks -> Nat]
    BY <1>2
  <2> QED BY <1>4, <2>1, <2>2, <2>3, LetGo
<1> QED BY <1>2, <1>4, <1>5

LEMMA AgentLetsGo ==
    ASSUME PullTypes, PipesInv, NEW pipes, Closes(pipes, v3.pb)
    PROVE  /\ pipes \in [Pull!Chunks -> Pipes]
           /\ \A k \in Pull!Chunks :
                 /\ HeldBy(pipes[k], XferCount(k))
                 /\ pipes[k].live => v7[k].live
                 /\ v7[k].wr = 0 /\ ~v7[k].io => pipes[k].wr = 0 /\ ~pipes[k].io
                 /\ k # v3.pb => pipes[k] = v7[k]
<1>1. PICK counts : counts = [k \in Pull!Chunks |-> XferCount(k)]
  OBVIOUS
<1>2. counts \in [Pull!Chunks -> Nat] /\ \A k \in Pull!Chunks : counts[k] = XferCount(k) /\ XferCount(k) \in Nat
  BY <1>1 DEF XferCount
<1>3. \A k \in Pull!Chunks : HeldBy(v7[k], IF k = v3.pb THEN counts[k] + 1 ELSE counts[k])
  <2> SUFFICES ASSUME NEW k \in Pull!Chunks PROVE HeldBy(v7[k], IF k = v3.pb THEN counts[k] + 1 ELSE counts[k])
    OBVIOUS
  <2>1. AgentCount(k) + XferCount(k) = IF k = v3.pb THEN counts[k] + 1 ELSE counts[k]
    BY <1>2 DEF AgentCount
  <2> QED BY <2>1 DEF PipesInv
<1>4. PICK h \in Int : h = v3.pb /\ v7 \in [Pull!Chunks -> Pipes]
  BY DEF PullTypes, Agents
<1>5. /\ pipes \in [Pull!Chunks -> Pipes]
      /\ \A k \in Pull!Chunks :
            /\ HeldBy(pipes[k], counts[k])
            /\ pipes[k].live => v7[k].live
            /\ v7[k].wr = 0 /\ ~v7[k].io => pipes[k].wr = 0 /\ ~pipes[k].io
            /\ k # h => pipes[k] = v7[k]
  <2>1. \A k \in Pull!Chunks : HeldBy(v7[k], IF k = h THEN counts[k] + 1 ELSE counts[k])
    BY <1>3, <1>4
  <2>2. Closes(pipes, h)
    BY <1>4
  <2>3. counts \in [Pull!Chunks -> Nat]
    BY <1>2
  <2> QED BY <1>4, <2>1, <2>2, <2>3, LetGo
<1> QED BY <1>2, <1>4, <1>5

\* Fewer holders are held all the more.
LEMMA HeldByFewer ==
    ASSUME NEW p \in Pipes, NEW n \in Nat, HeldBy(p, n), NEW m \in Nat, m <= n
    PROVE  HeldBy(p, m)
  BY DEF HeldBy, Pipes

LEMMA Counts ==
    ASSUME NEW k
    PROVE  /\ AgentCount(k) \in Nat /\ XferCount(k) \in Nat
           /\ AgentCount(k)' \in Nat /\ XferCount(k)' \in Nat
  BY DEF AgentCount, XferCount

\* Nothing happens to the pipe_buffers of a step that opens, closes and makes none.
LEMMA PipesSame ==
    ASSUME PullTypes, PipesInv, v7' = v7, v3'.chunk = v3.chunk, v3'.pb \in {v3.pb, -1},
           v6'.life = v6.life, v6.life # "none" => v6'.pb = v6.pb /\ v6'.chunk = v6.chunk
    PROVE  PipesInv'
<1> SUFFICES ASSUME NEW k \in Pull!Chunks
             PROVE  /\ HeldBy(v7[k], AgentCount(k)' + XferCount(k)')
                    /\ k > LastMade' => ~v7[k].live
                    /\ k >= v3.chunk /\ v7[k].live => v7[k].wr = 0 /\ ~v7[k].io
  BY DEF PipesInv, HeldBy
<1>1. AgentCount(k)' <= AgentCount(k) /\ XferCount(k)' = XferCount(k)
  BY ChunksAre DEF AgentCount, XferCount
<1>2. HeldBy(v7[k], AgentCount(k) + XferCount(k)) /\ v7[k] \in Pipes
  BY DEF PipesInv, PullTypes
<1>3. AgentCount(k)' + XferCount(k)' <= AgentCount(k) + XferCount(k)
  BY <1>1, Counts
<1>4. HeldBy(v7[k], AgentCount(k)' + XferCount(k)')
  <2>1. PICK n \in Nat : n = AgentCount(k) + XferCount(k)
    BY Counts
  <2>2. PICK m \in Nat : m = AgentCount(k)' + XferCount(k)'
    BY Counts
  <2> QED BY <1>2, <1>3, <2>1, <2>2, HeldByFewer
<1>5. LastMade' = LastMade
  BY DEF LastMade
<1> QED BY <1>4, <1>5 DEF PipesInv

\* The fields of a transfer that there is not.
LEMMA NoTransfer == Pull!NoXfer.life = "none"
  BY DEF Pull!NoXfer

\* A transfer that lives is one with all its fields.
LEMMA LiveTransfer ==
    ASSUME PullTypes, v6.life # "none"
    PROVE  v6 \in Transfers
  BY NoTransfer DEF PullTypes

----------------------------------------------------------------------------
\* An agent after a step that changes only where it is in its life.
LEMMA AgentLife ==
    ASSUME NEW a \in Agents, NEW l \in {"none", "connecting", "waiting", "content", "gone"},
           NEW b, b = [a EXCEPT !.life = l]
    PROVE  /\ b \in Agents /\ b.life = l /\ b.chunk = a.chunk /\ b.pb = a.pb
           /\ b.recv = a.recv /\ b.rd = a.rd /\ b.wr = a.wr /\ b.first = a.first
<1>1. /\ b.life = l /\ b.chunk = a.chunk /\ b.pb = a.pb
      /\ b.recv = a.recv /\ b.rd = a.rd /\ b.wr = a.wr /\ b.first = a.first
  BY DEF Agents
<1>2. b \in Agents
  BY DEF Agents
<1> QED BY <1>1, <1>2

\* handle_pull_file, open and handle_close before the header.
LEMMA ConnectingKeeps ==
    ASSUME PullInv, Pull!handle_pull_file \/ Pull!AgentOpen \/ Pull!PullFails PROVE PullInv'
<1>0. v3 \in Agents /\ v3.life \in {"none", "connecting", "waiting"} /\ v4 = "idle"
  BY DEF PullInv, PullTypes, AgentInv, Pull!handle_pull_file, Pull!AgentOpen, Pull!PullFails
<1>1. BeforeContent
  BY <1>0 DEF PullInv, AgentInv
<1>2. PICK l \in {"connecting", "waiting", "gone"} : v3' = [v3 EXCEPT !.life = l]
  BY DEF Pull!handle_pull_file, Pull!AgentOpen, Pull!PullFails
<1>3. /\ v3' \in Agents /\ v3'.life = l /\ v3'.chunk = v3.chunk /\ v3'.pb = v3.pb
      /\ v3'.recv = v3.recv /\ v3'.rd = v3.rd /\ v3'.wr = v3.wr /\ v3'.first = v3.first
  BY <1>0, <1>2, AgentLife
<1>4. v7' = v7 /\ v6' = v6 /\ v4' = v4
  BY <1>1, NoTransfer DEF BeforeContent, Pull!handle_pull_file, Pull!AgentOpen, Pull!PullFails, Pull!DropClient
<1>5. PullTypes'
  BY <1>3, <1>4 DEF PullInv, PullTypes
<1>6. PipesInv'
  BY <1>3, <1>4, PipesSame DEF PullInv
<1>7. XferInv'
  BY <1>1, <1>4, NoTransfer DEF XferInv, BeforeContent
<1>8. v3'.life \in {"connecting", "waiting"} => v2'
  <2>1. CASE Pull!handle_pull_file
    BY <2>1 DEF Pull!handle_pull_file
  <2>2. CASE Pull!AgentOpen
    BY <2>2 DEF Pull!AgentOpen, PullInv, AgentInv
  <2>3. CASE Pull!PullFails
    <3>1. v3' = [v3 EXCEPT !.life = "gone"]
      BY <2>3 DEF Pull!PullFails
    <3>2. v3'.life = "gone"
      BY <1>0, <3>1 DEF Agents
    <3> QED BY <3>2
  <2> QED BY <2>1, <2>2, <2>3
<1>9. v10' # "remove"
  <2>1. CASE Pull!PullFails
    BY <2>1 DEF Pull!PullFails, Pull!remove_url, PullInv, AgentInv
  <2>2. CASE ~Pull!PullFails
    BY <2>2 DEF Pull!handle_pull_file, Pull!AgentOpen, PullInv, AgentInv
  <2> QED BY <2>1, <2>2
<1>10. BeforeContent'
  BY <1>1, <1>3, <1>4 DEF BeforeContent
<1>11. AgentInv'
  BY <1>0, <1>1, <1>3, <1>4, <1>8, <1>9, <1>10 DEF AgentInv, BeforeContent
<1> QED BY <1>5, <1>6, <1>7, <1>11 DEF PullInv

\* The client hangs up: its transfer lets the pipe_buffer go.
LEMMA HangUpKeeps ==
    ASSUME PullInv, Pull!HangUp PROVE PullInv'
<1>1. UNCHANGED <<v2, v3, v4, v10>> /\ Pull!DropClient(v7)
  BY DEF Pull!HangUp
<1>2. CASE v6.life # "live"
  <2>1. v6' = v6 /\ v7' = v7
    BY <1>1, <1>2 DEF Pull!DropClient
  <2>2. PipesInv'
    BY <1>1, <2>1, PipesSame DEF PullInv
  <2> QED BY <1>1, <2>1, <2>2 DEF PullInv, PullTypes, AgentInv, XferInv, BeforeContent, FirstInv
<1>3. CASE v6.life = "live"
  <2>1. v6 \in Transfers
    BY <1>3, LiveTransfer DEF PullInv
  <2>2. PICK m \in Int : m = -1
    OBVIOUS
  <2>3. PICK z \in Int : z = 0
    OBVIOUS
  <2>4. v6' = [v6 EXCEPT !.life = "deleted", !.pb = m, !.buf = z, !.out = z, !.pc = "start"]
    BY <1>1, <1>3, <2>2, <2>3 DEF Pull!DropClient, Pull!None
  <2>5. v6'.life = "deleted" /\ v6'.chunk = v6.chunk
    BY <2>1, <2>4 DEF Transfers
  <2>6. v6' \in Transfers
    BY <2>1, <2>4 DEF Transfers
  <2>7. Closes(v7', v6.pb)
    <3>1. CASE v6.pb = -1
      BY <1>1, <1>3, <3>1, ChunksAre DEF Pull!DropClient, Pull!None, Closes
    <3>2. CASE v6.pb # -1
      BY <1>1, <1>3, <3>2 DEF Pull!DropClient, Pull!None, Closes
    <3> QED BY <3>1, <3>2
  <2>8. /\ v7' \in [Pull!Chunks -> Pipes]
        /\ \A k \in Pull!Chunks :
              /\ HeldBy(v7'[k], AgentCount(k))
              /\ v7'[k].live => v7[k].live
              /\ v7[k].wr = 0 /\ ~v7[k].io => v7'[k].wr = 0 /\ ~v7'[k].io
              /\ k # v6.pb => v7'[k] = v7[k]
    BY <1>3, <2>1, <2>7, XferLetsGo DEF PullInv
  <2>9. PullTypes'
    BY <1>1, <2>6, <2>8 DEF PullInv, PullTypes
  <2>10. ASSUME NEW k \in Pull!Chunks
         PROVE  /\ HeldBy(v7'[k], AgentCount(k)' + XferCount(k)')
                /\ k > LastMade' => ~v7'[k].live
                /\ k >= v3'.chunk /\ v7'[k].live => v7'[k].wr = 0 /\ ~v7'[k].io
    <3>1. AgentCount(k)' = AgentCount(k) /\ XferCount(k)' = 0 /\ AgentCount(k) \in Nat
      BY <1>1, <2>5 DEF AgentCount, XferCount
    <3>2. AgentCount(k)' + XferCount(k)' = AgentCount(k)
      BY <3>1
    <3>3. LastMade' = LastMade
      BY <1>3, <2>5 DEF LastMade
    <3> QED BY <1>1, <2>8, <3>2, <3>3 DEF PullInv, PipesInv
  <2>11. PipesInv'
    BY <2>10 DEF PipesInv, HeldBy
  <2>12. XferInv'
    BY <2>5 DEF XferInv
  <2>13. AgentInv'
    <3>1. v6 # Pull!NoXfer
      BY <1>3, NoTransfer
    <3> QED BY <1>1, <3>1 DEF PullInv, AgentInv, BeforeContent, FirstInv
  <2> QED BY <2>9, <2>11, <2>12, <2>13 DEF PullInv
<1> QED BY <1>2, <1>3

\* A good header: the first pipe_buffer is made, held by the agent.
LEMMA MadeKeeps ==
    ASSUME PullInv, Pull!handle_response,
           Pull!handle_pull_file_ok([v7 EXCEPT ![0] = Pull!create_pipe_buffer(PullLength)]),
           v3' = [v3 EXCEPT !.life = "content", !.pb = 0, !.chunk = 1]
    PROVE  PullInv'
<1>0. v3 \in Agents /\ v3.life = "waiting" /\ v4 = "idle" /\ v4' = v4
  BY DEF PullInv, PullTypes, AgentInv, Pull!handle_response
<1>1. BeforeContent /\ v2
  BY <1>0 DEF PullInv, AgentInv
<1>2. PICK p : p = Pull!create_pipe_buffer(PullLength)
  OBVIOUS
<1>3. v6' = v6 /\ v6' = Pull!NoXfer /\ v6'.life = "none" /\ v7' = [v7 EXCEPT ![0] = p] /\ v10' # "remove"
  <2>1. Pull!handle_pull_file_ok([v7 EXCEPT ![0] = p])
    BY <1>2
  <2>2. v6' = v6 /\ v7' = [v7 EXCEPT ![0] = p]
    BY <2>1, <1>1, NoTransfer DEF Pull!handle_pull_file_ok, Pull!DropClient, BeforeContent
  <2>3. v10' = v10
    BY <2>1, <1>1 DEF Pull!handle_pull_file_ok, Pull!remove_url
  <2> QED BY <1>1, <2>2, <2>3, NoTransfer DEF BeforeContent, PullInv, AgentInv
<1>4. PICK s \in Int : s = Pull!Lesser(PullChunk, PullLength)
  BY PartsAssumption DEF Pull!Lesser
<1>5. p = [live |-> TRUE, size |-> s, wr |-> 0, ref |-> 1, io |-> FALSE]
  BY <1>2, <1>4 DEF Pull!create_pipe_buffer
<1>6. p \in Pipes /\ p.live /\ p.size = s /\ p.wr = 0 /\ p.ref = 1 /\ ~p.io
  BY <1>5 DEF Pipes
<1>7. PICK z \in Int : z = 0
  OBVIOUS
<1>8. PICK o \in Nat : o = 1
  OBVIOUS
<1>9. v3' = [v3 EXCEPT !.life = "content", !.pb = z, !.chunk = o]
  BY <1>7, <1>8
<1>10. /\ v3'.life = "content" /\ v3'.pb = 0 /\ v3'.chunk = 1 /\ v3'.first = v3.first
       /\ v3'.recv = v3.recv /\ v3'.rd = v3.rd /\ v3'.wr = v3.wr
  BY <1>0, <1>7, <1>8, <1>9 DEF Agents
<1>11. v3' \in Agents
  BY <1>0, <1>9 DEF Agents
<1>12. v7' \in [Pull!Chunks -> Pipes] /\ v7'[0] = p /\ \A k \in Pull!Chunks \ {0} : v7'[k] = v7[k]
  BY <1>3, <1>6, ChunksAre DEF PullInv, PullTypes
<1>13. PullTypes'
  BY <1>0, <1>3, <1>11, <1>12 DEF PullInv, PullTypes
<1>14. ASSUME NEW k \in Pull!Chunks
       PROVE  /\ HeldBy(v7'[k], AgentCount(k)' + XferCount(k)')
              /\ k > LastMade' => ~v7'[k].live
              /\ k >= v3'.chunk /\ v7'[k].live => v7'[k].wr = 0 /\ ~v7'[k].io
  <2>1. CASE k = 0
    <3>1. AgentCount(k)' + XferCount(k)' = 1 /\ v7'[k] = p
      BY <1>3, <1>10, <1>12, <2>1 DEF AgentCount, XferCount
    <3>2. HeldBy(p, 1)
      BY <1>6 DEF HeldBy
    <3>3. ~(k > LastMade') /\ ~(k >= v3'.chunk)
      BY <1>3, <1>10, <2>1 DEF LastMade
    <3> QED BY <3>1, <3>2, <3>3
  <2>2. CASE k # 0
    <3>1. AgentCount(k)' + XferCount(k)' = 0 /\ v7'[k] = v7[k] /\ ~v7[k].live /\ v7[k] \in Pipes
      BY <1>1, <1>3, <1>10, <1>12, <2>2 DEF AgentCount, XferCount, BeforeContent, PullInv, PullTypes
    <3>2. HeldBy(v7[k], 0)
      BY <3>1 DEF PullInv, PipesInv, HeldBy
    <3> QED BY <3>1, <3>2
  <2> QED BY <2>1, <2>2
<1>15. PipesInv'
  BY <1>14 DEF PipesInv, HeldBy
<1>16. XferInv'
  BY <1>3 DEF XferInv
<1>17. FirstInv'
  BY <1>0, <1>1, <1>3, <1>4, <1>6, <1>10, <1>12, PartsAssumption DEF FirstInv, BeforeContent
<1>18. AgentInv'
  BY <1>0, <1>3, <1>10, <1>17, ChunksAre DEF AgentInv
<1> QED BY <1>13, <1>15, <1>16, <1>18 DEF PullInv

\* The agent goes without closing its pipe_buffer.
LEMMA GoneAgent ==
    ASSUME v3 \in Agents, Pull!Gone
    PROVE  v3' \in Agents /\ v3'.life = "gone" /\ v3'.pb = -1 /\ v3'.chunk = v3.chunk
<1>1. PICK m \in Int : m = -1
  OBVIOUS
<1>2. v3' = [v3 EXCEPT !.life = "gone", !.pb = m]
  BY <1>1 DEF Pull!Gone, Pull!None
<1>3. v3'.life = "gone" /\ v3'.pb = -1 /\ v3'.chunk = v3.chunk
  BY <1>1, <1>2 DEF Agents
<1>4. v3' \in Agents
  BY <1>2 DEF Agents
<1> QED BY <1>3, <1>4

LEMMA GoesKeeps ==
    ASSUME PullInv, Pull!Gone, v4' = "idle", UNCHANGED <<v6, v7>>, v10' # "remove", v10' = "none" => v10 = "none"
    PROVE  PullInv'
<1>1. v3' \in Agents /\ v3'.life = "gone" /\ v3'.pb = -1 /\ v3'.chunk = v3.chunk
  BY GoneAgent DEF PullInv, PullTypes
<1>2. PipesInv'
  BY <1>1, PipesSame DEF PullInv
<1>3. PullTypes' /\ XferInv'
  BY <1>1 DEF PullInv, PullTypes, XferInv
<1>4. AgentInv'
  BY <1>1 DEF AgentInv
<1> QED BY <1>2, <1>3, <1>4 DEF PullInv

\* The client is answered, and the agent goes on or goes.
LEMMA ResponseKeeps ==
    ASSUME PullInv, Pull!handle_response PROVE PullInv'
<1>1. CASE Pull!handle_pull_file_ok(v7) /\ Pull!Gone
  <2>1. v3.life = "waiting" /\ v4' = v4 /\ v4 = "idle" /\ v10 # "remove"
    BY DEF Pull!handle_response, PullInv, AgentInv
  <2>2. BeforeContent /\ v2
    BY <2>1 DEF PullInv, AgentInv
  <2>3. UNCHANGED <<v6, v7, v10>>
    BY <1>1, <2>2, NoTransfer DEF Pull!handle_pull_file_ok, Pull!remove_url, Pull!DropClient, BeforeContent
  <2> QED BY <1>1, <2>1, <2>3, GoesKeeps
<1>2. CASE ~(Pull!handle_pull_file_ok(v7) /\ Pull!Gone)
  <2>1. /\ Pull!handle_pull_file_ok([v7 EXCEPT ![0] = Pull!create_pipe_buffer(PullLength)])
        /\ v3' = [v3 EXCEPT !.life = "content", !.pb = 0, !.chunk = 1]
    BY <1>2 DEF Pull!handle_response
  <2> QED BY <2>1, MadeKeeps
<1> QED BY <1>1, <1>2

\* A fault changes nothing else.
LEMMA FaultKeeps ==
    ASSUME PullInv, UNCHANGED <<v2, v3, v4, v6, v7>>, v10' \notin {"remove", "none"}
    PROVE  PullInv'
<1>1. PipesInv'
  BY PipesSame DEF PullInv
<1> QED BY <1>1 DEF PullInv, PullTypes, AgentInv, XferInv, BeforeContent, FirstInv

\* The agent reads, is hung up on or is resumed.
LEMMA InputKeeps ==
    ASSUME PullInv, Pull!handle_input \/ Pull!ClosedByPeer \/ Pull!resume PROVE PullInv'
<1>1. CASE Pull!ClosedByPeer
  BY <1>1, GoesKeeps DEF Pull!ClosedByPeer, PullInv, AgentInv
<1>2. CASE Pull!resume
  <2>1. UNCHANGED <<v2, v3, v4, v6, v7, v10>>
    BY <1>2 DEF Pull!resume
  <2>2. PipesInv'
    BY <2>1, PipesSame DEF PullInv
  <2> QED BY <2>1, <2>2 DEF PullInv, PullTypes, AgentInv, XferInv, BeforeContent, FirstInv
<1>3. CASE Pull!handle_input
  <2>1. /\ v4 = "idle" /\ v4' = "write" /\ v3.life = "content" /\ v3 \in Agents
        /\ UNCHANGED <<v2, v6, v7, v10>>
    BY <1>3 DEF Pull!handle_input, Pull!Content, PullInv, PullTypes
  <2>2. PICK w \in Int : v3' = [v3 EXCEPT !.wr = w] /\ w <= PullBuff
    <3>0. v3.wr \in Int /\ PullBuff \in Int
      BY <2>1, PartsAssumption DEF Agents
    <3>1. CASE v3.wr = PullBuff /\ v3' = v3
      <4>1. v3 = [v3 EXCEPT !.wr = v3.wr]
        BY <2>1 DEF Agents
      <4> QED BY <3>0, <3>1, <4>1
    <3>2. CASE \E n \in 1 .. PullBuff - v3.wr : v3' = [v3 EXCEPT !.wr = @ + n]
      <4>1. PICK n \in 1 .. PullBuff - v3.wr : v3' = [v3 EXCEPT !.wr = @ + n]
        BY <3>2
      <4>2. PICK w \in Int : w = v3.wr + n
        BY <3>0
      <4>3. w <= PullBuff
        BY <3>0, <4>2
      <4>4. v3' = [v3 EXCEPT !.wr = w]
        BY <4>1, <4>2
      <4> QED BY <4>3, <4>4
    <3> QED BY <1>3, <3>1, <3>2 DEF Pull!handle_input
  <2>3. /\ v3'.life = v3.life /\ v3'.pb = v3.pb /\ v3'.chunk = v3.chunk /\ v3'.first = v3.first
        /\ v3'.recv = v3.recv /\ v3'.rd = v3.rd /\ v3'.wr = w
    BY <2>1, <2>2 DEF Agents
  <2>4. v3' \in Agents
    BY <2>1, <2>2 DEF Agents
  <2>5. PipesInv'
    BY <2>1, <2>3, PipesSame DEF PullInv
  <2>6. PullTypes' /\ XferInv'
    BY <2>1, <2>4 DEF PullInv, PullTypes, XferInv
  <2>7. v3.first => FirstInv'
    <3> SUFFICES ASSUME v3.first PROVE FirstInv'
      OBVIOUS
    <3>1. FirstInv
      BY <2>1 DEF PullInv, AgentInv
    <3> QED BY <2>1, <2>2, <2>3, <3>1 DEF FirstInv
  <2>8. AgentInv'
    BY <2>1, <2>3, <2>7 DEF PullInv, AgentInv
  <2> QED BY <2>5, <2>6, <2>8 DEF PullInv
<1> QED BY <1>1, <1>2, <1>3

\* The smaller of two numbers.
LEMMA LesserOf ==
    ASSUME NEW a \in Int, NEW b \in Int
    PROVE  Pull!Lesser(a, b) \in Int /\ Pull!Lesser(a, b) \in {a, b}
  BY DEF Pull!Lesser

\* handle_content fills the pipe_buffer it holds, or opens that of the next chunk.
LEMMA WriteKeeps ==
    ASSUME PullInv, Pull!WritePipe PROVE PullInv'
<1>0. /\ v4 = "write" /\ v3.life = "content" /\ v3 \in Agents /\ v7 \in [Pull!Chunks -> Pipes]
      /\ UNCHANGED <<v2, v6>> /\ v10 # "remove"
  BY DEF Pull!WritePipe, PullInv, PullTypes, AgentInv
<1>f. /\ v3.wr \in Int /\ v3.rd \in Int /\ v3.recv \in Int /\ v3.chunk \in Nat /\ v3.pb \in Int
  BY <1>0 DEF Agents
<1>1. PICK k \in Int : k = IF v3.pb = -1 THEN v3.chunk ELSE v3.pb
  BY <1>f
<1>n. CASE k \notin Pull!Chunks
  <2>1. v10' = "find_pipe_buffer" /\ UNCHANGED <<v3, v4, v7>>
    BY <1>1, <1>n DEF Pull!WritePipe, Pull!None, Pull!Fault
  <2> QED BY <1>0, <2>1, FaultKeeps
<1>2. CASE k \in Pull!Chunks /\ ~v7[k].live
  <2>1. Pull!Gone /\ v4' = "idle" /\ v7' = v7 /\ v10' = v10
    BY <1>1, <1>2 DEF Pull!WritePipe, Pull!None
  <2> QED BY <1>0, <2>1, GoesKeeps
<1>3. CASE k \in Pull!Chunks /\ v7[k].live
  <2>0. v10' = v10
    BY <1>1, <1>3 DEF Pull!WritePipe, Pull!None
  <2>1. v7[k] \in Pipes /\ v7[k].size \in Int /\ v7[k].wr \in Int /\ v7[k].ref \in Int
    BY <1>0, <1>3 DEF Pipes
  <2>2. PICK n \in Int : n = Pull!Lesser(v3.wr - v3.rd, v7[k].size - v7[k].wr)
    BY <1>f, <2>1 DEF Pull!Lesser
  <2>3. PICK rd \in Int : rd = v3.rd + n
    BY <1>f
  <2>4. PICK w \in Int : w = Pull!Lesser(v7[k].wr + n, v7[k].size)
    BY <2>1 DEF Pull!Lesser
  <2>5. PICK r \in Int : r = IF v3.pb = -1 THEN v7[k].ref + 1 ELSE v7[k].ref
    BY <2>1
  <2>6. PICK p : p = [v7[k] EXCEPT !.wr = w, !.ref = r]
    OBVIOUS
  <2>7. p.live = v7[k].live /\ p.io = v7[k].io /\ p.ref = r
    BY <2>1, <2>6 DEF Pipes
  <2>8. p \in Pipes
    BY <2>1, <2>6 DEF Pipes
  <2>9. v7' = [v7 EXCEPT ![k] = p]
    <3>1. v7' = [v7 EXCEPT ![k] = [Pull!pipe_write(v7[k], n) EXCEPT !.ref = IF v3.pb = -1 THEN @ + 1 ELSE @]]
      BY <1>1, <1>3, <2>2 DEF Pull!WritePipe, Pull!None
    <3>2. PICK q : q = [v7[k] EXCEPT !.wr = w]
      OBVIOUS
    <3>3. Pull!pipe_write(v7[k], n) = q
      BY <3>2, <2>4 DEF Pull!pipe_write
    <3>4. q.ref = v7[k].ref
      BY <2>1, <3>2 DEF Pipes
    <3>5. [q EXCEPT !.ref = r] = p
      BY <2>1, <2>6, <3>2 DEF Pipes
    <3>6. [q EXCEPT !.ref = IF v3.pb = -1 THEN @ + 1 ELSE @] = [q EXCEPT !.ref = r]
      BY <2>5, <3>4
    <3>7. [Pull!pipe_write(v7[k], n) EXCEPT !.ref = IF v3.pb = -1 THEN @ + 1 ELSE @] = p
      BY <3>3, <3>5, <3>6
    <3> QED BY <3>1, <3>7, Zenon
  <2>10. PICK c \in Nat : c = IF v3.pb = -1 THEN v3.chunk + 1 ELSE v3.chunk
    BY <1>f
  <2>11. PICK recv \in Int : recv = v3.recv + n
    BY <1>f
  <2>12. PICK arnd \in Int, anw \in Int : /\ arnd = (IF rd = v3.wr THEN 0 ELSE rd)
                                          /\ anw = (IF rd = v3.wr THEN 0 ELSE v3.wr)
    BY <1>f
  <2>13. v3' = [v3 EXCEPT !.pb = k, !.recv = recv, !.chunk = c, !.rd = arnd, !.wr = anw]
    BY <1>1, <1>3, <2>2, <2>3, <2>10, <2>11, <2>12 DEF Pull!WritePipe, Pull!None
  <2>14. v3'.life = v3.life /\ v3'.pb = k /\ v3'.chunk = c /\ v3'.first = v3.first /\ v3'.recv = recv
    BY <1>0, <2>13 DEF Agents
  <2>15. v3' \in Agents
    BY <1>0, <2>13 DEF Agents
  <2>16. v4' = IF rd = v3.wr THEN "all" ELSE "full"
    BY <1>1, <1>3, <2>2, <2>3 DEF Pull!WritePipe, Pull!None
  <2>17. /\ v7' \in [Pull!Chunks -> Pipes] /\ v7'[k] = p
         /\ \A j \in Pull!Chunks \ {k} : v7'[j] = v7[j]
    BY <1>0, <1>3, <2>8, <2>9
  <2>18. PullTypes'
    BY <1>0, <2>15, <2>16, <2>17 DEF PullInv, PullTypes
  <2>19. c = k + 1 /\ k \in Nat
    BY <1>1, <1>3, <1>f, <2>10, ChunksAre DEF PullInv, AgentInv
  <2>20. ASSUME NEW j \in Pull!Chunks
         PROVE  /\ HeldBy(v7'[j], AgentCount(j)' + XferCount(j)')
                /\ j > LastMade' => ~v7'[j].live
                /\ j >= v3'.chunk /\ v7'[j].live => v7'[j].wr = 0 /\ ~v7'[j].io
    <3>0. XferCount(j)' = XferCount(j) /\ LastMade' = LastMade /\ XferCount(j) \in Nat /\ j \in Nat /\ v3.chunk \in Nat
      BY <1>0, <1>f, ChunksAre DEF XferCount, LastMade
    <3>1. /\ HeldBy(v7[j], AgentCount(j) + XferCount(j))
          /\ j > LastMade => ~v7[j].live
          /\ j >= v3.chunk /\ v7[j].live => v7[j].wr = 0 /\ ~v7[j].io
      BY DEF PullInv, PipesInv
    <3>2. CASE j = k
      <4>1. AgentCount(j)' = 1 /\ AgentCount(j) = IF v3.pb = -1 THEN 0 ELSE 1
        BY <1>1, <1>3, <2>14, <3>2, ChunksAre DEF AgentCount
      <4>2. HeldBy(p, AgentCount(j)' + XferCount(j))
        <5>1. CASE v3.pb = -1
          <6>1. ~v7[j].io
            BY <1>1, <1>3, <3>0, <3>1, <3>2, <5>1
          <6>2. XferCount(j) <= v7[j].ref /\ r = v7[j].ref + 1
            BY <1>3, <2>1, <2>5, <3>0, <3>1, <3>2, <4>1, <5>1 DEF HeldBy
          <6> QED BY <1>3, <2>1, <2>7, <3>0, <3>2, <4>1, <6>1, <6>2 DEF HeldBy
        <5>2. CASE v3.pb # -1
          <6>1. HeldBy(v7[j], 1 + XferCount(j)) /\ r = v7[j].ref
            BY <2>5, <3>1, <3>2, <4>1, <5>2
          <6> QED BY <1>3, <2>1, <2>7, <3>0, <3>2, <4>1, <6>1 DEF HeldBy
        <5> QED BY <5>1, <5>2
      <4>3. ~(j >= v3'.chunk)
        BY <2>14, <2>19, <3>2
      <4>4. j > LastMade => ~p.live
        BY <2>7, <3>1, <3>2
      <4> QED BY <2>17, <3>0, <3>2, <4>2, <4>3, <4>4
    <3>3. CASE j # k
      <4>1. AgentCount(j)' = 0 /\ AgentCount(j) = 0
        BY <1>1, <2>14, <3>3, <3>0, <1>f, ChunksAre DEF AgentCount
      <4>2. j >= v3'.chunk => j >= v3.chunk
        BY <2>10, <2>14, <3>0
      <4> QED BY <2>17, <3>0, <3>1, <3>3, <4>1, <4>2
    <3> QED BY <3>2, <3>3
  <2>21. PipesInv'
    BY <2>20 DEF PipesInv, HeldBy
  <2>22. XferInv'
    BY <1>0, <2>0 DEF PullInv, XferInv
  <2>23. v3.first => FirstInv'
    <3> SUFFICES ASSUME v3.first PROVE FirstInv'
      OBVIOUS
    <3>1. FirstInv
      BY <1>0 DEF PullInv, AgentInv
    <3>2. /\ v3.rd = 0 /\ v3.recv = 0 /\ v3.pb = 0 /\ v3.wr <= PullBuff
          /\ v7[0].wr = 0 /\ v7[0].size = Pull!Lesser(PullChunk, PullLength)
      BY <1>0, <3>1 DEF FirstInv
    <3>3. k = 0
      BY <1>1, <3>2
    <3>4. n = Pull!Lesser(v3.wr, v7[0].size) /\ rd = n /\ recv = n
      BY <1>f, <2>1, <2>2, <2>3, <2>11, <3>2, <3>3
    <3>5. n # v3.wr => n = PullLength
      <4>1. v7[0].size \in Int /\ PullChunk \in Int /\ PullLength \in Int /\ PullBuff \in Int /\ PullBuff <= PullChunk
        BY <2>1, <3>3, PartsAssumption
      <4>2. n # v3.wr => n = v7[0].size /\ n < v3.wr
        BY <1>f, <3>4, <4>1 DEF Pull!Lesser
      <4>3. n # v3.wr => n < PullChunk
        BY <1>f, <3>2, <4>1, <4>2
      <4> QED BY <3>2, <4>1, <4>2, <4>3 DEF Pull!Lesser
    <3> QED BY <1>0, <2>14, <2>16, <3>1, <3>3, <3>4, <3>5 DEF FirstInv
  <2>24. AgentInv'
    BY <1>0, <1>3, <2>0, <2>14, <2>16, <2>19, <2>23 DEF PullInv, AgentInv
  <2> QED BY <2>18, <2>21, <2>22, <2>24 DEF PullInv
<1> QED BY <1>n, <1>2, <1>3

\* A full pipe_buffer is closed by the agent, which waits to be resumed or goes.
LEMMA FullKeeps ==
    ASSUME PullInv, Pull!PipeFull PROVE PullInv'
<1>0. /\ v4 = "full" /\ v3.life = "content" /\ v3 \in Agents /\ UNCHANGED <<v2, v6, v10>>
      /\ Closes(v7', v3.pb)
  BY DEF Pull!PipeFull, PullInv, PullTypes, AgentInv, Closes
<1>1. PICK l \in {"content", "gone"} :
        /\ v3' \in Agents /\ v3'.life = l /\ v3'.pb = -1 /\ v3'.chunk = v3.chunk
        /\ l = "content" => v3'.first = v3.first /\ v3'.recv = v3.recv
        /\ v4' = (IF l = "gone" THEN "idle" ELSE "suspended")
  <2>1. CASE v1
    <3>1. PICK m \in Int : m = -1
      OBVIOUS
    <3>2. v3' = [v3 EXCEPT !.pb = m] /\ v4' = "suspended"
      BY <2>1, <3>1 DEF Pull!PipeFull, Pull!None
    <3>3. v3'.life = "content" /\ v3'.pb = -1 /\ v3'.chunk = v3.chunk /\ v3'.first = v3.first /\ v3'.recv = v3.recv
      BY <1>0, <3>1, <3>2 DEF Agents
    <3>4. v3' \in Agents
      BY <1>0, <3>2 DEF Agents
    <3> QED BY <3>2, <3>3, <3>4
  <2>2. CASE ~v1
    BY <1>0, <2>2, GoneAgent DEF Pull!PipeFull
  <2> QED BY <2>1, <2>2
<1>2. /\ v7' \in [Pull!Chunks -> Pipes]
      /\ \A k \in Pull!Chunks :
            /\ HeldBy(v7'[k], XferCount(k))
            /\ v7'[k].live => v7[k].live
            /\ v7[k].wr = 0 /\ ~v7[k].io => v7'[k].wr = 0 /\ ~v7'[k].io
            /\ k # v3.pb => v7'[k] = v7[k]
  BY <1>0, AgentLetsGo DEF PullInv
<1>3. PullTypes'
  BY <1>0, <1>1, <1>2 DEF PullInv, PullTypes
<1>4. ASSUME NEW k \in Pull!Chunks
      PROVE  /\ HeldBy(v7'[k], AgentCount(k)' + XferCount(k)')
             /\ k > LastMade' => ~v7'[k].live
             /\ k >= v3'.chunk /\ v7'[k].live => v7'[k].wr = 0 /\ ~v7'[k].io
  <2>1. AgentCount(k)' = 0 /\ XferCount(k)' = XferCount(k) /\ XferCount(k) \in Nat /\ LastMade' = LastMade
    BY <1>0, <1>1, ChunksAre DEF AgentCount, XferCount, LastMade
  <2>2. AgentCount(k)' + XferCount(k)' = XferCount(k)
    BY <2>1
  <2> QED BY <1>1, <1>2, <2>1, <2>2 DEF PullInv, PipesInv
<1>5. PipesInv'
  BY <1>4 DEF PipesInv, HeldBy
<1>6. XferInv'
  BY <1>0 DEF PullInv, XferInv
<1>7. l = "content" /\ v3'.first => FirstInv'
  BY <1>0, <1>1 DEF PullInv, AgentInv, FirstInv
<1>8. AgentInv'
  BY <1>0, <1>1, <1>7 DEF PullInv, AgentInv
<1> QED BY <1>3, <1>5, <1>6, <1>8 DEF PullInv

\* The disk has a pipe_buffer that nobody holds.
LEMMA DiskKeeps ==
    ASSUME PullInv, NEW k \in Pull!Chunks, Pull!handle_aio_write(k) PROVE PullInv'
<1>0. v7[k].io /\ v7[k] \in Pipes /\ UNCHANGED <<v2, v3, v4, v6, v10>> /\ v7 \in [Pull!Chunks -> Pipes]
  BY DEF Pull!handle_aio_write, PullInv, PullTypes
<1>1. HeldBy(v7[k], AgentCount(k) + XferCount(k)) /\ AgentCount(k) \in Nat /\ XferCount(k) \in Nat
  BY Counts DEF PullInv, PipesInv
<1>2. v7[k].ref = 0 /\ AgentCount(k) + XferCount(k) = 0
  BY <1>0, <1>1 DEF HeldBy
<1>3. PICK p : p = Pull!NoPipe
  OBVIOUS
<1>4. v7' = [v7 EXCEPT ![k] = p]
  BY <1>2, <1>3 DEF Pull!handle_aio_write
<1>5. p \in Pipes /\ ~p.live /\ ~p.io
  BY <1>3 DEF Pipes, Pull!NoPipe
<1>6. v7' \in [Pull!Chunks -> Pipes] /\ v7'[k] = p /\ \A j \in Pull!Chunks \ {k} : v7'[j] = v7[j]
  BY <1>0, <1>4, <1>5
<1>7. ASSUME NEW j \in Pull!Chunks
      PROVE  /\ HeldBy(v7'[j], AgentCount(j)' + XferCount(j)')
             /\ j > LastMade' => ~v7'[j].live
             /\ j >= v3'.chunk /\ v7'[j].live => v7'[j].wr = 0 /\ ~v7'[j].io
  <2>1. AgentCount(j)' = AgentCount(j) /\ XferCount(j)' = XferCount(j) /\ LastMade' = LastMade
    BY <1>0 DEF AgentCount, XferCount, LastMade
  <2>2. CASE j = k
    <3>1. HeldBy(p, 0)
      BY <1>5 DEF HeldBy
    <3> QED BY <1>2, <1>5, <1>6, <2>1, <2>2, <3>1
  <2>3. CASE j # k
    BY <1>0, <1>6, <2>1, <2>3 DEF PullInv, PipesInv
  <2> QED BY <2>2, <2>3
<1>8. PipesInv'
  BY <1>7 DEF PipesInv, HeldBy
<1>9. PullTypes' /\ XferInv'
  BY <1>0, <1>6 DEF PullInv, PullTypes, XferInv
<1>10. AgentInv'
  <2>1. BeforeContent => BeforeContent'
    <3> SUFFICES ASSUME BeforeContent PROVE BeforeContent'
      OBVIOUS
    <3>1. \A j \in Pull!Chunks : ~v7'[j].live
      BY <1>5, <1>6 DEF BeforeContent
    <3> QED BY <1>0, <3>1 DEF BeforeContent
  <2>2. FirstInv => FirstInv'
    <3> SUFFICES ASSUME FirstInv PROVE FirstInv'
      OBVIOUS
    <3>1. v4 # "suspended" => v7'[0] = v7[0]
      <4> SUFFICES ASSUME v4 # "suspended" PROVE v7'[0] = v7[0]
        OBVIOUS
      <4>1. AgentCount(0) = 1 /\ XferCount(0) \in Nat
        BY Counts DEF FirstInv, AgentCount
      <4>2. k # 0
        BY <1>2, <4>1
      <4> QED BY <1>6, <4>2, ChunksAre
    <3> QED BY <1>0, <3>1 DEF FirstInv
  <2> QED BY <1>0, <2>1, <2>2 DEF PullInv, AgentInv
<1> QED BY <1>8, <1>9, <1>10 DEF PullInv

\* The transfer goes on with the pipe_buffer it holds.
LEMMA XferGoesOn ==
    ASSUME PullInv, v6 \in Transfers, v6' \in Transfers, v6'.life = v6.life, v6'.pb = v6.pb, v6'.chunk = v6.chunk,
           v6.life = "live" /\ v6'.pc # "start" => v6.pb # -1,
           UNCHANGED <<v2, v3, v4, v7>>, v10' # "remove", v10' = "none" => v10 = "none"
    PROVE  PullInv'
<1>0. v6.life # "none" /\ v6 # Pull!NoXfer
  BY NoTransfer DEF Transfers
<1>1. PipesInv'
  BY PipesSame DEF PullInv
<1>2. PullTypes' /\ XferInv'
  BY DEF PullInv, PullTypes, XferInv
<1>3. AgentInv'
  BY <1>0 DEF PullInv, AgentInv, BeforeContent, FirstInv
<1> QED BY <1>1, <1>2, <1>3 DEF PullInv

LEMMA TransferKeeps ==
    ASSUME PullInv, Pull!Fine, Pull!TransferData \/ Pull!ReadPipe PROVE PullInv'
<1>0. v6 \in Transfers /\ v6.life = "live"
  BY NoTransfer DEF Pull!TransferData, Pull!ReadPipe, Pull!Sending, PullInv, PullTypes
<1>1. CASE Pull!TransferData
  <2>1. UNCHANGED <<v2, v3, v4, v7>> /\ v10' # "remove" /\ (v10' = "none" => v10 = "none")
    BY <1>1 DEF Pull!TransferData, Pull!Fault, Pull!Fine, PullInv, AgentInv
  <2>2. CASE v6.pb = -1
    <3>1. v6' = v6
      BY <1>1, <2>2 DEF Pull!TransferData, Pull!None
    <3>2. v6.pc # "start" => v6.pb # -1
      BY <1>0 DEF PullInv, XferInv
    <3> QED BY <1>0, <2>1, <3>1, <3>2, XferGoesOn
  <2>3. CASE v6.pb # -1
    <3>1. PICK pc \in {"read", "send"} : v6' = [v6 EXCEPT !.pc = pc]
      BY <1>1, <2>3 DEF Pull!TransferData, Pull!None
    <3>2. v6'.life = v6.life /\ v6'.pb = v6.pb /\ v6'.chunk = v6.chunk
      BY <1>0, <3>1 DEF Transfers
    <3>3. v6' \in Transfers
      BY <1>0, <3>1 DEF Transfers
    <3> QED BY <1>0, <2>1, <2>3, <3>2, <3>3, XferGoesOn
  <2> QED BY <2>2, <2>3
<1>2. CASE Pull!ReadPipe
  <2>1. UNCHANGED <<v2, v3, v4, v7, v10>> /\ v6.pc = "read" /\ v10 # "remove" /\ v10 = "none"
    BY <1>2 DEF Pull!ReadPipe, Pull!Sending, Pull!Fine, PullInv, AgentInv
  <2>2. v6.pb # -1 /\ v6.pb \in Pull!Chunks
    BY <1>0, <2>1 DEF PullInv, XferInv
  <2>3. v7[v6.pb] \in Pipes /\ v7[v6.pb].wr \in Int /\ v6.rd \in Int /\ v6.chunk \in Nat
    BY <1>0, <2>2 DEF PullInv, PullTypes, Pipes, Transfers
  <2>4. PICK n \in Int : n = Pull!pipe_read(v7[v6.pb], v6.rd)
    BY <2>3 DEF Pull!pipe_read
  <2>5. CASE n > 0
    <3>1. PICK z \in Int : z = 0
      OBVIOUS
    <3>2. PICK rd \in Int : rd = v6.rd + n
      BY <2>3
    <3>3. PICK at \in Int : at = v6.chunk * PullChunk + v6.rd
      <4>1. v6.chunk * PullChunk \in Int
        BY <2>3, PartsAssumption
      <4> QED BY <2>3, <4>1
    <3>4. v6' = [v6 EXCEPT !.buf = n, !.out = z, !.rd = rd, !.pc = "start", !.pos = at]
      BY <1>2, <2>4, <2>5, <3>1, <3>2, <3>3 DEF Pull!ReadPipe
    <3>5. v6'.life = v6.life /\ v6'.pb = v6.pb /\ v6'.chunk = v6.chunk
      BY <1>0, <3>4 DEF Transfers
    <3>6. v6' \in Transfers
      BY <1>0, <3>4 DEF Transfers
    <3> QED BY <1>0, <2>1, <2>2, <3>5, <3>6, XferGoesOn
  <2>6. CASE ~(n > 0)
    <3>1. v6' = [v6 EXCEPT !.pc = "eof"]
      BY <1>2, <2>4, <2>6 DEF Pull!ReadPipe
    <3>2. v6'.life = v6.life /\ v6'.pb = v6.pb /\ v6'.chunk = v6.chunk
      BY <1>0, <3>1 DEF Transfers
    <3>3. v6' \in Transfers
      BY <1>0, <3>1 DEF Transfers
    <3> QED BY <1>0, <2>1, <2>2, <3>2, <3>3, XferGoesOn
  <2> QED BY <2>5, <2>6
<1> QED BY <1>1, <1>2

\* A send; the last one closes the pipe_buffer.
LEMMA SendKeeps ==
    ASSUME PullInv, Pull!Fine, Pull!SendData PROVE PullInv'
<1>0. /\ v6 \in Transfers /\ v6.life = "live" /\ v6.pc = "send" /\ v10 = "none"
      /\ UNCHANGED <<v2, v3, v4, v10>>
  BY NoTransfer DEF Pull!SendData, Pull!Sending, Pull!Fine, PullInv, PullTypes
<1>1. v6.pb # -1 /\ v6.pb \in Pull!Chunks /\ v6.pb \in Int /\ v6.sent \in Int /\ v6.out \in Int /\ v6.buf \in Int /\ v6.pos \in Int
  BY <1>0 DEF PullInv, XferInv, Transfers
<1>2. PICK n \in 0 .. (v6.buf - v6.out) :
        LET sent == v6.sent + n
            done == sent = PullLength
            empty == v6.out + n = v6.buf
        IN  /\ v6' = [v6 EXCEPT !.sent = sent,
                        !.out = IF empty THEN 0 ELSE @ + n,
                        !.buf = IF empty THEN 0 ELSE @,
                        !.pos = IF empty THEN 0 ELSE @,
                        !.run = ~done,
                        !.pb = IF done THEN -1 ELSE @,
                        !.pc = IF empty /\ ~done THEN "read" ELSE "start"]
            /\ IF done THEN v7' \in Pull!close_pipe(v7, v6.pb) ELSE v7' = v7
  BY DEF Pull!SendData, Pull!None
<1>3. PICK sent \in Int : sent = v6.sent + n
  BY <1>1
<1>4. PICK run \in BOOLEAN : run = ~(v6.sent + n = PullLength)
  OBVIOUS
<1>5. PICK pb \in Int : pb = IF v6.sent + n = PullLength THEN -1 ELSE v6.pb
  BY <1>1
<1>6. PICK out \in Int, buf \in Int, at \in Int :
        /\ out = (IF v6.out + n = v6.buf THEN 0 ELSE v6.out + n)
        /\ buf = (IF v6.out + n = v6.buf THEN 0 ELSE v6.buf)
        /\ at = (IF v6.out + n = v6.buf THEN 0 ELSE v6.pos)
  BY <1>1
<1>7. PICK pc \in {"read", "start"} : pc = IF v6.out + n = v6.buf /\ ~(v6.sent + n = PullLength) THEN "read" ELSE "start"
  OBVIOUS
<1>8. v6' = [v6 EXCEPT !.sent = sent, !.out = out, !.buf = buf, !.pos = at, !.run = run, !.pb = pb, !.pc = pc]
  BY <1>2, <1>3, <1>4, <1>5, <1>6, <1>7, Zenon
<1>9. v6'.life = "live" /\ v6'.pb = pb /\ v6'.chunk = v6.chunk /\ v6'.pc = pc
  BY <1>0, <1>8 DEF Transfers
<1>10. v6' \in Transfers
  BY <1>0, <1>8 DEF Transfers
<1>11. CASE v6.sent + n # PullLength
  <2>1. v7' = v7 /\ pb = v6.pb
    BY <1>2, <1>5, <1>11
  <2> QED BY <1>0, <1>1, <1>9, <1>10, <2>1, XferGoesOn
<1>12. CASE v6.sent + n = PullLength
  <2>1. Closes(v7', v6.pb) /\ pb = -1 /\ pc = "start"
    BY <1>2, <1>5, <1>7, <1>12 DEF Closes
  <2>2. /\ v7' \in [Pull!Chunks -> Pipes]
        /\ \A k \in Pull!Chunks :
              /\ HeldBy(v7'[k], AgentCount(k))
              /\ v7'[k].live => v7[k].live
              /\ v7[k].wr = 0 /\ ~v7[k].io => v7'[k].wr = 0 /\ ~v7'[k].io
              /\ k # v6.pb => v7'[k] = v7[k]
    BY <1>0, <2>1, XferLetsGo DEF PullInv
  <2>3. ASSUME NEW k \in Pull!Chunks
        PROVE  /\ HeldBy(v7'[k], AgentCount(k)' + XferCount(k)')
               /\ k > LastMade' => ~v7'[k].live
               /\ k >= v3'.chunk /\ v7'[k].live => v7'[k].wr = 0 /\ ~v7'[k].io
    <3>1. AgentCount(k)' = AgentCount(k) /\ XferCount(k)' = 0 /\ AgentCount(k) \in Nat
      BY <1>0, <1>9, <2>1, ChunksAre DEF AgentCount, XferCount
    <3>2. AgentCount(k)' + XferCount(k)' = AgentCount(k)
      BY <3>1
    <3>3. LastMade' = LastMade
      BY <1>0, <1>9 DEF LastMade
    <3> QED BY <1>0, <2>2, <3>2, <3>3 DEF PullInv, PipesInv
  <2>4. PipesInv'
    BY <2>3 DEF PipesInv, HeldBy
  <2>5. PullTypes' /\ XferInv'
    BY <1>0, <1>9, <1>10, <2>1, <2>2 DEF PullInv, PullTypes, XferInv
  <2>6. v6 # Pull!NoXfer
    BY <1>0, NoTransfer
  <2>7. AgentInv'
    BY <1>0, <2>6 DEF PullInv, AgentInv, BeforeContent, FirstInv
  <2> QED BY <2>4, <2>5, <2>7 DEF PullInv
<1> QED BY <1>11, <1>12

\* The buffer the transfer makes for the chunk after the last one.
LEMMA MadeBuffer ==
    ASSUME NEW remain \in Int
    PROVE  LET p == Pull!create_pipe_buffer(remain)
           IN  p \in Pipes /\ p.live /\ p.wr = 0 /\ p.ref = 1 /\ ~p.io
<1>1. PICK s \in Int : s = Pull!Lesser(PullChunk, remain)
  BY PartsAssumption DEF Pull!Lesser
<1>2. Pull!create_pipe_buffer(remain) = [live |-> TRUE, size |-> s, wr |-> 0, ref |-> 1, io |-> FALSE]
  BY <1>1 DEF Pull!create_pipe_buffer
<1> QED BY <1>2 DEF Pipes

\* The transfer has read all of a full pipe_buffer: it closes it and makes the
\* next one, of a chunk that has none.
LEMMA NextKeeps ==
    ASSUME PullInv, Pull!Fine, Pull!NextPipe PROVE PullInv'
<1>0. /\ v6 \in Transfers /\ v6.life = "live" /\ v6.pc = "eof" /\ v10 = "none"
      /\ UNCHANGED <<v2, v3, v4>> /\ v7 \in [Pull!Chunks -> Pipes]
  BY NoTransfer DEF Pull!NextPipe, Pull!Sending, Pull!Fine, PullInv, PullTypes
<1>1. v6.pb # -1 /\ v6.pb \in Pull!Chunks /\ v6.pb = v6.chunk /\ v6.chunk \in Nat /\ v6.remain \in Int
  BY <1>0 DEF PullInv, XferInv, Transfers
<1>2. v7[v6.pb] \in Pipes /\ v7[v6.pb].size \in Int /\ v7[v6.pb].wr \in Int
  BY <1>0, <1>1 DEF Pipes
<1>3. CASE v7[v6.pb].wr < v7[v6.pb].size
  <2>1. v6' = [v6 EXCEPT !.pc = "start"] /\ v7' = v7 /\ v10' = v10
    BY <1>3 DEF Pull!NextPipe
  <2>2. v6'.life = v6.life /\ v6'.pb = v6.pb /\ v6'.chunk = v6.chunk
    BY <1>0, <2>1 DEF Transfers
  <2>3. v6' \in Transfers
    BY <1>0, <2>1 DEF Transfers
  <2> QED BY <1>0, <1>1, <2>1, <2>2, <2>3, XferGoesOn
<1>4. CASE ~(v7[v6.pb].wr < v7[v6.pb].size)
  <2>1. PICK k \in Nat : k = v6.chunk + 1
    BY <1>1
  <2>2. PICK remain \in Int : remain = v6.remain - v7[v6.pb].size
    BY <1>1, <1>2
  <2>3. PICK closed \in Pull!close_pipe(v7, v6.pb) :
          IF Pull!insert_pipe_buffer(closed, k)
          THEN /\ v7' = IF v9 < PullNotes THEN [closed EXCEPT ![k] = Pull!create_pipe_buffer(remain)]
                        ELSE closed
               /\ v10' = v10
          ELSE Pull!Fault("insert_pipe_buffer") /\ v7' = v7
    BY <1>4, <2>1, <2>2 DEF Pull!NextPipe
  <2>4. PICK pb \in Int : pb = IF v9 < PullNotes THEN k ELSE -1
    OBVIOUS
  <2>5. PICK z \in Int : z = 0
    OBVIOUS
  <2>no. PICK no \in BOOLEAN : no = FALSE
    OBVIOUS
  <2>6. v6' = [v6 EXCEPT !.pc = "start", !.run = no, !.rd = z, !.chunk = k, !.remain = remain, !.pb = pb]
    BY <1>4, <2>1, <2>2, <2>4, <2>5, <2>no DEF Pull!NextPipe, Pull!None
  <2>7. v6'.life = "live" /\ v6'.pb = pb /\ v6'.chunk = k /\ v6'.pc = "start"
    BY <1>0, <2>6 DEF Transfers
  <2>8. v6' \in Transfers
    BY <1>0, <2>6 DEF Transfers
  <2>9. /\ closed \in [Pull!Chunks -> Pipes]
        /\ \A j \in Pull!Chunks :
              /\ HeldBy(closed[j], AgentCount(j))
              /\ closed[j].live => v7[j].live
              /\ v7[j].wr = 0 /\ ~v7[j].io => closed[j].wr = 0 /\ ~closed[j].io
              /\ j # v6.pb => closed[j] = v7[j]
    BY <1>0, <2>3, XferLetsGo DEF PullInv, Closes
  <2>10. LastMade = v6.chunk /\ LastMade' = k
    BY <1>0, <2>7 DEF LastMade
  <2>11. k \in Pull!Chunks => ~v7[k].live /\ ~closed[k].live
    BY <1>1, <2>1, <2>9, <2>10 DEF PullInv, PipesInv
  <2>12. ASSUME NEW j \in Pull!Chunks
         PROVE  /\ AgentCount(j)' = AgentCount(j) /\ AgentCount(j) \in Nat
                /\ XferCount(j)' = (IF pb = j THEN 1 ELSE 0) /\ j \in Nat
    BY <1>0, <2>7, ChunksAre DEF AgentCount, XferCount
  <2>13. ASSUME NEW j \in Pull!Chunks
         PROVE  /\ HeldBy(v7[j], AgentCount(j) + XferCount(j)) /\ v7[j] \in Pipes
                /\ j > k => ~v7[j].live
                /\ j >= v3.chunk /\ v7[j].live => v7[j].wr = 0 /\ ~v7[j].io
    BY <1>0, <1>1, <2>1, <2>10, <2>12 DEF PullInv, PipesInv
  <2>14. v10' # "remove" /\ PipesInv' /\ v7' \in [Pull!Chunks -> Pipes]
         /\ (pb # -1 /\ v10' = "none" => pb \in Pull!Chunks)
    <3>1. CASE k \in Pull!Chunks
      <4>1. Pull!insert_pipe_buffer(closed, k)
        BY <2>11, <3>1 DEF Pull!insert_pipe_buffer
      <4>2. /\ v10' = v10
            /\ v7' = IF v9 < PullNotes THEN [closed EXCEPT ![k] = Pull!create_pipe_buffer(remain)]
                     ELSE closed
        BY <2>3, <4>1
      <4>3. CASE v9 < PullNotes
        <5>1. PICK p : p = Pull!create_pipe_buffer(remain)
          OBVIOUS
        <5>2. p \in Pipes /\ p.live /\ p.wr = 0 /\ p.ref = 1 /\ ~p.io
          BY <5>1, MadeBuffer
        <5>3. v7' = [closed EXCEPT ![k] = p]
          BY <4>2, <4>3, <5>1
        <5>4. /\ v7' \in [Pull!Chunks -> Pipes] /\ v7'[k] = p
              /\ \A j \in Pull!Chunks \ {k} : v7'[j] = closed[j]
          BY <2>9, <3>1, <5>2, <5>3
        <5>5. AgentCount(k) = 0
          <6>1. HeldBy(closed[k], AgentCount(k))
            BY <2>9, <3>1
          <6> QED BY <2>11, <2>12, <3>1, <6>1 DEF HeldBy, AgentCount
        <5>6. ASSUME NEW j \in Pull!Chunks
              PROVE  /\ HeldBy(v7'[j], AgentCount(j)' + XferCount(j)')
                     /\ j > LastMade' => ~v7'[j].live
                     /\ j >= v3'.chunk /\ v7'[j].live => v7'[j].wr = 0 /\ ~v7'[j].io
          <6>1. CASE j = k
            <7>1. AgentCount(j)' + XferCount(j)' = 1
              BY <2>4, <2>12, <4>3, <5>5, <6>1
            <7>2. HeldBy(p, 1)
              BY <5>2 DEF HeldBy
            <7>3. ~(j > LastMade')
              BY <2>10, <6>1
            <7> QED BY <5>2, <5>4, <6>1, <7>1, <7>2, <7>3
          <6>2. CASE j # k
            <7>1. AgentCount(j)' + XferCount(j)' = AgentCount(j)
              BY <2>4, <2>12, <4>3, <6>2
            <7> QED BY <1>0, <2>9, <2>10, <2>13, <5>4, <6>2, <7>1
          <6> QED BY <6>1, <6>2
        <5>7. PipesInv'
          BY <5>6 DEF PipesInv, HeldBy
        <5> QED BY <1>0, <2>4, <3>1, <4>2, <5>4, <5>7
      <4>4. CASE ~(v9 < PullNotes)
        <5>1. v7' = closed /\ pb = -1
          BY <2>4, <4>2, <4>4
        <5>2. ASSUME NEW j \in Pull!Chunks
              PROVE  /\ HeldBy(v7'[j], AgentCount(j)' + XferCount(j)')
                     /\ j > LastMade' => ~v7'[j].live
                     /\ j >= v3'.chunk /\ v7'[j].live => v7'[j].wr = 0 /\ ~v7'[j].io
          <6>1. AgentCount(j)' + XferCount(j)' = AgentCount(j)
            BY <2>12, <5>1
          <6> QED BY <1>0, <2>9, <2>10, <2>13, <5>1, <6>1
        <5>3. PipesInv'
          BY <5>2 DEF PipesInv, HeldBy
        <5> QED BY <1>0, <2>9, <4>2, <5>1, <5>3
      <4> QED BY <4>3, <4>4
    <3>2. CASE k \notin Pull!Chunks
      <4>1. v7' = v7 /\ v10' = "insert_pipe_buffer"
        <5>1. ~Pull!insert_pipe_buffer(closed, k)
          BY <3>2 DEF Pull!insert_pipe_buffer
        <5>2. v7' = v7 /\ Pull!Fault("insert_pipe_buffer")
          BY <2>3, <5>1
        <5> QED BY <1>0, <5>2 DEF Pull!Fault
      <4>2. ASSUME NEW j \in Pull!Chunks
            PROVE  /\ HeldBy(v7'[j], AgentCount(j)' + XferCount(j)')
                   /\ j > LastMade' => ~v7'[j].live
                   /\ j >= v3'.chunk /\ v7'[j].live => v7'[j].wr = 0 /\ ~v7'[j].io
        <5>1. XferCount(j)' = 0 /\ XferCount(j) \in Nat
          BY <2>4, <2>12, <3>2, Counts
        <5>2. PICK n \in Nat : n = AgentCount(j) + XferCount(j)
          BY <2>12, <5>1
        <5>3. PICK m \in Nat : m = AgentCount(j)' + XferCount(j)'
          BY Counts
        <5>4. m <= n
          BY <2>12, <5>1, <5>2, <5>3
        <5>5. HeldBy(v7[j], m)
          BY <2>13, <5>2, <5>4, HeldByFewer
        <5> QED BY <1>0, <2>10, <2>13, <4>1, <5>3, <5>5
      <4>3. PipesInv'
        BY <4>2 DEF PipesInv, HeldBy
      <4> QED BY <1>0, <4>1, <4>3
    <3> QED BY <3>1, <3>2
  <2>15. PullTypes'
    BY <1>0, <2>8, <2>14 DEF PullInv, PullTypes
  <2>16. XferInv'
    BY <2>4, <2>7, <2>14 DEF XferInv
  <2>17. v6 # Pull!NoXfer
    BY <1>0, NoTransfer
  <2>18. AgentInv'
    BY <1>0, <2>14, <2>17 DEF PullInv, AgentInv, BeforeContent, FirstInv
  <2> QED BY <2>14, <2>15, <2>16, <2>18 DEF PullInv
<1> QED BY <1>3, <1>4

\* A transfer that is started again, if it lives.
LEMMA StartedAgain ==
    ASSUME PullTypes, v10 # "remove", Pull!Start(v6) \/ UNCHANGED <<v6, v10>>
    PROVE  /\ v6' = Pull!NoXfer <=> v6 = Pull!NoXfer
           /\ v6' = Pull!NoXfer \/ v6' \in Transfers
           /\ v6'.life = v6.life
           /\ v6.life # "none" => v6'.pb = v6.pb /\ v6'.chunk = v6.chunk /\ v6'.pc = v6.pc
           /\ v10' # "remove" /\ (v10' = "none" => v10 = "none")
<1>1. CASE UNCHANGED v6 /\ (v10' = v10 \/ Pull!Fault("start_transfer"))
  BY <1>1 DEF PullTypes, Pull!Fault
<1>2. CASE v6.life = "live" /\ v6' = [v6 EXCEPT !.run = TRUE] /\ v10' = v10
  <2>1. v6 \in Transfers
    BY <1>2, LiveTransfer
  <2>2. PICK yes \in BOOLEAN : yes = TRUE
    OBVIOUS
  <2>3. v6' = [v6 EXCEPT !.run = yes]
    BY <1>2, <2>2
  <2>4. v6'.life = v6.life /\ v6'.pb = v6.pb /\ v6'.chunk = v6.chunk /\ v6'.pc = v6.pc
    BY <2>1, <2>3 DEF Transfers
  <2>5. v6' \in Transfers
    BY <2>1, <2>3 DEF Transfers
  <2>6. v6 # Pull!NoXfer /\ v6' # Pull!NoXfer
    BY <1>2, <2>4, NoTransfer
  <2> QED BY <1>2, <2>4, <2>5, <2>6
<1> QED BY <1>1, <1>2 DEF Pull!Start

\* The first package: the transfer takes the first pipe_buffer over, or
\* shares it with the agent.
LEMMA FirstPackageKeeps ==
    ASSUME PullInv, Pull!Proceed, Pull!FirstPackage(v3.recv = PullLength), v4 = "all", v4' = "idle", v3.first, v1
    PROVE  PullInv'
<1>0. /\ v3.life = "content" /\ v3 \in Agents
      /\ UNCHANGED <<v2, v10>> /\ v7 \in [Pull!Chunks -> Pipes]
  BY DEF Pull!Proceed, Pull!FirstPackage, PullInv, PullTypes, AgentInv
<1>1. v6 = Pull!NoXfer /\ v3.pb = 0 /\ v3.chunk = 1 /\ v6.life = "none" /\ v10 # "remove"
  BY <1>0, NoTransfer DEF PullInv, AgentInv, FirstInv
<1>2. v6' = Pull!NewTransfer
  BY DEF Pull!FirstPackage
<1>3. v6' \in Transfers /\ v6'.life = "live" /\ v6'.pb = 0 /\ v6'.chunk = 0 /\ v6'.pc = "start"
  BY <1>2, PartsAssumption DEF Pull!NewTransfer, Transfers
<1>4. PICK no \in BOOLEAN : no = FALSE
  OBVIOUS
<1>5. PICK l \in {"content", "gone"} : l = IF v3.recv = PullLength THEN "gone" ELSE v3.life
  BY <1>0
<1>6. PICK b \in Int : b = IF v3.recv = PullLength THEN -1 ELSE v3.pb
  BY <1>1
<1>7. v3' = [v3 EXCEPT !.first = no, !.life = l, !.pb = b]
  BY <1>4, <1>5, <1>6 DEF Pull!FirstPackage, Pull!None
<1>8. v3'.first = FALSE /\ v3'.life = l /\ v3'.pb = b /\ v3'.chunk = v3.chunk
  BY <1>0, <1>4, <1>7 DEF Agents
<1>9. v3' \in Agents
  BY <1>0, <1>7 DEF Agents
<1>10. PICK p : p = v7[0]
  OBVIOUS
<1>11. p \in Pipes /\ p.ref \in Int /\ HeldBy(p, 1)
  <2>1. AgentCount(0) + XferCount(0) = 1
    BY <1>1 DEF AgentCount, XferCount
  <2> QED BY <1>0, <1>10, <2>1, ChunksAre DEF PullInv, PipesInv, Pipes
<1>12. PICK q : q = IF v3.recv = PullLength THEN p ELSE [p EXCEPT !.ref = @ + 1]
  OBVIOUS
<1>13. v7' = [v7 EXCEPT ![0] = q]
  <2>1. CASE v3.recv = PullLength
    <3>1. v7' = v7
      BY <2>1 DEF Pull!FirstPackage
    <3> QED BY <1>0, <1>10, <1>12, <2>1, <3>1
  <2>2. CASE v3.recv # PullLength
    <3>1. v7' = [v7 EXCEPT ![0].ref = @ + 1]
      BY <2>2 DEF Pull!FirstPackage
    <3> QED BY <1>10, <1>12, <2>2, <3>1
  <2> QED BY <2>1, <2>2
<1>14. q \in Pipes /\ HeldBy(q, IF v3.recv = PullLength THEN 1 ELSE 2)
  <2>1. CASE v3.recv = PullLength
    BY <1>11, <1>12, <2>1
  <2>2. CASE v3.recv # PullLength
    <3>1. PICK r \in Int : r = p.ref + 1
      BY <1>11
    <3>2. q = [p EXCEPT !.ref = r]
      BY <1>12, <2>2, <3>1
    <3>3. q.live = p.live /\ q.io = p.io /\ q.ref = r
      BY <1>11, <3>2 DEF Pipes
    <3>4. q \in Pipes
      BY <1>11, <3>2 DEF Pipes
    <3>5. HeldBy(q, 2)
      BY <1>11, <3>1, <3>3 DEF HeldBy
    <3> QED BY <2>2, <3>4, <3>5
  <2> QED BY <2>1, <2>2
<1>15. v7' \in [Pull!Chunks -> Pipes] /\ v7'[0] = q /\ \A k \in Pull!Chunks \ {0} : v7'[k] = v7[k]
  BY <1>0, <1>13, <1>14, ChunksAre
<1>16. ASSUME NEW k \in Pull!Chunks
       PROVE  /\ HeldBy(v7'[k], AgentCount(k)' + XferCount(k)')
              /\ k > LastMade' => ~v7'[k].live
              /\ k >= v3'.chunk /\ v7'[k].live => v7'[k].wr = 0 /\ ~v7'[k].io
  <2>1. LastMade = 0 /\ LastMade' = 0
    BY <1>1, <1>3 DEF LastMade
  <2>2. CASE k = 0
    <3>1. XferCount(k)' = 1 /\ AgentCount(k)' = IF v3.recv = PullLength THEN 0 ELSE 1
      BY <1>1, <1>3, <1>6, <1>8, <2>2 DEF XferCount, AgentCount
    <3>2. AgentCount(k)' + XferCount(k)' = IF v3.recv = PullLength THEN 1 ELSE 2
      BY <3>1
    <3>3. ~(k > LastMade') /\ ~(k >= v3'.chunk)
      BY <1>1, <1>8, <2>1, <2>2
    <3> QED BY <1>14, <1>15, <2>2, <3>2, <3>3
  <2>3. CASE k # 0
    <3>1. AgentCount(k)' = 0 /\ AgentCount(k) = 0 /\ XferCount(k)' = 0 /\ XferCount(k) = 0
      BY <1>1, <1>3, <1>6, <1>8, <2>3, ChunksAre DEF XferCount, AgentCount
    <3> QED BY <1>8, <1>15, <2>1, <2>3, <3>1 DEF PullInv, PipesInv
  <2> QED BY <2>2, <2>3
<1>17. PipesInv'
  BY <1>16 DEF PipesInv, HeldBy
<1>18. PullTypes' /\ XferInv'
  BY <1>0, <1>3, <1>9, <1>15, ChunksAre DEF PullTypes, XferInv
<1>19. AgentInv'
  BY <1>0, <1>1, <1>6, <1>8, ChunksAre DEF AgentInv
<1> QED BY <1>17, <1>18, <1>19 DEF PullInv

\* The other packages: at the end of the content the agent lets its
\* pipe_buffer go.
LEMMA PackageKeeps ==
    ASSUME PullInv, Pull!Proceed, Pull!Package(v3.recv = PullLength), v4' = "idle", ~v3.first PROVE PullInv'
<1>0. /\ v3.life = "content" /\ v3 \in Agents
      /\ UNCHANGED v2 /\ v7 \in [Pull!Chunks -> Pipes] /\ v10 # "remove"
  BY DEF Pull!Proceed, PullInv, PullTypes, AgentInv
<1>1. Pull!Start(v6) \/ UNCHANGED <<v6, v10>>
  BY DEF Pull!Package
<1>2. /\ v6' = Pull!NoXfer <=> v6 = Pull!NoXfer
      /\ v6' = Pull!NoXfer \/ v6' \in Transfers
      /\ v6'.life = v6.life
      /\ v6.life # "none" => v6'.pb = v6.pb /\ v6'.chunk = v6.chunk /\ v6'.pc = v6.pc
      /\ v10' # "remove" /\ (v10' = "none" => v10 = "none")
  BY <1>0, <1>1, StartedAgain DEF PullInv
<1>3. XferInv'
  BY <1>2 DEF PullInv, XferInv
<1>4. CASE v3.recv = PullLength
  <2>1. Pull!Gone /\ Closes(v7', v3.pb)
    BY <1>4 DEF Pull!Package, Pull!Gone, Closes
  <2>2. v3' \in Agents /\ v3'.life = "gone" /\ v3'.pb = -1 /\ v3'.chunk = v3.chunk
    BY <1>0, <2>1, GoneAgent
  <2>3. /\ v7' \in [Pull!Chunks -> Pipes]
        /\ \A k \in Pull!Chunks :
              /\ HeldBy(v7'[k], XferCount(k))
              /\ v7'[k].live => v7[k].live
              /\ v7[k].wr = 0 /\ ~v7[k].io => v7'[k].wr = 0 /\ ~v7'[k].io
              /\ k # v3.pb => v7'[k] = v7[k]
    BY <2>1, AgentLetsGo DEF PullInv
  <2>4. ASSUME NEW k \in Pull!Chunks
        PROVE  /\ HeldBy(v7'[k], AgentCount(k)' + XferCount(k)')
               /\ k > LastMade' => ~v7'[k].live
               /\ k >= v3'.chunk /\ v7'[k].live => v7'[k].wr = 0 /\ ~v7'[k].io
    <3>1. AgentCount(k)' = 0 /\ XferCount(k)' = XferCount(k) /\ XferCount(k) \in Nat /\ LastMade' = LastMade
      BY <1>2, <2>2, ChunksAre DEF AgentCount, XferCount, LastMade
    <3>2. AgentCount(k)' + XferCount(k)' = XferCount(k)
      BY <3>1
    <3> QED BY <2>2, <2>3, <3>1, <3>2 DEF PullInv, PipesInv
  <2>5. PipesInv'
    BY <2>4 DEF PipesInv, HeldBy
  <2>6. PullTypes'
    BY <1>0, <1>2, <2>2, <2>3 DEF PullTypes
  <2>7. AgentInv'
    BY <1>0, <1>2, <2>2 DEF AgentInv
  <2> QED BY <1>3, <2>5, <2>6, <2>7 DEF PullInv
<1>5. CASE v3.recv # PullLength
  <2>1. v3' = v3 /\ v7' = v7
    <3>1. v3' = [v3 EXCEPT !.life = v3.life, !.pb = v3.pb] /\ v7' = v7
      BY <1>5 DEF Pull!Package
    <3>2. [v3 EXCEPT !.life = v3.life, !.pb = v3.pb] = v3
      BY <1>0 DEF Agents
    <3> QED BY <3>1, <3>2
  <2>2. PipesInv'
    BY <1>2, <2>1, PipesSame DEF PullInv
  <2>3. PullTypes'
    BY <1>0, <1>2, <2>1 DEF PullInv, PullTypes
  <2>4. AgentInv'
    BY <1>0, <1>2, <2>1 DEF PullInv, AgentInv
  <2> QED BY <1>3, <2>2, <2>3, <2>4 DEF PullInv
<1> QED BY <1>4, <1>5

LEMMA ProceedKeeps ==
    ASSUME PullInv, Pull!Proceed PROVE PullInv'
<1>0. UNCHANGED v2 /\ v4 \in {"all", "suspended"} /\ v10 # "remove" /\ v3.life = "content"
  BY DEF Pull!Proceed, PullInv, AgentInv
<1>1. CASE Pull!ClosesNull(v3.recv = PullLength)
  <2>1. v10' = "pipe_buffer_" /\ UNCHANGED <<v3, v4, v6, v7>>
    BY <1>1 DEF Pull!Proceed, Pull!Fault
  <2> QED BY <1>0, <2>1, FaultKeeps
<1>2. CASE ~Pull!ClosesNull(v3.recv = PullLength)
  <2>1. v4' = "idle" /\ IF v3.first THEN Pull!FirstPackage(v3.recv = PullLength) ELSE Pull!Package(v3.recv = PullLength)
    BY <1>2 DEF Pull!Proceed
  <2>2. v3.first => v4 = "all"
    BY <1>0, <1>2 DEF Pull!ClosesNull, PullInv, AgentInv, FirstInv
  <2>3. CASE v3.first /\ v1
    BY <2>1, <2>2, <2>3, FirstPackageKeeps
  <2>4. CASE v3.first /\ ~v1
    <3>1. Pull!Gone /\ UNCHANGED <<v6, v7, v10>>
      BY <2>1, <2>4 DEF Pull!FirstPackage
    <3> QED BY <1>0, <2>1, <3>1, GoesKeeps
  <2>5. CASE ~v3.first
    BY <2>1, <2>5, PackageKeeps
  <2> QED BY <2>3, <2>4, <2>5
<1> QED BY <1>1, <1>2

LEMMA PullKeeps ==
    ASSUME PullInv, Pull!Next PROVE PullInv'
<1>0. Pull!Fine
  BY DEF Pull!Next
<1>1. CASE Pull!handle_pull_file \/ Pull!AgentOpen \/ Pull!PullFails
  BY <1>1, ConnectingKeeps
<1>2. CASE Pull!HangUp
  BY <1>2, HangUpKeeps
<1>3. CASE Pull!handle_response
  BY <1>3, ResponseKeeps
<1>4. CASE Pull!handle_input \/ Pull!ClosedByPeer \/ Pull!resume
  BY <1>4, InputKeeps
<1>5. CASE Pull!WritePipe
  BY <1>5, WriteKeeps
<1>6. CASE Pull!PipeFull
  BY <1>6, FullKeeps
<1>7. CASE Pull!Proceed
  BY <1>7, ProceedKeeps
<1>8. CASE Pull!TransferData \/ Pull!ReadPipe
  BY <1>0, <1>8, TransferKeeps
<1>9. CASE Pull!NextPipe
  BY <1>0, <1>9, NextKeeps
<1>10. CASE Pull!SendData
  BY <1>0, <1>10, SendKeeps
<1>11. CASE \E k \in Pull!Chunks : Pull!handle_aio_write(k)
  BY <1>11, DiskKeeps
<1>12. CASE \E k \in Pull!Chunks : Pull!SecondWrite(k)
  <2>1. v10' = "handle_aio_write" /\ UNCHANGED <<v2, v3, v4, v6, v7>>
    BY <1>12 DEF Pull!SecondWrite, Pull!Fault
  <2> QED BY <2>1, FaultKeeps
<1> QED BY <1>1, <1>2, <1>3, <1>4, <1>5, <1>6, <1>7, <1>8, <1>9, <1>10, <1>11, <1>12 DEF Pull!Next

\* A set has one size, through the instance as well.
LEMMA SameCardinality == \A S : Pull!Cardinality(S) = Cardinality(S)
  BY Zenon DEF Pull!Cardinality, Cardinality, Pull!IsFiniteSet, IsFiniteSet

\* The agent and the transfer are counted one by one.
LEMMA HoldersCounted ==
    ASSUME NEW k
    PROVE  Cardinality({o \in {"agent", "xfer"} :
                         IF o = "agent" THEN v3.pb = k ELSE v6.life = "live" /\ v6.pb = k})
             = AgentCount(k) + XferCount(k)
<1> DEFINE Holders == {o \in {"agent", "xfer"} :
                         IF o = "agent" THEN v3.pb = k ELSE v6.life = "live" /\ v6.pb = k}
           byXfer == v6.life = "live" /\ v6.pb = k
<1>1. CASE v3.pb = k /\ byXfer
  <2>1. Holders = {"agent"} \union {"xfer"} /\ "xfer" \notin {"agent"}
    BY <1>1
  <2>2. IsFiniteSet({"agent"}) /\ Cardinality({"agent"}) = 1
    BY FS_Singleton
  <2>3. Cardinality({"agent"} \union {"xfer"}) = 2
    BY <2>1, <2>2, FS_AddElement
  <2> QED BY <1>1, <2>1, <2>3 DEF AgentCount, XferCount
<1>2. CASE v3.pb = k /\ ~byXfer
  <2>1. Holders = {"agent"}
    BY <1>2
  <2> QED BY <1>2, <2>1, FS_Singleton DEF AgentCount, XferCount
<1>3. CASE v3.pb # k /\ byXfer
  <2>1. Holders = {"xfer"}
    BY <1>3
  <2>2. Cardinality(Holders) = 1
    BY <2>1, FS_Singleton
  <2> QED BY <1>3, <2>2 DEF AgentCount, XferCount
<1>4. CASE v3.pb # k /\ ~byXfer
  <2>1. Holders = {}
    BY <1>4
  <2> QED BY <1>4, <2>1, FS_EmptySet DEF AgentCount, XferCount
<1> QED BY <1>1, <1>2, <1>3, <1>4

\* Nothing has been pulled when fcache starts.
LEMMA PullStart == Pull!Init => PullInv
<1> SUFFICES ASSUME Pull!Init PROVE PullInv
  OBVIOUS
<1>1. v3 = [life |-> "none", chunk |-> 0, pb |-> -1, recv |-> 0, rd |-> 0, wr |-> 0, first |-> TRUE]
  BY DEF Pull!Init, Pull!None
<1>2. v3 \in Agents /\ v3.life = "none" /\ v3.pb = -1 /\ v3.first /\ v3.recv = 0 /\ v3.rd = 0 /\ v3.wr = 0
  BY <1>1 DEF Agents
<1>3. v6 = Pull!NoXfer /\ v6.life = "none" /\ v4 = "idle" /\ v10 = "none"
  BY NoTransfer DEF Pull!Init
<1>4. PICK p : p = Pull!NoPipe
  OBVIOUS
<1>5. p \in Pipes /\ ~p.live /\ ~p.io
  BY <1>4 DEF Pipes, Pull!NoPipe
<1>6. v7 = [k \in Pull!Chunks |-> p]
  BY <1>4 DEF Pull!Init
<1>7. v7 \in [Pull!Chunks -> Pipes] /\ \A k \in Pull!Chunks : v7[k] = p
  BY <1>5, <1>6
<1>8. \A k \in Pull!Chunks : AgentCount(k) + XferCount(k) = 0
  BY <1>2, <1>3, ChunksAre DEF AgentCount, XferCount
<1>9. PipesInv
  BY <1>5, <1>7, <1>8 DEF PipesInv, HeldBy
<1>10. PullTypes /\ XferInv
  BY <1>2, <1>3, <1>7 DEF PullTypes, XferInv
<1>11. AgentInv
  BY <1>2, <1>3, <1>5, <1>7 DEF AgentInv, BeforeContent
<1> QED BY <1>9, <1>10, <1>11 DEF PullInv

LEMMA PullStays ==
    ASSUME PullInv, UNCHANGED state PROVE PullInv'
<1>1. PullInv /\ UNCHANGED <<v1, v2, v3, v4, v6, v7, v10>>
  BY DEF state
<1>2. PipesInv'
  BY <1>1, PipesSame DEF PullInv
<1> QED BY <1>1, <1>2 DEF PullInv, PullTypes, AgentInv, XferInv, BeforeContent, FirstInv

\* Up to the first fault neither the agent nor the transfer uses a pipe_buffer
\* after it was closed, and every url is taken off once, for files of every
\* length, whatever the origin sends, whatever the disk and start_aio refuse,
\* and whoever of client, origin and disk ends first.
THEOREM PipesStayHeld == PartsSpec => []PipeHeld
<1> DEFINE Inv == part = "pull" => PullInv
<1>1. PartsInit => Inv
  BY PullStart DEF PartsInit
<1>2. Inv /\ [PartsNext]_state => Inv'
  <2> SUFFICES ASSUME Inv, [PartsNext]_state, part' = "pull" PROVE PullInv'
    OBVIOUS
  <2>1. CASE UNCHANGED state
    BY <2>1, PullStays DEF state
  <2>2. CASE PartsNext
    <3>1. part = "pull" /\ Pull!Next
      BY <2>2 DEF PartsNext
    <3> QED BY <3>1, PullKeeps
  <2> QED BY <2>1, <2>2
<1>3. Inv => PipeHeld
  <2> SUFFICES ASSUME PullInv PROVE Pull!PipeHeld /\ Pull!UrlRemovedOnce
    BY DEF PipeHeld
  <2>1. Pull!UrlRemovedOnce
    BY DEF PullInv, AgentInv, Pull!UrlRemovedOnce
  <2>2. ASSUME NEW k \in Pull!Chunks
        PROVE  HeldBy(v7[k], Cardinality({o \in {"agent", "xfer"} :
                                IF o = "agent" THEN v3.pb = k ELSE v6.life = "live" /\ v6.pb = k}))
    BY HoldersCounted DEF PullInv, PipesInv
  <2>3. Pull!PipeHeld
    BY <2>2, SameCardinality DEF Pull!PipeHeld, HeldBy
  <2> QED BY <2>1, <2>3
<1> QED BY <1>1, <1>2, <1>3, PTL DEF PartsSpec

----------------------------------------------------------------------------
(* Loggers and their outputs (LogManager): v1 is file, v5 ini, v6 loggers,  *)
(* v7 output_list, v10 reloads and v11 toggling.                            *)

\* A logger is an entry and its outputs; the outputs are objects of the list, and
\* entry and outputs are what a configuration c says of the module.
LoggerOf(l) ==
    /\ l = [entry |-> l.entry, outs |-> l.outs]
    /\ l.entry = [type |-> l.entry.type, outputs |-> l.entry.outputs,
                  len |-> l.entry.len, born |-> l.entry.born]
AliveIn(l, list) == \A p \in l.outs : p[1] \in DOMAIN list /\ list[p[1]] = p[2]
FollowsFor(l, m, c) ==
    /\ l.entry.type \ {"SHUTDOWN"} = Loggers!get_log_type(c, m) \ {"SHUTDOWN"}
    /\ \A p \in l.outs : p[1] \in Loggers!get_log_output(c, m) /\ p[2].mode = c.mode[p[1]]

\* Every output there is has the mode of the configuration loaded last.
ModesOf(list, c) == \A o \in DOMAIN list : list[o].mode = c.mode[o]

LoggersInv ==
    /\ \A m \in DOMAIN v6 : LoggerOf(v6[m]) /\ AliveIn(v6[m], v7)
    /\ v5 # Nil => ModesOf(v7, v5) /\ \A m \in DOMAIN v6 : FollowsFor(v6[m], m, v5)

\* Outputs that exist are kept by get_output_list, new ones get their mode from
\* the configuration.
LEMMA OutputListKeeps ==
    ASSUME NEW c, NEW list, NEW wanted, NEW bad, NEW k,
           NEW new, new = Loggers!get_output_list(c, list, wanted, bad, k)
    PROVE  /\ \A o \in DOMAIN list : o \in DOMAIN new /\ new[o] = list[o]
           /\ ModesOf(list, c) => ModesOf(new, c)
<1>1. /\ DOMAIN new = DOMAIN list \cup (wanted \ bad)
      /\ \A o \in DOMAIN new : new[o] = IF o \in DOMAIN list THEN list[o] ELSE Loggers!Object(c.mode[o], k)
  BY DEF Loggers!get_output_list
<1>2. \A o : Loggers!Object(c.mode[o], k).mode = c.mode[o]
  BY DEF Loggers!Object
<1> QED BY <1>1, <1>2 DEF ModesOf

\* A logger made for a module writes to outputs that exist and follows the
\* configuration, if there is one.
LEMMA LoggerIs ==
    ASSUME NEW c, NEW m, NEW k, NEW list, NEW l,
           l = Loggers!Logger(Loggers!get_module_cfg_entry(c, m, k), c, list)
    PROVE  /\ LoggerOf(l) /\ AliveIn(l, list)
           /\ c # Nil /\ ModesOf(list, c) => FollowsFor(l, m, c)
<1>1. PICK e : e = Loggers!get_module_cfg_entry(c, m, k)
  OBVIOUS
<1>2. e = [type |-> e.type, outputs |-> e.outputs, len |-> e.len, born |-> e.born]
  BY <1>1 DEF Loggers!get_module_cfg_entry
<1>3. l = [entry |-> e, outs |-> {<<o, list[o]>> : o \in Loggers!Wanted(c, e) \cap DOMAIN list}]
  BY <1>1 DEF Loggers!Logger
<1>4. LoggerOf(l)
  BY <1>2, <1>3 DEF LoggerOf
<1>5. AliveIn(l, list)
  BY <1>3 DEF AliveIn
<1>6. ASSUME c # Nil, ModesOf(list, c) PROVE FollowsFor(l, m, c)
  <2>1. e.type = Loggers!get_log_type(c, m) /\ e.outputs = Loggers!get_log_output(c, m)
    BY <1>1, <1>6 DEF Loggers!get_module_cfg_entry
  <2>2. Loggers!Wanted(c, e) \subseteq Loggers!get_log_output(c, m)
    BY <1>6, <2>1 DEF Loggers!Wanted
  <2>3. l.entry = e /\ \A p \in l.outs : \E o \in Loggers!Wanted(c, e) \cap DOMAIN list : p = <<o, list[o]>>
    BY <1>3
  <2> QED BY <1>6, <2>1, <2>2, <2>3 DEF FollowsFor, ModesOf
<1> QED BY <1>4, <1>5, <1>6

\* What a log call does about the configuration.
LEMMA UpdateKeeps ==
    ASSUME LoggersInv, NEW bad, Loggers!update_config(bad)
    PROVE  LoggersInv'
<1>1. CASE UNCHANGED <<v5, v6, v7>>
  BY <1>1 DEF LoggersInv
<1>2. CASE v5' = Nil /\ UNCHANGED <<v6, v7>>
  BY <1>2 DEF LoggersInv
<1>3. ASSUME NEW c, NEW list, list = Loggers!check_unused_output(c, v7),
             v5' = c, v7' = Loggers!get_output_list(c, list, Loggers!AllWanted(c, v10'), bad, v10'),
             v6' = Loggers!apply_config(c, v7', v10')
      PROVE  LoggersInv'
  <2>1. ModesOf(list, c)
    BY <1>3 DEF ModesOf, Loggers!check_unused_output
  <2>2. ModesOf(v7', c)
    BY <1>3, <2>1, OutputListKeeps
  <2>3. DOMAIN v6' = DOMAIN v6 /\ \A m \in DOMAIN v6 :
            v6'[m] = Loggers!Logger(Loggers!get_module_cfg_entry(c, m, v10'), c, v7')
    BY <1>3 DEF Loggers!apply_config
  <2>4. \A m \in DOMAIN v6 : /\ LoggerOf(v6'[m]) /\ AliveIn(v6'[m], v7')
                             /\ c # Nil => FollowsFor(v6'[m], m, c)
    BY <2>2, <2>3, LoggerIs
  <2> QED BY <1>3, <2>2, <2>3, <2>4 DEF LoggersInv
<1>4. CASE Loggers!Load(v1.cfg, Loggers!check_unused_output(v1.cfg, v7), bad)
  BY <1>2, <1>3, <1>4 DEF Loggers!Load
<1> QED BY <1>1, <1>4 DEF Loggers!update_config, Loggers!cfgVars

\* A logger that is made joins the others.
LEMMA GetLoggerKeeps ==
    ASSUME LoggersInv, NEW m, NEW bad, Loggers!get_logger(m, bad)
    PROVE  LoggersInv'
<1>1. PICK entry : entry = Loggers!get_module_cfg_entry(v5, m, v10)
  OBVIOUS
<1>2. /\ v7' = Loggers!get_output_list(v5, v7, Loggers!Wanted(v5, entry), bad, v10)
      /\ v6' = [n \in DOMAIN v6 \cup {m} |-> IF n = m THEN Loggers!Logger(entry, v5, v7') ELSE v6[n]]
      /\ m \notin DOMAIN v6 /\ v5' = v5
  BY <1>1 DEF Loggers!get_logger, Loggers!cfgVars
<1>3. PICK l : l = Loggers!Logger(entry, v5, v7')
  OBVIOUS
<1>4. DOMAIN v6' = DOMAIN v6 \cup {m} /\ v6'[m] = l /\ \A n \in DOMAIN v6 : v6'[n] = v6[n]
  BY <1>2, <1>3
<1>5. /\ \A o \in DOMAIN v7 : o \in DOMAIN v7' /\ v7'[o] = v7[o]
      /\ ModesOf(v7, v5) => ModesOf(v7', v5)
  BY <1>2, OutputListKeeps
<1>6. /\ LoggerOf(l) /\ AliveIn(l, v7')
      /\ v5 # Nil /\ ModesOf(v7', v5) => FollowsFor(l, m, v5)
  BY <1>1, <1>3, LoggerIs
<1>7. \A n \in DOMAIN v6 : AliveIn(v6[n], v7')
  BY <1>5 DEF LoggersInv, AliveIn
<1> QED BY <1>2, <1>4, <1>5, <1>6, <1>7 DEF LoggersInv

\* logger::shutdown(bool) writes one type into one entry, or nothing.
LEMMA ShutdownKeeps ==
    ASSUME LoggersInv, Loggers!shutdown_writes PROVE LoggersInv'
<1>1. v5' = v5 /\ v7' = v7
  BY DEF Loggers!shutdown_writes, Loggers!cfgVars
<1>2. CASE DOMAIN v6' = DOMAIN v6 /\ \A n \in DOMAIN v6 : v6'[n] = v6[n]
  BY <1>1, <1>2 DEF LoggersInv
<1>3. CASE ~(DOMAIN v6' = DOMAIN v6 /\ \A n \in DOMAIN v6 : v6'[n] = v6[n])
  <2>1. PICK m, type :
           /\ v6' = [v6 EXCEPT ![m].entry.type = type]
           /\ type = IF v11.off THEN v6[m].entry.type \cup {"SHUTDOWN"} ELSE v6[m].entry.type \ {"SHUTDOWN"}
    BY <1>3 DEF Loggers!shutdown_writes
  <2>2. m \in DOMAIN v6
    BY <1>3, <2>1
  <2>3. PICK e : e = [v6[m].entry EXCEPT !.type = type]
    OBVIOUS
  <2>4. PICK l : l = [v6[m] EXCEPT !.entry = e]
    OBVIOUS
  <2>5. v6' = [v6 EXCEPT ![m] = l]
    BY <2>1, <2>3, <2>4
  <2>6. DOMAIN v6' = DOMAIN v6 /\ v6'[m] = l /\ \A n \in DOMAIN v6 \ {m} : v6'[n] = v6[n]
    BY <2>2, <2>5
  <2>7. LoggerOf(v6[m])
    BY <2>2 DEF LoggersInv
  <2>8. e = [type |-> type, outputs |-> v6[m].entry.outputs, len |-> v6[m].entry.len, born |-> v6[m].entry.born]
    BY <2>3, <2>7 DEF LoggerOf
  <2>9. l = [entry |-> e, outs |-> v6[m].outs]
    BY <2>4, <2>7 DEF LoggerOf
  <2>10. LoggerOf(l) /\ l.outs = v6[m].outs /\ l.entry.type \ {"SHUTDOWN"} = v6[m].entry.type \ {"SHUTDOWN"}
    BY <2>1, <2>8, <2>9 DEF LoggerOf
  <2> QED BY <1>1, <2>2, <2>6, <2>10 DEF LoggersInv, AliveIn, FollowsFor
<1> QED BY <1>2, <1>3

\* One step of the loggers keeps the invariant.
LEMMA LoggersKeep == ASSUME LoggersInv, Loggers!Next PROVE LoggersInv'
<1>1. ASSUME NEW m, NEW bad, Loggers!log(m, bad) PROVE LoggersInv'
  BY <1>1, UpdateKeeps DEF Loggers!log
<1>2. ASSUME NEW m, NEW off, Loggers!shutdown_reads(m, off) PROVE LoggersInv'
  BY <1>2 DEF Loggers!shutdown_reads, Loggers!cfgVars, LoggersInv
<1>3. ASSUME NEW c, Loggers!Edit(c) PROVE LoggersInv'
  BY <1>3 DEF Loggers!Edit, Loggers!cfgVars, LoggersInv
<1>4. ASSUME Loggers!Tick PROVE LoggersInv'
  BY <1>4 DEF Loggers!Tick, Loggers!cfgVars, LoggersInv
<1> QED BY <1>1, <1>2, <1>3, <1>4, GetLoggerKeeps, ShutdownKeeps DEF Loggers!Next

\* The invariant holds at the start and shows what is promised.
LEMMA LoggersStart == Loggers!Init => LoggersInv
<1> SUFFICES ASSUME Loggers!Init PROVE LoggersInv
  OBVIOUS
<1>1. v6 = <<>> /\ v7 = <<>>
  BY DEF Loggers!Init
<1>2. DOMAIN v6 = {} /\ DOMAIN v7 = {}
  BY <1>1
<1> QED BY <1>2 DEF LoggersInv, ModesOf

LEMMA LoggersShow == LoggersInv => Loggers!OutputsAlive /\ Loggers!LoggersAgree
BY DEF LoggersInv, Loggers!OutputsAlive, Loggers!LoggersAgree, AliveIn, FollowsFor

----------------------------------------------------------------------------
(* Log files (LogFile): v1 is disk, v2 entry, v3 log_open and v7 written.   *)

\* The bytes in file i of a name, none if there is no such file.
FileAt(files, i) == IF i \in DOMAIN files THEN files[i] ELSE <<>>

\* All that is kept, the oldest first; no entry keeps more than two older files.
Kept(files) == (FileAt(files, 2) \o FileAt(files, 1)) \o FileAt(files, 0)
Older(n) == IF n = "a" THEN 2 ELSE 0

\* The older files are there without a gap, and what is kept is the end of what
\* was written; what was dropped was dropped with all older files in use.
FilesOK(files, w, n) ==
    /\ DOMAIN files \subseteq 0 .. Older(n)
    /\ 2 \in DOMAIN files => 1 \in DOMAIN files
    /\ \E S : /\ \A i \in DOMAIN files : files[i] \in Seq(S)
              /\ \E p \in Seq(S) : /\ w = p \o Kept(files)
                                   /\ p # <<>> => 1 .. Older(n) \subseteq DOMAIN files

\* An open log file is there.
FileInv ==
    /\ v2 # Nil => v2 \in FileEntries
    /\ v3 => 0 \in DOMAIN v1[v2.name]
    /\ DOMAIN v1 = {"a", "b"} /\ DOMAIN v7 = {"a", "b"}
    /\ \A n \in {"a", "b"} : FilesOK(v1[n], v7[n], n)

\* The entries of one name keep the same number of older files.
LEMMA EntriesAre ==
    ASSUME NEW e \in FileEntries
    PROVE  e.name \in {"a", "b"} /\ e.rolloever = Older(e.name)
BY DEF FileEntries, FileEntry, Older

\* What is kept is a sequence.
LEMMA KeptIs ==
    ASSUME NEW S, NEW files, \A i \in DOMAIN files : files[i] \in Seq(S)
    PROVE  \A i : FileAt(files, i) \in Seq(S)
BY DEF FileAt

\* Opening a file that is not there makes an empty one.
LEMMA OpenedKeeps ==
    ASSUME NEW files, NEW w, NEW n \in {"a", "b"}, FilesOK(files, w, n), NEW new, new = File!Opened(files)
    PROVE  FilesOK(new, w, n) /\ 0 \in DOMAIN new
<1>1. /\ DOMAIN new = DOMAIN files \cup {0}
      /\ new[0] = FileAt(files, 0) /\ \A i \in DOMAIN files \ {0} : new[i] = files[i]
  BY DEF File!Opened, File!Contents, FileAt
<1>2. \A i : FileAt(new, i) = FileAt(files, i)
  BY <1>1 DEF FileAt
<1>3. Kept(new) = Kept(files)
  BY <1>2 DEF Kept
<1>4. PICK S : /\ \A i \in DOMAIN files : files[i] \in Seq(S)
               /\ \E p \in Seq(S) : /\ w = p \o Kept(files)
                                    /\ p # <<>> => 1 .. Older(n) \subseteq DOMAIN files
  BY DEF FilesOK
<1>5. \A i \in DOMAIN new : new[i] \in Seq(S)
  <2>1. FileAt(files, 0) \in Seq(S)
    BY <1>4 DEF FileAt
  <2> QED BY <1>1, <1>4, <2>1
<1>6. DOMAIN new \subseteq 0 .. Older(n) /\ (2 \in DOMAIN new => 1 \in DOMAIN new)
  BY <1>1 DEF FilesOK, Older
<1>7. 1 .. Older(n) \subseteq DOMAIN files => 1 .. Older(n) \subseteq DOMAIN new
  BY <1>1
<1> QED BY <1>1, <1>3, <1>4, <1>5, <1>6, <1>7 DEF FilesOK

\* Concatenation, read from the right.
LEMMA ConcatOfConcat ==
    ASSUME NEW R, NEW s \in Seq(R), NEW t \in Seq(R), NEW u \in Seq(R)
    PROVE  s \o (t \o u) = (s \o t) \o u
<1>1. PICK x : x = (s \o t) \o u
  OBVIOUS
<1>2. x = s \o (t \o u)
  BY <1>1, ConcatAssociative, SMTT(60)
<1> QED BY <1>1, <1>2

\* Rolling drops the oldest file, if all of them are in use, and moves the rest.
LEMMA RolledKeeps ==
    ASSUME NEW files, NEW w, NEW e \in FileEntries, FilesOK(files, w, e.name), 0 \in DOMAIN files,
           NEW new, new = File!Rolled(files, e)
    PROVE  FilesOK(new, w, e.name)
<1>1. PICK S : /\ \A i \in DOMAIN files : files[i] \in Seq(S)
               /\ \E p \in Seq(S) : /\ w = p \o Kept(files)
                                    /\ p # <<>> => 1 .. Older(e.name) \subseteq DOMAIN files
  BY DEF FilesOK
<1>2. PICK p \in Seq(S) : /\ w = p \o Kept(files)
                          /\ p # <<>> => 1 .. Older(e.name) \subseteq DOMAIN files
  BY <1>1
<1>3. e.name \in {"a", "b"} /\ e.rolloever = Older(e.name)
  BY EntriesAre
<1>4. \A i : FileAt(files, i) \in Seq(S)
  BY <1>1, KeptIs
<1>5. CASE e.name = "a"
  <2>1. /\ e.rolloever = 2 /\ Older(e.name) = 2
        /\ DOMAIN files \subseteq 0 .. 2 /\ (2 \in DOMAIN files => 1 \in DOMAIN files)
    BY <1>3, <1>5 DEF FilesOK, Older
  <2>2. new = File!rolloever_files(files, e)
    BY <2>1 DEF File!Rolled
  <2>3. /\ DOMAIN new = {i \in 1 .. 2 : i - 1 \in DOMAIN files} \cup {i \in DOMAIN files : i >= 2}
        /\ \A i \in DOMAIN new : new[i] = IF i <= 2 /\ i - 1 \in DOMAIN files THEN files[i - 1] ELSE files[i]
    BY <2>1, <2>2 DEF File!rolloever_files
  <2>4. DOMAIN new = IF 1 \in DOMAIN files THEN {1, 2} ELSE {1}
    BY <2>1, <2>3
  <2>5. new[1] = files[0] /\ (1 \in DOMAIN files => new[2] = files[1])
    BY <2>3, <2>4
  <2>6. FileAt(new, 0) = <<>> /\ FileAt(new, 1) = FileAt(files, 0) /\ FileAt(new, 2) = FileAt(files, 1)
    BY <2>4, <2>5 DEF FileAt
  <2>7. Kept(new) = FileAt(files, 1) \o FileAt(files, 0)
    <3>1. FileAt(files, 1) \o FileAt(files, 0) \in Seq(S)
      BY <1>4, ConcatProperties
    <3> QED BY <3>1, <2>6, ConcatEmptySeq DEF Kept
  <2>8. p \o FileAt(files, 2) \in Seq(S) /\ w = (p \o FileAt(files, 2)) \o Kept(new)
    <3>1. PICK x \in Seq(S), y \in Seq(S), z \in Seq(S) :
             x = FileAt(files, 2) /\ y = FileAt(files, 1) /\ z = FileAt(files, 0)
      BY <1>4
    <3>2. w = p \o ((x \o y) \o z) /\ Kept(new) = y \o z
      BY <1>2, <2>7, <3>1 DEF Kept
    <3>3. (x \o y) \o z = x \o (y \o z) /\ y \o z \in Seq(S)
      <4>1. (x \o y) \o z = x \o (y \o z)
        BY ConcatOfConcat, SMTT(60)
      <4>2. y \o z \in Seq(S)
        BY ConcatProperties
      <4> QED BY <4>1, <4>2, Zenon
    <3>4. PICK u \in Seq(S) : u = y \o z
      BY <3>3
    <3>5. p \o (x \o u) = (p \o x) \o u
      BY ConcatOfConcat, SMTT(60)
    <3>6. p \o x \in Seq(S)
      BY ConcatProperties
    <3> QED BY <3>1, <3>2, <3>3, <3>4, <3>5, <3>6
  <2>9. p \o FileAt(files, 2) # <<>> => 1 .. 2 \subseteq DOMAIN new
    <3>1. CASE p # <<>>
      BY <3>1, <1>2, <2>1, <2>4
    <3>2. CASE FileAt(files, 2) # <<>>
      BY <3>2, <2>1, <2>4 DEF FileAt
    <3>3. p = <<>> /\ FileAt(files, 2) = <<>> => p \o FileAt(files, 2) = <<>>
      OBVIOUS
    <3> QED BY <3>1, <3>2, <3>3
  <2>10. \A i \in DOMAIN new : new[i] \in Seq(S)
    BY <1>1, <2>4, <2>5
  <2>11. DOMAIN new \subseteq 0 .. 2 /\ (2 \in DOMAIN new => 1 \in DOMAIN new)
    BY <2>4
  <2> QED BY <2>1, <2>8, <2>9, <2>10, <2>11 DEF FilesOK
<1>6. CASE e.name = "b"
  <2>0. e.rolloever = 0 /\ Older(e.name) = 0
    BY <1>3, <1>6 DEF Older
  <2>1. e.rolloever = 0 /\ Older(e.name) = 0 /\ DOMAIN files = {0}
    <3>1. DOMAIN files \subseteq 0 .. 0
      BY <2>0 DEF FilesOK
    <3>2. \A i \in 0 .. 0 : i = 0
      OBVIOUS
    <3>3. \A i : i \in DOMAIN files <=> i = 0
      BY <3>1, <3>2
    <3> QED BY <2>0, <3>3
  <2>2. DOMAIN new = {}
    BY <2>1 DEF File!Rolled
  <2>3. Kept(new) = <<>>
    BY <2>2 DEF Kept, FileAt
  <2>4. w \in Seq(S)
    BY <1>2, <1>4 DEF Kept
  <2>5. w = w \o Kept(new)
    BY <2>3, <2>4
  <2>6. 1 .. Older(e.name) = {}
    BY <2>1
  <2> QED BY <2>2, <2>4, <2>5, <2>6 DEF FilesOK
<1> QED BY <1>3, <1>5, <1>6

\* What is written is the last of what is kept.
LEMMA WrittenKeeps ==
    ASSUME NEW files, NEW w, NEW n \in {"a", "b"}, FilesOK(files, w, n), 0 \in DOMAIN files,
           NEW r, \E T : r \in Seq(T), NEW new, new = [files EXCEPT ![0] = @ \o r]
    PROVE  FilesOK(new, w \o r, n)
<1>1. PICK S : /\ \A i \in DOMAIN files : files[i] \in Seq(S)
               /\ \E p \in Seq(S) : /\ w = p \o Kept(files)
                                    /\ p # <<>> => 1 .. Older(n) \subseteq DOMAIN files
  BY DEF FilesOK
<1>2. PICK p \in Seq(S) : /\ w = p \o Kept(files)
                          /\ p # <<>> => 1 .. Older(n) \subseteq DOMAIN files
  BY <1>1
<1>3. DOMAIN new = DOMAIN files /\ new[0] = files[0] \o r /\ \A i \in DOMAIN files \ {0} : new[i] = files[i]
  OBVIOUS
<1>t. PICK T : r \in Seq(T)
  OBVIOUS
<1>4. PICK R : R = S \cup T
  OBVIOUS
<1>5. p \in Seq(R) /\ r \in Seq(R) /\ \A i \in DOMAIN new : new[i] \in Seq(R)
  <2>1. p \in Seq(R) /\ r \in Seq(R) /\ \A i \in DOMAIN files : files[i] \in Seq(R)
    BY <1>1, <1>t, <1>4
  <2>2. files[0] \o r \in Seq(R)
    BY <2>1, ConcatProperties
  <2> QED BY <1>3, <2>1, <2>2
<1>6. \A i : FileAt(files, i) \in Seq(S)
  BY <1>1, KeptIs
<1>7. /\ FileAt(new, 0) = FileAt(files, 0) \o r
      /\ FileAt(new, 1) = FileAt(files, 1) /\ FileAt(new, 2) = FileAt(files, 2)
  BY <1>3 DEF FileAt
<1>8. Kept(new) = Kept(files) \o r
  <2>0. r \in Seq(R)
    BY <1>5
  <2>1. PICK x \in Seq(S), z \in Seq(S) :
           x = FileAt(files, 2) \o FileAt(files, 1) /\ z = FileAt(files, 0)
    BY <1>6, ConcatProperties
  <2>2. Kept(files) = x \o z /\ Kept(new) = x \o (z \o r)
    BY <1>7, <2>1 DEF Kept
  <2>3. x \in Seq(R) /\ z \in Seq(R)
    BY <1>4
  <2>4. x \o (z \o r) = (x \o z) \o r
    BY <2>0, <2>3, ConcatOfConcat, SMTT(60)
  <2> QED BY <2>2, <2>4
<1>9. Kept(files) \in Seq(S)
  BY <1>6 DEF Kept
<1>10. w \o r = p \o Kept(new)
  <2>1. p \in Seq(R) /\ r \in Seq(R) /\ Kept(files) \in Seq(R)
    BY <1>4, <1>5, <1>9
  <2>2. p \o (Kept(files) \o r) = (p \o Kept(files)) \o r
    BY <2>1, ConcatOfConcat, SMTT(60)
  <2> QED BY <1>2, <1>8, <2>2
<1> QED BY <1>2, <1>3, <1>5, <1>10 DEF FilesOK

\* The output is opened or reset: the file is rolled if it is full, and made if it
\* is not there.
LEMMA CreateKeeps ==
    ASSUME FileInv, NEW e \in FileEntries, NEW opens, File!create_file(e, opens),
           v2' = e, v7' = v7
    PROVE  FileInv'
<1>1. e.name \in {"a", "b"} /\ FilesOK(v1[e.name], v7[e.name], e.name)
  BY EntriesAre DEF FileInv
<1>2. PICK files : /\ files = v1[e.name] \/ (0 \in DOMAIN v1[e.name] /\ files = File!Rolled(v1[e.name], e))
                   /\ v1' = [v1 EXCEPT ![e.name] = IF opens = "yes" THEN File!Opened(files) ELSE files]
  BY DEF File!create_file
<1>3. FilesOK(files, v7[e.name], e.name)
  BY <1>1, <1>2, RolledKeeps
<1>4. PICK new : new = IF opens = "yes" THEN File!Opened(files) ELSE files
  OBVIOUS
<1>5. FilesOK(new, v7[e.name], e.name) /\ (opens = "yes" => 0 \in DOMAIN new)
  BY <1>1, <1>3, <1>4, OpenedKeeps
<1>6. DOMAIN v1' = DOMAIN v1 /\ v1'[e.name] = new /\ \A n \in {"a", "b"} \ {e.name} : v1'[n] = v1[n]
  BY <1>1, <1>2, <1>4 DEF FileInv
<1>7. v3' => opens = "yes"
  BY DEF File!create_file
<1>8. \A n \in {"a", "b"} : FilesOK(v1'[n], v7'[n], n)
  BY <1>1, <1>5, <1>6 DEF FileInv
<1>9. v3' => 0 \in DOMAIN v1'[v2'.name]
  BY <1>5, <1>6, <1>7
<1> QED BY <1>6, <1>8, <1>9 DEF FileInv

\* A record is logged, in a file that may be rolled before.
LEMMA LogKeeps ==
    ASSUME FileInv, NEW works, NEW outcome, NEW n \in Nat, File!log(works, outcome, n)
    PROVE  FileInv'
<1>1. v2 # Nil /\ v3 /\ v2 \in FileEntries /\ v2' = v2
  BY DEF File!log, FileInv
<1>2. PICK e \in FileEntries : e = v2
  BY <1>1
<1>3. e.name \in {"a", "b"} /\ FilesOK(v1[e.name], v7[e.name], e.name) /\ 0 \in DOMAIN v1[e.name]
  BY <1>1, <1>2, EntriesAre DEF FileInv
<1>4. PICK files, ready, ok, bytes :
         /\ \E R : bytes \in Seq(R)
         /\ files = v1[e.name] \/ files = File!Rolled(v1[e.name], e)
         /\ ok => ready
         /\ v1' = [v1 EXCEPT ![e.name] = IF ~ready THEN files
                       ELSE IF ok THEN [File!Opened(files) EXCEPT ![0] = @ \o bytes]
                       ELSE File!Opened(files)]
         /\ v7' = IF ok THEN [v7 EXCEPT ![e.name] = @ \o bytes] ELSE v7
         /\ v3' => ready
  <2>1. PICK rolls, ready, ok, bytes :
         /\ rolls = (File!Full \/ File!Over)
         /\ ready = IF rolls THEN works ELSE TRUE
         /\ ok = (ready /\ outcome = "ok")
         /\ bytes = [i \in 1 .. n |-> File!Count + i]
    OBVIOUS
  <2>2. PICK files : files = IF rolls THEN File!Rolled(v1[e.name], e) ELSE v1[e.name]
    OBVIOUS
  <2>3. /\ v1' = [v1 EXCEPT ![e.name] = IF ~ready THEN files
                       ELSE IF ok THEN [File!Opened(files) EXCEPT ![0] = @ \o bytes]
                       ELSE File!Opened(files)]
        /\ v7' = IF ok THEN [v7 EXCEPT ![e.name] = @ \o bytes] ELSE v7
        /\ v3' = (ready /\ outcome # "error")
    BY <1>2, <2>1, <2>2 DEF File!log
  <2>4. \E R : bytes \in Seq(R)
    <3>1. PICK R : R = {File!Count + i : i \in 1 .. n}
      OBVIOUS
    <3>2. bytes \in [1 .. n -> R]
      BY <2>1, <3>1
    <3>3. bytes \in Seq(R)
      BY <3>2
    <3> QED BY <3>3
  <2> QED BY <2>1, <2>2, <2>3, <2>4
<1>5. FilesOK(files, v7[e.name], e.name)
  BY <1>3, <1>4, RolledKeeps
<1>6. PICK opened : opened = File!Opened(files)
  OBVIOUS
<1>7. FilesOK(opened, v7[e.name], e.name) /\ 0 \in DOMAIN opened
  BY <1>3, <1>5, <1>6, OpenedKeeps
<1>8. PICK longer : longer = [opened EXCEPT ![0] = @ \o bytes]
  OBVIOUS
<1>9. FilesOK(longer, v7[e.name] \o bytes, e.name) /\ 0 \in DOMAIN longer
  BY <1>3, <1>4, <1>7, <1>8, WrittenKeeps
<1>10. PICK new : new = IF ~ready THEN files ELSE IF ok THEN longer ELSE opened
  OBVIOUS
<1>11. /\ DOMAIN v1' = DOMAIN v1 /\ v1'[e.name] = new
       /\ \A m \in {"a", "b"} \ {e.name} : v1'[m] = v1[m]
  BY <1>3, <1>4, <1>6, <1>8, <1>10 DEF FileInv
<1>12. /\ DOMAIN v7' = DOMAIN v7 /\ v7'[e.name] = IF ok THEN v7[e.name] \o bytes ELSE v7[e.name]
       /\ \A m \in {"a", "b"} \ {e.name} : v7'[m] = v7[m]
  BY <1>3, <1>4 DEF FileInv
<1>13. FilesOK(new, v7'[e.name], e.name) /\ (ready => 0 \in DOMAIN new)
  <2>1. CASE ~ready
    BY <2>1, <1>4, <1>5, <1>10, <1>12
  <2>2. CASE ready /\ ok
    BY <2>2, <1>9, <1>10, <1>12
  <2>3. CASE ready /\ ~ok
    BY <2>3, <1>7, <1>10, <1>12
  <2> QED BY <2>1, <2>2, <2>3
<1>14. \A m \in {"a", "b"} : FilesOK(v1'[m], v7'[m], m)
  BY <1>11, <1>12, <1>13 DEF FileInv
<1>15. v3' => 0 \in DOMAIN v1'[v2'.name]
  BY <1>1, <1>2, <1>4, <1>11, <1>13
<1> QED BY <1>1, <1>11, <1>12, <1>14, <1>15 DEF FileInv

\* One step of the log file keeps the invariant.
LEMMA FileKeeps == ASSUME FileInv, File!Next PROVE FileInv'
<1>1. ASSUME NEW e \in FileEntries, NEW opens, File!open(e, opens) PROVE FileInv'
  BY <1>1, CreateKeeps DEF File!open
<1>2. ASSUME NEW e \in FileEntries, NEW opens, File!update_config(e, opens) PROVE FileInv'
  <2>1. CASE e.period # v2.period \/ e.name # v2.name
    BY <1>2, <2>1, CreateKeeps DEF File!update_config
  <2>2. CASE ~(e.period # v2.period \/ e.name # v2.name)
    <3>1. UNCHANGED <<v1, v3, v7>> /\ v2' = e
      BY <1>2, <2>2 DEF File!update_config
    <3> QED BY <2>2, <3>1 DEF FileInv
  <2> QED BY <2>1, <2>2
<1>3. ASSUME File!Crash PROVE FileInv'
  BY <1>3 DEF File!Crash, FileInv
<1>4. ASSUME File!Tick PROVE FileInv'
  BY <1>4 DEF File!Tick, FileInv
<1> QED BY <1>1, <1>2, <1>3, <1>4, LogKeeps DEF File!Next

\* No file is there when the program starts for the first time.
LEMMA FileStart == File!Init => FileInv
<1> SUFFICES ASSUME File!Init PROVE FileInv
  OBVIOUS
<1>1. /\ DOMAIN v1 = {"a", "b"} /\ DOMAIN v7 = {"a", "b"} /\ v2 = Nil /\ v3 = FALSE
      /\ \A n \in {"a", "b"} : v1[n] = <<>> /\ v7[n] = <<>>
  BY DEF File!Init
<1>2. ASSUME NEW n \in {"a", "b"} PROVE FilesOK(v1[n], v7[n], n)
  <2>1. DOMAIN v1[n] = {} /\ v7[n] = <<>>
    BY <1>1
  <2>2. Kept(v1[n]) = <<>>
    BY <2>1 DEF Kept, FileAt
  <2>3. <<>> \in Seq({}) /\ v7[n] = <<>> \o Kept(v1[n])
    BY <2>1, <2>2
  <2> QED BY <2>1, <2>3 DEF FilesOK
<1> QED BY <1>1, <1>2 DEF FileInv

----------------------------------------------------------------------------
(* KeepsTheNewest reads the files one behind the other, the last one first.  *)

\* One, two or three sequences, one behind the other.
LEMMA FlattenIs ==
    ASSUME NEW S, NEW n \in 1 .. 3, NEW q \in [1 .. n -> Seq(S)]
    PROVE  File!FlattenSeq(q) = IF n = 1 THEN q[1] ELSE IF n = 2 THEN q[1] \o q[2] ELSE (q[1] \o q[2]) \o q[3]
<1> DEFINE Step(g) == [i \in 1 .. n |-> IF i = 1 THEN q[i] ELSE g[i - 1] \o q[i]]
           F == CHOOSE g : g = Step(g)
           W == [i \in 1 .. n |-> IF i = 1 THEN q[1] ELSE IF i = 2 THEN q[1] \o q[2] ELSE (q[1] \o q[2]) \o q[3]]
<1>1. Len(q) = n /\ n # 0
  OBVIOUS
<1>2. File!FlattenSeq(q) = F[n]
  BY <1>1 DEF File!FlattenSeq
<1>3. W = Step(W)
  <2>1. \A i \in 1 .. n : i = 1 \/ i = 2 \/ i = 3
    OBVIOUS
  <2>2. \A i \in 1 .. n : W[i] = Step(W)[i]
    BY <2>1
  <2> QED BY <2>2
<1>4. F = Step(F)
  BY <1>3
<1> HIDE DEF F
<1>5. \A i \in 1 .. n : F[i] = IF i = 1 THEN q[i] ELSE F[i - 1] \o q[i]
  BY <1>4
<1>6. F[1] = q[1]
  BY <1>5
<1>7. ASSUME NEW i \in 2 .. n PROVE F[i] = F[i - 1] \o q[i]
  <2>1. i \in 1 .. n /\ i # 1
    OBVIOUS
  <2> QED BY <1>5, <2>1
<1>8. n # 1 => F[2] = q[1] \o q[2]
  <2>1. n # 1 => 2 \in 2 .. n /\ 2 - 1 = 1
    OBVIOUS
  <2> QED BY <1>6, <1>7, <2>1
<1>9. n = 3 => F[3] = (q[1] \o q[2]) \o q[3]
  <2>1. n = 3 => 3 \in 2 .. n /\ 3 - 1 = 2 /\ n # 1
    OBVIOUS
  <2> QED BY <1>7, <1>8, <2>1
<1> HIDE DEF W, Step
<1>10. n = 1 \/ n = 2 \/ n = 3
  OBVIOUS
<1> QED BY <1>2, <1>6, <1>8, <1>9, <1>10

\* What is behind a prefix is a suffix.
LEMMA SuffixIs ==
    ASSUME NEW S, NEW p \in Seq(S), NEW s \in Seq(S)
    PROVE  File!IsSuffix(s, p \o s)
<1>1. PICK w \in Seq(S) : /\ w = p \o s
                          /\ Len(w) = Len(p) + Len(s)
                          /\ \A i \in 1 .. Len(s) : w[Len(p) + i] = s[i]
  <2>1. /\ p \o s \in Seq(S) /\ Len(p \o s) = Len(p) + Len(s)
        /\ \A i \in 1 .. Len(p) + Len(s) : (p \o s)[i] = IF i <= Len(p) THEN p[i] ELSE s[i - Len(p)]
    BY ConcatProperties
  <2>2. PICK w \in Seq(S) : w = p \o s
    BY <2>1
  <2>3. PICK k \in Nat, m \in Nat : k = Len(p) /\ m = Len(s)
    OBVIOUS
  <2>4. ASSUME NEW i \in 1 .. m PROVE w[k + i] = s[i]
    <3>1. k + i \in 1 .. k + m /\ ~(k + i <= k) /\ (k + i) - k = i
      OBVIOUS
    <3> QED BY <2>1, <2>2, <2>3, <3>1
  <2> QED BY <2>1, <2>2, <2>3, <2>4
<1>2. PICK m \in Nat, k \in Nat : m = Len(s) /\ k = Len(p)
  OBVIOUS
<1>3. PICK a : a = File!Reverse(s)
  OBVIOUS
<1>4. PICK b : b = File!Reverse(w)
  OBVIOUS
<1>5. a \in Seq(S) /\ Len(a) = m /\ \A i \in 1 .. m : a[i] = s[m - i + 1]
  BY <1>2, <1>3 DEF File!Reverse
<1>6. b \in Seq(S) /\ Len(b) = k + m /\ \A i \in 1 .. (k + m) : b[i] = w[k + m - i + 1]
  BY <1>1, <1>2, <1>4 DEF File!Reverse
<1>7. ASSUME NEW i \in 1 .. m PROVE a[i] = b[i]
  <2>1. PICK j \in 1 .. m : j = m - i + 1
    BY <1>7
  <2>2. w[k + j] = s[j] /\ k + m - i + 1 = k + j
    BY <1>1, <1>2, <2>1
  <2> QED BY <1>5, <1>6, <2>1, <2>2
<1>8. SubSeq(a, 1, m) = SubSeq(b, 1, m)
  BY <1>5, <1>6, <1>7
<1>9. File!IsPrefix(a, b)
  BY <1>5, <1>6, <1>8 DEF File!IsPrefix
<1> QED BY <1>1, <1>3, <1>4, <1>9 DEF File!IsSuffix

\* The files from the last one back to the current one hold what is kept.
LEMMA KeptRead ==
    ASSUME NEW S, NEW files, \A i \in DOMAIN files : files[i] \in Seq(S),
           NEW b \in 0 .. 2, \A i \in DOMAIN files : i \in 0 .. b
    PROVE  File!FlattenSeq([k \in 1 .. (b + 1) |->
               IF b + 1 - k \in DOMAIN files THEN files[b + 1 - k] ELSE <<>>]) = Kept(files)
<1>1. PICK q : q = [k \in 1 .. (b + 1) |-> IF b + 1 - k \in DOMAIN files THEN files[b + 1 - k] ELSE <<>>]
  OBVIOUS
<1>2. DOMAIN q = 1 .. (b + 1) /\ \A k \in 1 .. (b + 1) : q[k] = FileAt(files, b + 1 - k)
  BY <1>1 DEF FileAt
<1>3. \A i : FileAt(files, i) \in Seq(S)
  BY KeptIs
<1>n. PICK n \in 1 .. 3 : n = b + 1
  OBVIOUS
<1>4. q \in [1 .. n -> Seq(S)]
  BY <1>1, <1>2, <1>3, <1>n
<1>5. File!FlattenSeq(q) = IF n = 1 THEN q[1] ELSE IF n = 2 THEN q[1] \o q[2] ELSE (q[1] \o q[2]) \o q[3]
  BY <1>4, FlattenIs
<1>6. PICK x \in Seq(S), y \in Seq(S), z \in Seq(S) :
         x = FileAt(files, 2) /\ y = FileAt(files, 1) /\ z = FileAt(files, 0)
  BY <1>3
<1>7. Kept(files) = (x \o y) \o z
  BY <1>6 DEF Kept
<1>8. <<>> \o y = y /\ <<>> \o z = z /\ <<>> \o <<>> = <<>>
  BY ConcatEmptySeq
<1>9. CASE b = 0
  <2>1. x = <<>> /\ y = <<>> /\ q[1] = z
    BY <1>2, <1>6, <1>9 DEF FileAt
  <2>2. File!FlattenSeq(q) = q[1]
    BY <1>5, <1>9, <1>n
  <2> QED BY <1>1, <1>7, <1>8, <2>1, <2>2
<1>10. CASE b = 1
  <2>1. x = <<>> /\ q[1] = y /\ q[2] = z
    BY <1>2, <1>6, <1>10 DEF FileAt
  <2>2. File!FlattenSeq(q) = q[1] \o q[2]
    BY <1>5, <1>10, <1>n
  <2> QED BY <1>1, <1>7, <1>8, <2>1, <2>2
<1>11. CASE b = 2
  <2>1. q[1] = x /\ q[2] = y /\ q[3] = z
    BY <1>2, <1>6, <1>11
  <2>2. File!FlattenSeq(q) = (q[1] \o q[2]) \o q[3]
    BY <1>5, <1>11, <1>n
  <2> QED BY <1>1, <1>7, <2>1, <2>2
<1> QED BY <1>9, <1>10, <1>11

\* What is kept, read as KeepsTheNewest reads it.
LEMMA FileShows == FileInv => File!KeepsTheNewest
<1> SUFFICES ASSUME FileInv PROVE File!KeepsTheNewest
  OBVIOUS
<1>1. ASSUME NEW n \in {"a", "b"}
      PROVE  LET back == IF DOMAIN v1[n] = {} THEN 0 ELSE CHOOSE i \in DOMAIN v1[n] : \A j \in DOMAIN v1[n] : j <= i
                 kept == File!FlattenSeq([k \in 1 .. (back + 1) |->
                             IF back + 1 - k \in DOMAIN v1[n] THEN v1[n][back + 1 - k] ELSE <<>>])
             IN  /\ File!IsSuffix(kept, v7[n])
                 /\ kept # v7[n] => \A e \in FileEntries : e.name = n => 1 .. e.rolloever \subseteq DOMAIN v1[n]
  <2> DEFINE back == IF DOMAIN v1[n] = {} THEN 0 ELSE CHOOSE i \in DOMAIN v1[n] : \A j \in DOMAIN v1[n] : j <= i
             kept == File!FlattenSeq([k \in 1 .. (back + 1) |->
                         IF back + 1 - k \in DOMAIN v1[n] THEN v1[n][back + 1 - k] ELSE <<>>])
  <2>1. PICK bk : bk = back
    OBVIOUS
  <2>2. bk = IF DOMAIN v1[n] = {} THEN 0 ELSE CHOOSE i \in DOMAIN v1[n] : \A j \in DOMAIN v1[n] : j <= i
    BY <2>1
  <2>3. PICK kp : kp = File!FlattenSeq([k \in 1 .. (bk + 1) |->
                         IF bk + 1 - k \in DOMAIN v1[n] THEN v1[n][bk + 1 - k] ELSE <<>>])
    OBVIOUS
  <2> HIDE DEF kept, back
  <2>4. /\ File!IsSuffix(kp, v7[n])
        /\ kp # v7[n] => \A e \in FileEntries : e.name = n => 1 .. e.rolloever \subseteq DOMAIN v1[n]
    <3>1. PICK files : files = v1[n]
      OBVIOUS
    <3>2. FilesOK(files, v7[n], n)
      BY <3>1 DEF FileInv
    <3>3. PICK S : /\ \A i \in DOMAIN files : files[i] \in Seq(S)
                   /\ \E p \in Seq(S) : /\ v7[n] = p \o Kept(files)
                                        /\ p # <<>> => 1 .. Older(n) \subseteq DOMAIN files
      BY <3>2 DEF FilesOK
    <3>4. PICK p \in Seq(S) : /\ v7[n] = p \o Kept(files)
                              /\ p # <<>> => 1 .. Older(n) \subseteq DOMAIN files
      BY <3>3
    <3>5. DOMAIN files \subseteq 0 .. 2
      BY <3>2 DEF FilesOK, Older
    <3>6. bk \in 0 .. 2 /\ \A i \in DOMAIN files : i \in 0 .. bk
      <4>1. CASE DOMAIN files = {}
        BY <2>2, <3>1, <4>1
      <4>2. CASE DOMAIN files # {}
        <5>1. \E i \in DOMAIN files : \A j \in DOMAIN files : j <= i
          <6>1. 2 \in DOMAIN files \/ 1 \in DOMAIN files \/ 0 \in DOMAIN files
            BY <3>5, <4>2
          <6>2. \A j \in DOMAIN files : j = 0 \/ j = 1 \/ j = 2
            BY <3>5
          <6> QED BY <6>1, <6>2
        <5>2. bk \in DOMAIN files /\ \A j \in DOMAIN files : j <= bk
          BY <2>2, <3>1, <4>2, <5>1
        <5> QED BY <3>5, <5>2
      <4> QED BY <4>1, <4>2
    <3>7. kp = Kept(files)
      BY <2>3, <3>1, <3>3, <3>6, KeptRead
    <3>8. Kept(files) \in Seq(S)
      <4>1. \A i : FileAt(files, i) \in Seq(S)
        BY <3>3, KeptIs
      <4> QED BY <4>1, ConcatProperties DEF Kept
    <3>9. File!IsSuffix(kp, v7[n])
      BY <3>4, <3>7, <3>8, SuffixIs
    <3>10. kp # v7[n] => p # <<>>
      BY <3>4, <3>7, <3>8, ConcatEmptySeq
    <3>11. \A e \in FileEntries : e.name = n => e.rolloever = Older(n)
      BY EntriesAre
    <3> QED BY <3>1, <3>4, <3>9, <3>10, <3>11
  <2>5. kept = kp
    BY <2>1, <2>3 DEF kept
  <2>6. /\ File!IsSuffix(kept, v7[n])
        /\ kept # v7[n] => \A e \in FileEntries : e.name = n => 1 .. e.rolloever \subseteq DOMAIN v1[n]
    BY <2>4, <2>5
  <2> QED BY <2>6, Zenon DEF kept, back
<1> QED BY <1>1 DEF File!KeepsTheNewest

----------------------------------------------------------------------------
\* log_manager and log_to_file: whatever is edited, loaded, refused or shut down,
\* loggers write to outputs that exist and agree on the configuration; whatever is
\* rolled, restarted, interrupted or cannot be opened, the files hold the newest
\* bytes in order.
THEOREM LoggingStaysSound == PartsSpec => []LoggingSound
<1> DEFINE Inv == (part = "loggers" => LoggersInv) /\ (part = "logfile" => FileInv)
<1>1. PartsInit => Inv
  <2>1. ASSUME PartsInit PROVE (part = "loggers" => Loggers!Init) /\ (part = "logfile" => File!Init)
    BY <2>1 DEF PartsInit
  <2> QED BY <2>1, LoggersStart, FileStart
<1>2. Inv /\ [PartsNext]_state => Inv'
  <2> SUFFICES ASSUME Inv, [PartsNext]_state PROVE Inv'
    OBVIOUS
  <2>1. CASE UNCHANGED state
    BY <2>1 DEF state, LoggersInv, FileInv
  <2>2. CASE PartsNext
    <3>1. part' = part /\ (part = "loggers" => Loggers!Next) /\ (part = "logfile" => File!Next)
      BY <2>2 DEF PartsNext
    <3> QED BY <3>1, LoggersKeep, FileKeeps
  <2> QED BY <2>1, <2>2
<1>3. Inv => LoggingSound
  BY LoggersShow, FileShows DEF LoggingSound
<1> QED BY <1>1, <1>2, <1>3, PTL DEF PartsSpec

----------------------------------------------------------------------------
(* The limit of a log file: v4 is file_size and v8 interrupted.             *)

\* The size that is counted is no less than the open file, unless interrupted
\* writes took it down: a file that is made new may leave it too large.
SizeInv ==
    /\ v4 \in Int
    /\ ~v8 => v4 >= 0
    /\ v3 /\ ~v8 => Len(FileAt(v1[v2.name], 0)) <= v4

\* Sizes are positive.
LEMMA EntrySizes == ASSUME NEW e \in FileEntries PROVE e.size \in Nat /\ e.size >= 1
BY DEF FileEntries, FileEntry

\* A file that was rolled is gone, and opening it makes an empty one.
LEMMA RolledEmpty ==
    ASSUME NEW files, NEW e \in FileEntries
    PROVE  0 \notin DOMAIN File!Rolled(files, e)
<1>1. e.rolloever = 0 \/ e.rolloever = 2
  BY DEF FileEntries, FileEntry
<1>2. CASE e.rolloever = 0
  BY <1>2 DEF File!Rolled
<1>3. CASE e.rolloever = 2
  BY <1>3 DEF File!Rolled, File!rolloever_files
<1> QED BY <1>1, <1>2, <1>3

\* The length of a file that is there.
LEMMA FileLengths ==
    ASSUME FileInv, NEW n \in {"a", "b"}
    PROVE  /\ FileAt(v1[n], 0) = File!Contents(v1[n])
           /\ Len(FileAt(v1[n], 0)) \in Nat
           /\ 0 \notin DOMAIN v1[n] => Len(FileAt(v1[n], 0)) = 0
<1>1. FilesOK(v1[n], v7[n], n)
  BY DEF FileInv
<1>2. PICK S : \A i \in DOMAIN v1[n] : v1[n][i] \in Seq(S)
  BY <1>1 DEF FilesOK
<1>3. FileAt(v1[n], 0) \in Seq(S)
  BY <1>2 DEF FileAt
<1>4. Len(FileAt(v1[n], 0)) \in Nat
  BY <1>3
<1>5. 0 \notin DOMAIN v1[n] => Len(FileAt(v1[n], 0)) = 0
  BY DEF FileAt
<1> QED BY <1>4, <1>5 DEF FileAt, File!Contents

\* Opening leaves what is in the file.
LEMMA OpenedSame ==
    ASSUME NEW files PROVE FileAt(File!Opened(files), 0) = FileAt(files, 0)
BY DEF File!Opened, File!Contents, FileAt

LEMMA SizeCreated ==
    ASSUME FileInv, SizeInv, NEW e \in FileEntries, NEW opens, File!create_file(e, opens), v2' = e
    PROVE  SizeInv'
<1>1. e.name \in {"a", "b"} /\ e.name \in DOMAIN v1
  BY EntriesAre DEF FileInv
<1>2. PICK there, size, full, files :
         /\ there = (opens # "no directory" /\ 0 \in DOMAIN v1[e.name])
         /\ size = IF there THEN Len(File!Contents(v1[e.name])) ELSE v4
         /\ full = (there /\ size >= e.size)
         /\ files = IF full THEN File!Rolled(v1[e.name], e) ELSE v1[e.name]
         /\ v3' = (opens = "yes")
         /\ v4' = IF full THEN 0 ELSE size
         /\ v1' = [v1 EXCEPT ![e.name] = IF opens = "yes" THEN File!Opened(files) ELSE files]
         /\ ~v8' => ~v8 \/ there
  BY DEF File!create_file
<1>3. /\ there => size = Len(FileAt(v1[e.name], 0)) /\ size \in Nat
      /\ ~there => size = v4
  BY <1>1, <1>2, FileLengths
<1>4. v4' \in Int /\ (~v8' => v4' >= 0)
  <2>1. CASE there
    <3>1. v4' \in Nat
      BY <2>1, <1>2, <1>3
    <3> QED BY <3>1
  <2>2. CASE ~there
    <3>1. v4' = v4 /\ (~v8' => ~v8)
      BY <2>2, <1>2, <1>3
    <3> QED BY <3>1 DEF SizeInv
  <2> QED BY <2>1, <2>2
<1>5. ASSUME v3', ~v8' PROVE Len(FileAt(v1'[e.name], 0)) <= v4'
  <2>1. FileAt(v1'[e.name], 0) = FileAt(files, 0)
    BY <1>1, <1>2, <1>5, OpenedSame
  <2>2. CASE full
    <3>1. FileAt(files, 0) = <<>>
      BY <1>2, <2>2, RolledEmpty DEF FileAt
    <3>2. v4' = 0
      BY <1>2, <2>2
    <3>3. FileAt(v1'[e.name], 0) = <<>>
      BY <2>1, <3>1
    <3> QED BY <3>2, <3>3
  <2>3. CASE ~full /\ there
    <3>1. v4' = Len(FileAt(v1[e.name], 0)) /\ files = v1[e.name] /\ v4' \in Nat
      BY <1>2, <1>3, <2>3
    <3> QED BY <2>1, <3>1
  <2>4. CASE ~there
    <3>1. files = v1[e.name] /\ v4' = v4 /\ v4 >= 0 /\ 0 \notin DOMAIN v1[e.name]
      BY <1>2, <1>3, <1>5, <2>4 DEF SizeInv
    <3> QED BY <1>1, <2>1, <3>1, FileLengths
  <2> QED BY <2>2, <2>3, <2>4
<1> QED BY <1>4, <1>5 DEF SizeInv

\* What was written is a sequence.
LEMMA WrittenIsSeq ==
    ASSUME NEW files, NEW w, NEW n, FilesOK(files, w, n)
    PROVE  \E S : w \in Seq(S)
<1>1. PICK S : /\ \A i \in DOMAIN files : files[i] \in Seq(S)
               /\ \E p \in Seq(S) : w = p \o Kept(files)
  BY DEF FilesOK
<1>2. \A i : FileAt(files, i) \in Seq(S)
  BY <1>1 DEF FileAt
<1>3. Kept(files) \in Seq(S)
  BY <1>2, ConcatProperties DEF Kept
<1> QED BY <1>1, <1>3, ConcatProperties

\* A record is written to a file that is not full.
LEMMA SizeLogged ==
    ASSUME FileInv, SizeInv, NEW works, NEW outcome, NEW n \in Nat, File!log(works, outcome, n)
    PROVE  SizeInv' /\ File!WritesWithin
<1>1. v2 # Nil /\ v3 /\ v2 \in FileEntries /\ v2' = v2
  BY DEF File!log, FileInv
<1>2. PICK e \in FileEntries : e = v2
  BY <1>1
<1>3. e.name \in {"a", "b"} /\ e.name \in DOMAIN v1 /\ e.name \in DOMAIN v7
  BY EntriesAre DEF FileInv
<1>4. PICK full, over, rolls, ready, ok, size, bytes :
         /\ full = File!Full /\ over = File!Over /\ rolls = (full \/ over)
         /\ ready = IF rolls THEN works ELSE TRUE
         /\ ok = (ready /\ outcome = "ok")
         /\ size = IF full THEN 0 ELSE v4
         /\ bytes = [i \in 1 .. n |-> File!Count + i]
  OBVIOUS
<1>5. PICK files : files = IF rolls THEN File!Rolled(v1[e.name], e) ELSE v1[e.name]
  OBVIOUS
<1>6. /\ v1' = [v1 EXCEPT ![e.name] =
                  IF ~ready THEN files
                  ELSE IF ok THEN [File!Opened(files) EXCEPT ![0] = @ \o bytes]
                  ELSE File!Opened(files)]
      /\ v7' = IF ok THEN [v7 EXCEPT ![e.name] = @ \o bytes] ELSE v7
      /\ v4' = CASE ready /\ outcome = "ok" -> size + n
                 [] ready /\ outcome = "EINTR" -> size - 1
                 [] OTHER -> size
      /\ v3' = (ready /\ outcome # "error")
      /\ ~v8' => ~(ready /\ outcome = "EINTR") /\ (~v8 \/ full)
  BY <1>2, <1>4, <1>5 DEF File!log
<1>7. /\ full <=> v4 >= e.size
      /\ size \in Int /\ e.size \in Nat /\ e.size >= 1 /\ (~full => size < e.size)
      /\ full \/ ~v8 => size >= 0
  <2>1. v4 \in Int /\ e.size \in Nat /\ e.size >= 1
    BY EntrySizes DEF SizeInv
  <2>2. full <=> v4 >= e.size
    BY <1>2, <1>4 DEF File!Full
  <2> QED BY <2>1, <2>2, <1>4 DEF SizeInv
<1>8. PICK opened : opened = File!Opened(files)
  OBVIOUS
<1>9. PICK c : c = FileAt(opened, 0)
  OBVIOUS
<1>10. 0 \in DOMAIN opened /\ opened[0] = c
  BY <1>8, <1>9 DEF File!Opened, FileAt
<1>11. c = IF rolls THEN <<>> ELSE FileAt(v1[e.name], 0)
  <2>1. c = FileAt(files, 0)
    BY <1>8, <1>9, OpenedSame
  <2>2. rolls => FileAt(files, 0) = <<>>
    BY <1>5, RolledEmpty DEF FileAt
  <2> QED BY <1>5, <2>1, <2>2
<1>12. Len(c) \in Nat /\ \E S : c \in Seq(S)
  <2>1. \E S : FileAt(v1[e.name], 0) \in Seq(S)
    <3>1. FilesOK(v1[e.name], v7[e.name], e.name)
      BY <1>3 DEF FileInv
    <3> QED BY <3>1 DEF FilesOK, FileAt
  <2>2. <<>> \in Seq({})
    OBVIOUS
  <2>3. \E S : c \in Seq(S)
    BY <1>11, <2>1, <2>2
  <2> QED BY <2>3
<1>13. full \/ ~v8 => Len(c) <= size
  <2>1. CASE rolls
    BY <2>1, <1>7, <1>11
  <2>2. CASE ~rolls
    <3>1. ~full /\ size = v4
      BY <2>2, <1>4
    <3> QED BY <2>2, <3>1, <1>1, <1>2, <1>11 DEF SizeInv
  <2> QED BY <2>1, <2>2
<1>14. PICK longer : longer = [opened EXCEPT ![0] = @ \o bytes]
  OBVIOUS
<1>15. FileAt(longer, 0) = longer[0] /\ Len(longer[0]) = Len(c) + n
  <2>1. longer[0] = c \o bytes /\ 0 \in DOMAIN longer
    BY <1>10, <1>14
  <2>2. PICK R : c \in Seq(R) /\ bytes \in Seq(R)
    <3>1. PICK S : c \in Seq(S)
      BY <1>12
    <3>2. PICK T : T = {File!Count + i : i \in 1 .. n}
      OBVIOUS
    <3>3. bytes \in [1 .. n -> T]
      BY <1>4, <3>2
    <3>4. bytes \in Seq(S \cup T) /\ c \in Seq(S \cup T)
      BY <3>1, <3>3
    <3> QED BY <3>4
  <2>3. Len(c \o bytes) = Len(c) + n
    <3>1. Len(bytes) = n
      BY <1>4
    <3> QED BY <2>2, <3>1, ConcatProperties
  <2> QED BY <2>1, <2>3 DEF FileAt
<1>16. /\ ok => v1'[e.name] = longer
       /\ ready /\ ~ok => v1'[e.name] = opened
  BY <1>3, <1>4, <1>6, <1>8, <1>14
<1>17. v4' \in Int /\ (~v8' => v4' >= 0)
  <2>1. /\ v4' = size + n \/ v4' = size - 1 \/ v4' = size
        /\ v4' = size - 1 => v8' \/ v4' = size + n \/ v4' = size
    BY <1>6
  <2>2. ~v8' => size >= 0
    BY <1>6, <1>7
  <2> QED BY <2>1, <2>2, <1>7
<1>18. ASSUME v3', ~v8' PROVE Len(FileAt(v1'[e.name], 0)) <= v4'
  <2>1. ready /\ outcome # "EINTR" /\ (full \/ ~v8)
    BY <1>6, <1>18
  <2>2. CASE ok
    <3>1. v4' = size + n
      <4>1. ready /\ outcome = "ok"
        BY <2>2, <1>4
      <4> QED BY <4>1, <1>6
    <3>2. Len(FileAt(v1'[e.name], 0)) = Len(c) + n
      BY <2>2, <1>15, <1>16
    <3> QED BY <2>1, <3>1, <3>2, <1>7, <1>12, <1>13
  <2>3. CASE ~ok
    <3>1. v4' = size
      <4>1. ~(ready /\ outcome = "ok") /\ ~(ready /\ outcome = "EINTR")
        BY <2>1, <2>3, <1>4
      <4> QED BY <4>1, <1>6
    <3>2. FileAt(v1'[e.name], 0) = c
      BY <2>1, <2>3, <1>9, <1>16
    <3> QED BY <2>1, <3>1, <3>2, <1>13
  <2> QED BY <2>2, <2>3
<1>19. ASSUME v7' # v7, ~v8
       PROVE  Len(v1'[e.name][0]) - (Len(v7'[e.name]) - Len(v7[e.name])) < e.size
  <2>1. ok
    BY <1>6, <1>19
  <2>2. v1'[e.name] = longer /\ Len(longer[0]) = Len(c) + n
    BY <2>1, <1>15, <1>16
  <2>3. Len(v7'[e.name]) = Len(v7[e.name]) + n /\ Len(v7[e.name]) \in Nat
    <3>1. v7'[e.name] = v7[e.name] \o bytes
      BY <2>1, <1>3, <1>6
    <3>2. PICK S : v7[e.name] \in Seq(S)
      <4>1. FilesOK(v1[e.name], v7[e.name], e.name)
        BY <1>3 DEF FileInv
      <4> QED BY <4>1, WrittenIsSeq
    <3>3. PICK T : T = {File!Count + i : i \in 1 .. n}
      OBVIOUS
    <3>4. bytes \in [1 .. n -> T] /\ Len(bytes) = n
      BY <1>4, <3>3
    <3>5. v7[e.name] \in Seq(S \cup T) /\ bytes \in Seq(S \cup T)
      BY <3>2, <3>4
    <3>6. Len(v7[e.name] \o bytes) = Len(v7[e.name]) + Len(bytes)
      BY <3>5, ConcatProperties
    <3>7. Len(v7[e.name]) \in Nat
      BY <3>2
    <3> QED BY <3>1, <3>4, <3>6, <3>7
  <2>4. Len(c) <= size /\ size < e.size
    <3>1. CASE full
      BY <3>1, <1>4, <1>7, <1>13, <1>19
    <3>2. CASE ~full
      BY <3>2, <1>7, <1>13, <1>19
    <3> QED BY <3>1, <3>2
  <2> QED BY <2>2, <2>3, <2>4, <1>7, <1>12
<1> QED BY <1>1, <1>2, <1>17, <1>18, <1>19 DEF SizeInv, File!WritesWithin

\* One step of the log file.
LEMMA SizeKeeps == ASSUME FileInv, SizeInv, File!Next PROVE SizeInv' /\ File!WritesWithin
<1>1. ASSUME NEW e \in FileEntries, NEW opens, File!open(e, opens) PROVE SizeInv' /\ File!WritesWithin
  BY <1>1, SizeCreated DEF File!open, File!WritesWithin
<1>2. ASSUME NEW e \in FileEntries, NEW opens, File!update_config(e, opens)
      PROVE  SizeInv' /\ File!WritesWithin
  <2>1. v7' = v7 /\ v2' = e
    BY <1>2 DEF File!update_config
  <2>2. CASE e.period # v2.period \/ e.name # v2.name
    <3>1. SizeInv'
      BY <1>2, <2>2, SizeCreated DEF File!update_config
    <3> QED BY <2>1, <3>1 DEF File!WritesWithin
  <2>3. CASE ~(e.period # v2.period \/ e.name # v2.name)
    <3>1. UNCHANGED <<v1, v3, v4, v8>> /\ v2'.name = v2.name
      BY <1>2, <2>1, <2>3 DEF File!update_config
    <3> QED BY <2>1, <3>1 DEF SizeInv, File!WritesWithin
  <2> QED BY <2>2, <2>3
<1>3. ASSUME File!Crash PROVE SizeInv' /\ File!WritesWithin
  BY <1>3 DEF File!Crash, SizeInv, File!WritesWithin
<1>4. ASSUME File!Tick PROVE SizeInv' /\ File!WritesWithin
  BY <1>4 DEF File!Tick, SizeInv, File!WritesWithin
<1> QED BY <1>1, <1>2, <1>3, <1>4, SizeLogged DEF File!Next

----------------------------------------------------------------------------
(* What the agent received is freed by nobody but the aio thread.            *)

\* Every pipe_buffer that is gone was empty, or its write is over.
Spared(pipes) == \A k \in Pull!Chunks : v7[k].live /\ ~pipes[k].live => v7[k].wr = 0 \/ v7[k].io

\* Closing one pipe_buffer of those that are left.
LEMMA CloseSpares ==
    ASSUME PullTypes, NEW pipes, NEW j,
           pipes = v7 \/ pipes \in Pull!close_pipe(v7, j)
    PROVE  Spared(pipes)
<1> SUFFICES ASSUME NEW k \in Pull!Chunks, v7[k].live, ~pipes[k].live PROVE v7[k].wr = 0
  BY DEF Spared
<1>1. PICK p \in Pipes : p = v7[k]
  BY DEF PullTypes
<1>2. pipes[k] = p \/ pipes[k] \in Pull!pipe_close(p)
  <2>1. pipes = v7 \/ \E q \in Pull!pipe_close(v7[j]) : pipes = [v7 EXCEPT ![j] = q]
    BY DEF Pull!close_pipe
  <2> QED BY <1>1, <2>1 DEF PullTypes
<1>3. p.wr # 0 => \A c \in Pull!pipe_close(p) : c.live = p.live
  BY <1>1 DEF Pull!pipe_close, Pipes
<1> QED BY <1>1, <1>2, <1>3

\* A new pipe_buffer besides frees none.
LEMMA MadeSpares ==
    ASSUME NEW pipes, DOMAIN pipes = Pull!Chunks, Spared(pipes), NEW j, NEW made, made.live
    PROVE  Spared([pipes EXCEPT ![j] = made])
BY DEF Spared

LEMMA PullSpares == ASSUME PullInv, Pull!Next PROVE Pull!FreesTheWritten
<1>0. PullTypes /\ DOMAIN v7 = Pull!Chunks
  BY DEF PullInv, PullTypes
<1>1. Spared(v7') => Pull!FreesTheWritten
  BY DEF Spared, Pull!FreesTheWritten
<1>2. ASSUME v7' = v7 \/ \E j : v7' \in Pull!close_pipe(v7, j) PROVE Spared(v7')
  BY <1>0, <1>2, CloseSpares
<1>3. ASSUME Pull!DropClient(v7) PROVE Spared(v7')
  BY <1>2, <1>3 DEF Pull!DropClient
<1>4. ASSUME Pull!HangUp \/ Pull!PullFails PROVE Spared(v7')
  BY <1>2, <1>3, <1>4 DEF Pull!HangUp, Pull!PullFails
<1>5. ASSUME Pull!handle_response PROVE Spared(v7')
  BY <1>5 DEF PullInv, AgentInv, BeforeContent, Spared, Pull!handle_response
<1>6. ASSUME Pull!WritePipe PROVE Spared(v7')
  <2>1. CASE v7' = v7
    BY <2>1, <1>2
  <2>2. PICK k, n, ref : v7' = v7 \/ v7' = [v7 EXCEPT ![k] = [Pull!pipe_write(v7[k], n) EXCEPT !.ref = ref]]
    BY <1>6 DEF Pull!WritePipe
  <2>3. ASSUME k \in Pull!Chunks PROVE [Pull!pipe_write(v7[k], n) EXCEPT !.ref = ref].live = v7[k].live
    <3>1. v7[k] \in Pipes
      BY <1>0, <2>3 DEF PullTypes
    <3> QED BY <3>1 DEF Pipes, Pull!pipe_write
  <2> QED BY <1>0, <2>1, <2>2, <2>3 DEF Spared
<1>7. ASSUME Pull!PipeFull PROVE Spared(v7')
  BY <1>2, <1>7 DEF Pull!PipeFull
<1>8. ASSUME Pull!Proceed PROVE Spared(v7')
  <2>1. CASE v7' = [v7 EXCEPT ![0].ref = @ + 1]
    <3>1. \A k \in Pull!Chunks : v7'[k].live = v7[k].live
      BY <1>0, <2>1 DEF PullTypes, Pipes
    <3> QED BY <3>1 DEF Spared
  <2>2. v7' = v7 \/ v7' = [v7 EXCEPT ![0].ref = @ + 1] \/ v7' \in Pull!close_pipe(v7, v3.pb)
    BY <1>8 DEF Pull!Proceed, Pull!FirstPackage, Pull!Package
  <2> QED BY <1>2, <2>1, <2>2
<1>9. ASSUME Pull!NextPipe, v7' # v7 PROVE Spared(v7')
  <2>1. PICK closed, made :
           /\ closed \in Pull!close_pipe(v7, v6.pb)
           /\ made = Pull!create_pipe_buffer(v6.remain - v7[v6.pb].size)
           /\ v7' = closed \/ v7' = [closed EXCEPT ![v6.chunk + 1] = made]
    BY <1>9 DEF Pull!NextPipe
  <2>2. Spared(closed) /\ DOMAIN closed = Pull!Chunks
    BY <1>0, <2>1, CloseSpares DEF Pull!close_pipe
  <2>3. made.live
    BY <2>1 DEF Pull!create_pipe_buffer
  <2>4. CASE v7' = closed
    BY <2>2, <2>4
  <2>5. PICK new : new = [closed EXCEPT ![v6.chunk + 1] = made]
    OBVIOUS
  <2>6. Spared(new)
    BY <2>2, <2>3, <2>5, MadeSpares
  <2>7. CASE v7' = new
    BY <2>6, <2>7
  <2> QED BY <2>1, <2>4, <2>5, <2>7
<1>10. ASSUME Pull!SendData PROVE Spared(v7')
  BY <1>2, <1>10 DEF Pull!SendData
<1>11. ASSUME NEW k \in Pull!Chunks, Pull!handle_aio_write(k) PROVE Spared(v7')
  BY <1>0, <1>11 DEF Spared, Pull!handle_aio_write
<1>12. ASSUME \/ Pull!handle_pull_file \/ Pull!AgentOpen \/ Pull!handle_input \/ Pull!ClosedByPeer
              \/ Pull!resume \/ Pull!TransferData \/ Pull!ReadPipe
              \/ \E k \in Pull!Chunks : Pull!SecondWrite(k)
       PROVE  Spared(v7')
  <2>1. v7' = v7
    BY <1>12 DEF Pull!handle_pull_file, Pull!AgentOpen, Pull!handle_input, Pull!ClosedByPeer,
                 Pull!resume, Pull!TransferData, Pull!ReadPipe, Pull!SecondWrite
  <2> QED BY <1>2, <2>1
<1>13. Spared(v7')
  BY <1>2, <1>4, <1>5, <1>6, <1>7, <1>8, <1>9, <1>10, <1>11, <1>12 DEF Pull!Next
<1> QED BY <1>1, <1>13

----------------------------------------------------------------------------
(* Lists through a next field, read from the first item on.                *)

\* q lists what is reached from `from` along link, which ends with nil.
Follows(K, nil, q, from, link) ==
    /\ q \in Seq(K) /\ NoDup(q)
    /\ from = IF Len(q) = 0 THEN nil ELSE q[1]
    /\ \A i \in 1 .. Len(q) : link[q[i]] = IF i = Len(q) THEN nil ELSE q[i + 1]

\* The walk in k steps from the one in k - 1.
Onward(w, nil, link) ==
    IF w = <<>> \/ link[w[Len(w)]] = nil THEN w ELSE Append(w, link[w[Len(w)]])
Start(from, nil) == IF from = nil THEN <<>> ELSE <<from>>

UpTo(q, k) == IF k + 1 <= Len(q) THEN SubSeq(q, 1, k + 1) ELSE q

LEMMA UpToSteps ==
    ASSUME NEW K, NEW nil, nil \notin K, NEW q, NEW from, NEW link, Follows(K, nil, q, from, link)
    PROVE  /\ UpTo(q, 0) = Start(from, nil)
           /\ \A k \in Nat : UpTo(q, k + 1) = Onward(UpTo(q, k), nil, link)
<1>0. q \in Seq(K) /\ Len(q) \in Nat /\ (Len(q) = 0 <=> q = <<>>) /\ \A i \in 1 .. Len(q) : q[i] \in K
  BY EmptySeq, ElementOfSeq DEF Follows
<1>1. UpTo(q, 0) = Start(from, nil)
  <2>1. CASE Len(q) = 0
    BY <1>0, <2>1 DEF Follows, UpTo, Start
  <2>2. CASE Len(q) # 0
    <3>1. from = q[1] /\ from \in K /\ 0 + 1 <= Len(q) /\ 0 + 1 = 1 /\ 1 \in Nat
      BY <1>0, <2>2 DEF Follows
    <3>2. 1 \in 1 .. Len(q) + 1 /\ 2 \in 1 .. Len(q) + 1 /\ 2 - 1 = 1
      BY <1>0, <2>2
    <3>3. SubSeq(q, 1, 1) \in Seq(K) /\ Len(SubSeq(q, 1, 1)) = 1 /\ SubSeq(q, 1, 1)[1] = q[1]
      <4>1. /\ SubSeq(q, 1, 2 - 1) \in Seq(K) /\ Len(SubSeq(q, 1, 2 - 1)) = 2 - 1
            /\ \A i \in 1 .. 2 - 1 : SubSeq(q, 1, 2 - 1)[i] = q[i]
        BY <1>0, <3>2, Cut
      <4> QED BY <4>1, <3>2
    <3>4. <<from>> \in Seq(K) /\ Len(<<from>>) = 1 /\ <<from>>[1] = from
      BY <3>1
    <3>5. SubSeq(q, 1, 1) = <<from>>
      <4> DEFINE a == SubSeq(q, 1, 1)
                 b == <<from>>
      <4>1. a \in Seq(K) /\ b \in Seq(K) /\ Len(a) = Len(b) /\ \A i \in 1 .. Len(a) : a[i] = b[i]
        <5>1. a[1] = b[1] /\ Len(a) = 1
          BY <3>1, <3>3, <3>4
        <5>2. a \in Seq(K) /\ b \in Seq(K) /\ Len(b) = 1
          BY <3>3, <3>4
        <5> HIDE DEF a, b
        <5> QED BY <5>1, <5>2
      <4> HIDE DEF a, b
      <4>2. a = b
        BY <4>1, SeqEqual
      <4> QED BY <4>2 DEF a, b
    <3> QED BY <3>1, <3>5 DEF UpTo, Start
  <2> QED BY <2>1, <2>2
<1>2. ASSUME NEW k \in Nat PROVE UpTo(q, k + 1) = Onward(UpTo(q, k), nil, link)
  <2>1. CASE k + 2 <= Len(q)
    <3> DEFINE w == SubSeq(q, 1, k + 1)
    <3>1. k + 2 \in 1 .. Len(q) + 1 /\ (k + 2) - 1 = k + 1 /\ k + 1 <= Len(q) /\ k + 1 \in 1 .. Len(q)
          /\ (k + 1) + 1 = k + 2 /\ k + 2 \in 1 .. Len(q) /\ k + 2 \in Nat /\ k + 1 # Len(q)
      BY <1>0, <2>1
    <3>2. w \in Seq(K) /\ Len(w) = k + 1 /\ \A i \in 1 .. k + 1 : w[i] = q[i]
      BY <1>0, <3>1, Cut
    <3>3. link[q[k + 1]] = q[k + 2] /\ q[k + 2] \in K
      BY <1>0, <3>1 DEF Follows
    <3>4. w # <<>>
      BY <3>1, <3>2, EmptySeq
    <3>5. SubSeq(q, 1, k + 2) = w \o <<q[k + 2]>>
      <4>1. 1 \in 1 .. Len(q) /\ k + 2 \in 1 .. Len(q)
        BY <3>1, <1>0
      <4>2. SubSeq(q, 1, k + 2) = SubSeq(q, 1, (k + 2) - 1) \o <<q[k + 2]>>
        BY <1>0, <4>1, SubSeqRecursiveSecond
      <4> QED BY <4>2, <3>1
    <3>6. SubSeq(q, 1, k + 2) = Append(w, q[k + 2])
      BY <3>2, <3>3, <3>5, AppendIsConcat
    <3>7. UpTo(q, k) = w /\ UpTo(q, k + 1) = SubSeq(q, 1, k + 2)
      BY <3>1, <2>1 DEF UpTo
    <3>8. link[w[Len(w)]] = q[k + 2]
      BY <3>1, <3>2, <3>3
    <3>9. q[k + 2] # nil
      BY <3>3
    <3> HIDE DEF w
    <3> QED BY <3>4, <3>6, <3>7, <3>8, <3>9 DEF Onward
  <2>2. CASE ~(k + 2 <= Len(q))
    <3>1. UpTo(q, k + 1) = q
      BY <1>0, <2>2 DEF UpTo
    <3>2. UpTo(q, k) = q
      <4>1. CASE k + 1 = Len(q)
        BY <1>0, <4>1, SubSeqFull DEF UpTo
      <4>2. CASE k + 1 # Len(q)
        <5>1. ~(k + 1 <= Len(q))
          BY <1>0, <2>2, <4>2
        <5> QED BY <5>1 DEF UpTo
      <4> QED BY <4>1, <4>2
    <3>3. Len(q) # 0 => link[q[Len(q)]] = nil
      BY <1>0 DEF Follows
    <3> QED BY <1>0, <3>1, <3>2, <3>3 DEF Onward
  <2> QED BY <1>0, <2>1, <2>2
<1> QED BY <1>1, <1>2

\* f walks from `from` along link in N steps, enough for the list q.
Walks(f, N, K, nil, q, from, link) ==
    /\ nil \notin K /\ Follows(K, nil, q, from, link)
    /\ N \in Nat /\ Len(q) <= N + 1
    /\ f[0] = Start(from, nil) /\ \A k \in 1 .. N : f[k] = Onward(f[k - 1], nil, link)

\* Any walk of so many steps reads the list.
LEMMA WalkReads ==
    ASSUME NEW f, NEW N, NEW K, NEW nil, NEW q, NEW from, NEW link, Walks(f, N, K, nil, q, from, link)
    PROVE  f[N] = q
<1>w. /\ nil \notin K /\ Follows(K, nil, q, from, link) /\ N \in Nat /\ Len(q) <= N + 1
      /\ f[0] = Start(from, nil) /\ \A k \in 1 .. N : f[k] = Onward(f[k - 1], nil, link)
  BY DEF Walks
<1>0. q \in Seq(K) /\ Len(q) \in Nat
  BY <1>w DEF Follows
<1> DEFINE Q == {k \in Nat : k <= N => f[k] = UpTo(q, k)}
<1>1. 0 \in Q
  BY <1>w, UpToSteps
<1>2. ASSUME NEW k \in Q PROVE k + 1 \in Q
  <2>1. CASE k + 1 <= N
    <3>1. k \in Nat /\ k + 1 \in 1 .. N /\ (k + 1) - 1 = k /\ f[k] = UpTo(q, k)
      BY <1>w, <2>1
    <3>2. f[k + 1] = Onward(f[k], nil, link)
      BY <1>w, <3>1
    <3>3. UpTo(q, k + 1) = Onward(UpTo(q, k), nil, link)
      BY <1>w, <3>1, UpToSteps
    <3> QED BY <3>1, <3>2, <3>3
  <2>2. CASE ~(k + 1 <= N)
    BY <1>w, <2>2
  <2> QED BY <2>1, <2>2
<1>3. Q = Nat
  <2>1. Q \in SUBSET Nat
    OBVIOUS
  <2> HIDE DEF Q
  <2> QED BY <2>1, <1>1, <1>2, SetInduction
<1>4. f[N] = UpTo(q, N)
  BY <1>w, <1>3
<1>5. UpTo(q, N) = q
  <2>1. CASE N + 1 = Len(q)
    BY <1>w, <1>0, <2>1, SubSeqFull DEF UpTo
  <2>2. CASE N + 1 # Len(q)
    <3>1. ~(N + 1 <= Len(q))
      BY <1>w, <1>0, <2>2
    <3> QED BY <3>1 DEF UpTo
  <2> QED BY <2>1, <2>2
<1> QED BY <1>4, <1>5

----------------------------------------------------------------------------
(* cache_deque (CacheDeque): v1 and v2 are the head and the tail of the     *)
(* deque, v3 the free list, v4 size_, v5 and v6 the links, v7 what was made.*)

\* What Chain reads.
LEMMA ChainIs ==
    ASSUME NEW q, NEW from, NEW link, Follows(Nodes, Nil, q, from, link)
    PROVE  Uses!Chain(from, link) = q
<1> DEFINE C == Uses!Cardinality(Nodes)
           c == CHOOSE f : f = [k \in 0 .. C |->
                   IF k = 0 THEN (IF from = Nil THEN <<>> ELSE <<from>>)
                   ELSE IF f[k - 1] = <<>> \/ link[f[k - 1][Len(f[k - 1])]] = Nil THEN f[k - 1]
                        ELSE Append(f[k - 1], link[f[k - 1][Len(f[k - 1])]])]
           rec(f) == f = [k \in 0 .. C |-> IF k = 0 THEN Start(from, Nil) ELSE Onward(f[k - 1], Nil, link)]
           g == [k \in 0 .. C |-> UpTo(q, k)]
<1>a. C = Cardinality(Nodes)
  BY DEF Cardinality, Uses!Cardinality
<1>0. q \in Seq(Nodes) /\ NoDup(q) /\ C \in Nat /\ Nil \notin Nodes /\ Len(q) \in Nat
  BY <1>a, PartsAssumption, FS_CardinalityType DEF Follows
<1>1. Len(q) <= C
  <2>1. Cardinality(ToSet(q)) = Len(q)
    BY <1>0, OnceEach
  <2>2. ToSet(q) \subseteq Nodes
    BY <1>0 DEF ToSet
  <2> QED BY <1>a, <2>1, <2>2, PartsAssumption, FS_Subset
<1>2. Uses!Chain(from, link) = c[C]
  BY DEF Uses!Chain
<1> HIDE DEF C
<1>3. rec(g)
  <2>1. ASSUME NEW k \in 0 .. C PROVE UpTo(q, k) = IF k = 0 THEN Start(from, Nil) ELSE Onward(g[k - 1], Nil, link)
    <3>1. CASE k = 0
      BY <3>1, <1>0, UpToSteps
    <3>2. CASE k # 0
      <4>1. k - 1 \in 0 .. C /\ k - 1 \in Nat /\ (k - 1) + 1 = k
        BY <3>2, <1>0
      <4>2. UpTo(q, (k - 1) + 1) = Onward(UpTo(q, k - 1), Nil, link)
        BY <4>1, <1>0, UpToSteps
      <4> QED BY <4>1, <4>2, <3>2
    <3> QED BY <3>1, <3>2
  <2> QED BY <2>1
<1>4. rec(c)
  <2> HIDE DEF g
  <2> QED BY <1>3 DEF Start, Onward
<1> HIDE DEF c
<1>5. c[0] = Start(from, Nil) /\ \A k \in 1 .. C : c[k] = Onward(c[k - 1], Nil, link)
  BY <1>0, <1>4
<1>6. Nil \notin Nodes /\ C \in Nat /\ Len(q) <= C + 1
  BY <1>0, <1>1
<1>7. Walks(c, C, Nodes, Nil, q, from, link)
  BY <1>5, <1>6 DEF Walks
<1>8. c[C] = q
  BY <1>7, WalkReads, Zenon
<1> QED BY <1>2, <1>8

----------------------------------------------------------------------------
\* s are the items of the deque, in its order.
Linked(s, l) ==
    /\ Follows(Nodes, Nil, s, l.head, l.next)
    /\ l.tail = IF Len(s) = 0 THEN Nil ELSE s[Len(s)]
    /\ \A i \in 1 .. Len(s) : l.prev[s[i]] = IF i = 1 THEN Nil ELSE s[i - 1]
IsDeque(l) ==
    /\ l = [head |-> l.head, tail |-> l.tail, next |-> l.next, prev |-> l.prev]
    /\ l.next \in [Nodes -> Nodes \cup {Nil}] /\ l.prev \in [Nodes -> Nodes \cup {Nil}]

\* Read from the tail, it is the same list backwards.
LEMMA BackwardsToo ==
    ASSUME NEW s, NEW l, Linked(s, l)
    PROVE  Uses!Chain(l.tail, l.prev) = Uses!Reverse(s)
<1> DEFINE n == Len(s)
           r == [i \in 1 .. n |-> s[(n - i) + 1]]
<1>0. s \in Seq(Nodes) /\ n \in Nat /\ DOMAIN s = 1 .. n /\ NoDup(s) /\ \A i \in 1 .. n : s[i] \in Nodes
  BY DEF Linked, Follows
<1>1. Uses!Reverse(s) = r
  BY DEF Uses!Reverse
<1> HIDE DEF n
<1>2. \A i \in 1 .. n : (n - i) + 1 \in 1 .. n /\ (i # n => ((n - i) + 1) - 1 = (n - (i + 1)) + 1 /\ i + 1 \in 1 .. n
                                                             /\ (n - i) + 1 # 1)
  BY <1>0
<1>3. r \in [1 .. n -> Nodes]
  BY <1>0, <1>2
<1>4. r \in Seq(Nodes) /\ Len(r) = n /\ DOMAIN r = 1 .. n
  BY <1>0, <1>3
<1>5. \A i \in 1 .. n : r[i] = s[(n - i) + 1]
  OBVIOUS
<1> HIDE DEF r
<1>6. NoDup(r)
  <2>1. ASSUME NEW i \in 1 .. n, NEW j \in 1 .. n, r[i] = r[j] PROVE i = j
    <3>1. (n - i) + 1 = (n - j) + 1
      BY <1>0, <1>2, <1>5, <2>1 DEF NoDup
    <3> QED BY <1>0, <3>1
  <2> QED BY <1>4, <2>1 DEF NoDup
<1>7. l.tail = IF Len(r) = 0 THEN Nil ELSE r[1]
  <2>1. n # 0 => 1 \in 1 .. n /\ (n - 1) + 1 = n
    BY <1>0
  <2> QED BY <1>4, <1>5, <2>1 DEF Linked, n
<1>8. ASSUME NEW i \in 1 .. Len(r) PROVE l.prev[r[i]] = IF i = Len(r) THEN Nil ELSE r[i + 1]
  <2>1. i \in 1 .. n /\ r[i] = s[(n - i) + 1] /\ (n - i) + 1 \in 1 .. n
    BY <1>2, <1>4, <1>5
  <2>2. l.prev[r[i]] = IF (n - i) + 1 = 1 THEN Nil ELSE s[((n - i) + 1) - 1]
    BY <2>1 DEF Linked, n
  <2>3. CASE i = n
    BY <1>0, <1>4, <2>2, <2>3
  <2>4. CASE i # n
    <3>1. ((n - i) + 1) - 1 = (n - (i + 1)) + 1 /\ i + 1 \in 1 .. n /\ (n - i) + 1 # 1
      BY <1>2, <2>1, <2>4
    <3> QED BY <1>4, <1>5, <2>2, <2>4, <3>1
  <2> QED BY <2>3, <2>4
<1>9. Follows(Nodes, Nil, r, l.tail, l.prev)
  BY <1>4, <1>6, <1>7, <1>8 DEF Follows
<1> QED BY <1>1, <1>9, ChainIs DEF n, r

\* remove_i cuts the item out, whatever its place.
LEMMA RemoveCuts ==
    ASSUME NEW s, NEW l, Linked(s, l), IsDeque(l), NEW k \in 1 .. Len(s)
    PROVE  /\ Linked(RemoveAt(s, k), Uses!remove_i(l, s[k])) /\ IsDeque(Uses!remove_i(l, s[k]))
           /\ \A x \in Nodes : x \notin ToSet(s) => Uses!remove_i(l, s[k]).next[x] = l.next[x]
<1> DEFINE n == Len(s)
           e == s[k]
           t == RemoveAt(s, k)
           m == Uses!remove_i(l, e)
<1>0. /\ s \in Seq(Nodes) /\ n \in Nat /\ DOMAIN s = 1 .. n /\ k \in 1 .. n /\ Nil \notin Nodes
      /\ \A i \in 1 .. n : s[i] \in Nodes /\ s[i] # Nil
      /\ \A i, j \in 1 .. n : s[i] = s[j] => i = j
      /\ ToSet(s) = {s[i] : i \in 1 .. n}
  BY PartsAssumption, SMTT(60) DEF Linked, Follows, NoDup, ToSet
<1>1. /\ t \in Seq(Nodes) /\ Len(t) = n - 1 /\ DOMAIN t = 1 .. n - 1
      /\ \A i \in 1 .. n - 1 : t[i] = IF i < k THEN s[i] ELSE s[i + 1]
  BY <1>0, RemovedAt
<1>2. /\ l.head = s[1] /\ l.tail = s[n]
      /\ \A i \in 1 .. n : l.next[s[i]] = IF i = n THEN Nil ELSE s[i + 1]
      /\ \A i \in 1 .. n : l.prev[s[i]] = IF i = 1 THEN Nil ELSE s[i - 1]
  <2>1. n # 0
    BY <1>0
  <2>2. l.head = s[1] /\ \A i \in 1 .. n : l.next[s[i]] = IF i = n THEN Nil ELSE s[i + 1]
    BY <2>1 DEF Linked, Follows
  <2>3. l.tail = s[n] /\ \A i \in 1 .. n : l.prev[s[i]] = IF i = 1 THEN Nil ELSE s[i - 1]
    BY <2>1 DEF Linked
  <2> QED BY <2>2, <2>3
<1>3. l.next \in [Nodes -> Nodes \cup {Nil}] /\ l.prev \in [Nodes -> Nodes \cup {Nil}]
      /\ l = [head |-> l.head, tail |-> l.tail, next |-> l.next, prev |-> l.prev]
  BY DEF IsDeque
<1>4. e \in Nodes /\ l.next[e] = (IF k = n THEN Nil ELSE s[k + 1]) /\ l.prev[e] = (IF k = 1 THEN Nil ELSE s[k - 1])
  BY <1>0, <1>2
<1> HIDE DEF n, t
<1>5. /\ m.head = IF k = 1 THEN (IF n = 1 THEN Nil ELSE s[2]) ELSE s[1]
      /\ m.tail = IF k = n THEN (IF n = 1 THEN Nil ELSE s[n - 1]) ELSE s[n]
      /\ m.next = IF k = 1 THEN l.next ELSE [l.next EXCEPT ![s[k - 1]] = IF k = n THEN Nil ELSE s[k + 1]]
      /\ m.prev = IF k = n THEN l.prev ELSE [l.prev EXCEPT ![s[k + 1]] = IF k = 1 THEN Nil ELSE s[k - 1]]
      /\ m = [head |-> m.head, tail |-> m.tail, next |-> m.next, prev |-> m.prev]
  <2>1. CASE k # 1 /\ k # n
    <3>1. l.next[e] # Nil /\ l.prev[e] # Nil /\ l.next[e] = s[k + 1] /\ l.prev[e] = s[k - 1]
      BY <1>0, <1>4, <2>1
    <3>2. m = [l EXCEPT !.next[s[k - 1]] = s[k + 1], !.prev[s[k + 1]] = s[k - 1]]
      BY <3>1 DEF Uses!remove_i
    <3> QED BY <1>2, <1>3, <2>1, <3>2
  <2>2. CASE k = 1 /\ k # n
    <3>1. l.next[e] # Nil /\ l.prev[e] = Nil /\ l.next[e] = s[2] /\ n # 1 /\ k + 1 = 2
      BY <1>0, <1>4, <2>2
    <3>2. m = [l EXCEPT !.head = s[2], !.prev[s[2]] = Nil]
      BY <3>1 DEF Uses!remove_i
    <3>3. /\ m.head = s[2] /\ m.tail = l.tail /\ m.next = l.next
          /\ m.prev = [l.prev EXCEPT ![s[2]] = Nil]
          /\ m = [head |-> m.head, tail |-> m.tail, next |-> m.next, prev |-> m.prev]
      BY <1>3, <3>2
    <3>4. m.prev = [l.prev EXCEPT ![s[k + 1]] = Nil]
      BY <3>1, <3>3
    <3> QED BY <1>2, <2>2, <3>1, <3>3, <3>4
  <2>3. CASE k # 1 /\ k = n
    <3>1. l.next[e] = Nil /\ l.prev[e] # Nil /\ l.prev[e] = s[n - 1] /\ n # 1
      BY <1>0, <1>4, <2>3
    <3>2. m = [l EXCEPT !.tail = s[n - 1], !.next[s[n - 1]] = Nil]
      BY <3>1 DEF Uses!remove_i
    <3> QED BY <1>2, <1>3, <2>3, <3>1, <3>2
  <2>4. CASE k = 1 /\ k = n
    <3>1. l.next[e] = Nil /\ l.prev[e] = Nil
      BY <1>4, <2>4
    <3>2. m = [l EXCEPT !.head = Nil, !.tail = Nil]
      BY <3>1 DEF Uses!remove_i
    <3> QED BY <1>2, <1>3, <2>4, <3>2
  <2> QED BY <2>1, <2>2, <2>3, <2>4
<1> HIDE DEF m
<1>6. IsDeque(m)
  <2>1. \A i \in 1 .. n : s[i] \in Nodes
    BY <1>0
  <2>2. /\ k # n => k + 1 \in 1 .. n
        /\ k # 1 => k - 1 \in 1 .. n
    BY <1>0
  <2> QED BY <1>3, <1>5, <2>1, <2>2 DEF IsDeque
<1>7. \A i \in 1 .. n : i # k - 1 => m.next[s[i]] = l.next[s[i]]
  BY <1>0, <1>3, <1>5
<1>8. \A i \in 1 .. n : i # k + 1 => m.prev[s[i]] = l.prev[s[i]]
  BY <1>0, <1>3, <1>5
<1>9. k # 1 => m.next[s[k - 1]] = IF k = n THEN Nil ELSE s[k + 1]
  <2>1. k # 1 => s[k - 1] \in Nodes
    BY <1>0
  <2> QED BY <1>3, <1>5, <2>1
<1>10. k # n => m.prev[s[k + 1]] = IF k = 1 THEN Nil ELSE s[k - 1]
  <2>1. k # n => s[k + 1] \in Nodes
    BY <1>0
  <2> QED BY <1>3, <1>5, <2>1
<1>11. ASSUME NEW i \in 1 .. n - 1
       PROVE  /\ m.next[t[i]] = IF i = n - 1 THEN Nil ELSE t[i + 1]
              /\ m.prev[t[i]] = IF i = 1 THEN Nil ELSE t[i - 1]
  <2>1. t[i] = (IF i < k THEN s[i] ELSE s[i + 1])
        /\ (i # n - 1 => t[i + 1] = IF i + 1 < k THEN s[i + 1] ELSE s[i + 2])
        /\ (i # 1 => t[i - 1] = IF i - 1 < k THEN s[i - 1] ELSE s[i])
    <3>1. /\ i # n - 1 => i + 1 \in 1 .. n - 1 /\ (i + 1) + 1 = i + 2
          /\ i # 1 => i - 1 \in 1 .. n - 1 /\ (i - 1) + 1 = i
      BY <1>0
    <3> QED BY <1>1, <3>1
  <2>2. CASE i < k
    <3>1. t[i] = s[i] /\ i \in 1 .. n /\ i # k + 1 /\ i # n
      BY <1>0, <2>1, <2>2
    <3>2. m.prev[t[i]] = IF i = 1 THEN Nil ELSE t[i - 1]
      BY <1>0, <1>2, <1>8, <2>1, <2>2, <3>1
    <3>3. CASE i = k - 1
      <4>1. k # 1 /\ (i = n - 1 <=> k = n) /\ ~(i + 1 < k) /\ i + 2 = k + 1
        BY <1>0, <3>3, <2>2
      <4> QED BY <1>9, <2>1, <3>1, <3>2, <3>3, <4>1
    <3>4. CASE i # k - 1
      <4>1. i + 1 < k /\ i # n - 1
        BY <1>0, <3>4, <2>2
      <4> QED BY <1>2, <1>7, <2>1, <3>1, <3>2, <3>4, <4>1
    <3> QED BY <3>3, <3>4
  <2>3. CASE ~(i < k)
    <3>1. t[i] = s[i + 1] /\ i + 1 \in 1 .. n /\ i + 1 # k - 1 /\ i + 1 # 1 /\ (i + 1 = n <=> i = n - 1) /\ (i + 1) + 1 = i + 2
          /\ (i + 1) - 1 = i /\ k # n
      BY <1>0, <2>1, <2>3
    <3>2. m.next[t[i]] = IF i = n - 1 THEN Nil ELSE t[i + 1]
      <4>1. ~(i + 1 < k)
        BY <1>0, <2>3
      <4> QED BY <1>2, <1>7, <2>1, <3>1, <4>1
    <3>3. CASE i = k
      <4>1. (i = 1 <=> k = 1) /\ i - 1 < k /\ i - 1 = k - 1
        BY <1>0, <3>3
      <4> QED BY <1>10, <2>1, <3>1, <3>2, <3>3, <4>1
    <3>4. CASE i # k
      <4>1. ~(i - 1 < k) /\ i + 1 # k + 1 /\ i # 1
        BY <1>0, <2>3, <3>4
      <4> QED BY <1>2, <1>8, <2>1, <3>1, <3>2, <4>1
    <3> QED BY <3>3, <3>4
  <2> QED BY <2>2, <2>3
<1>12. NoDup(t)
  <2>1. ASSUME NEW i \in 1 .. n - 1, NEW j \in 1 .. n - 1, t[i] = t[j] PROVE i = j
    <3>1. i \in 1 .. n /\ j \in 1 .. n /\ i + 1 \in 1 .. n /\ j + 1 \in 1 .. n
      BY <1>0
    <3> QED BY <1>0, <1>1, <2>1, <3>1
  <2> QED BY <1>1, <2>1 DEF NoDup
<1>13. /\ m.head = IF Len(t) = 0 THEN Nil ELSE t[1]
       /\ m.tail = IF Len(t) = 0 THEN Nil ELSE t[Len(t)]
  <2>1. CASE n = 1
    BY <1>0, <1>1, <1>5, <2>1
  <2>2. CASE n # 1
    <3>1. 1 \in 1 .. n - 1 /\ n - 1 \in 1 .. n - 1 /\ (1 < k <=> k # 1) /\ (n - 1 < k <=> k = n) /\ (n - 1) + 1 = n
      BY <1>0, <2>2
    <3> QED BY <1>1, <1>5, <2>2, <3>1
  <2> QED BY <2>1, <2>2
<1>14. Linked(t, m)
  <2>1. \A i \in 1 .. Len(t) : i = Len(t) <=> i = n - 1
    BY <1>1
  <2> QED BY <1>1, <1>11, <1>12, <1>13 DEF Linked, Follows
<1>15. ASSUME NEW x \in Nodes, x \notin ToSet(s) PROVE m.next[x] = l.next[x]
  <2>1. k # 1 => x # s[k - 1]
    BY <1>0, <1>15
  <2> QED BY <1>3, <1>5, <2>1
<1> QED BY <1>6, <1>14, <1>15 DEF m, t

\* insert_i puts an item that is not in the deque behind the last one.
LEMMA InsertAppends ==
    ASSUME NEW s, NEW l, Linked(s, l), IsDeque(l), NEW e \in Nodes, e \notin ToSet(s), l.next[e] = Nil
    PROVE  /\ Linked(Append(s, e), Uses!insert_i(l, e)) /\ IsDeque(Uses!insert_i(l, e))
           /\ \A x \in Nodes : x \notin ToSet(s) => Uses!insert_i(l, e).next[x] = l.next[x]
<1> DEFINE n == Len(s)
           t == Append(s, e)
           m == Uses!insert_i(l, e)
<1>0. /\ s \in Seq(Nodes) /\ n \in Nat /\ DOMAIN s = 1 .. n /\ Nil \notin Nodes /\ NoDup(s)
      /\ \A i \in 1 .. n : s[i] \in Nodes /\ s[i] # Nil /\ s[i] # e
      /\ \A i, j \in 1 .. n : s[i] = s[j] => i = j
      /\ ToSet(s) = {s[i] : i \in 1 .. n}
  BY PartsAssumption DEF Linked, Follows, NoDup, ToSet
<1>1. /\ t \in Seq(Nodes) /\ Len(t) = n + 1 /\ NoDup(t)
      /\ \A i \in 1 .. n : t[i] = s[i]
      /\ t[n + 1] = e
  BY <1>0, AppendOnce, AppendProperties
<1>2. /\ l.head = (IF n = 0 THEN Nil ELSE s[1]) /\ l.tail = (IF n = 0 THEN Nil ELSE s[n])
      /\ \A i \in 1 .. n : l.next[s[i]] = IF i = n THEN Nil ELSE s[i + 1]
      /\ \A i \in 1 .. n : l.prev[s[i]] = IF i = 1 THEN Nil ELSE s[i - 1]
  BY DEF Linked, Follows
<1>3. l.next \in [Nodes -> Nodes \cup {Nil}] /\ l.prev \in [Nodes -> Nodes \cup {Nil}]
  BY DEF IsDeque
<1> HIDE DEF n, t
<1>4. /\ m.head = (IF n = 0 THEN e ELSE s[1]) /\ m.tail = e
      /\ m.next = (IF n = 0 THEN l.next ELSE [l.next EXCEPT ![s[n]] = e])
      /\ m.prev = [l.prev EXCEPT ![e] = IF n = 0 THEN Nil ELSE s[n]]
      /\ m = [head |-> m.head, tail |-> m.tail, next |-> m.next, prev |-> m.prev]
  <2>1. (l.head = Nil <=> n = 0) /\ (l.tail = Nil <=> n = 0)
    <3>1. n # 0 => 1 \in 1 .. n /\ n \in 1 .. n
      BY <1>0
    <3> QED BY <1>0, <1>2, <3>1
  <2> QED BY <1>2, <2>1 DEF Uses!insert_i
<1> HIDE DEF m
<1>5. n # 0 => n \in 1 .. n /\ s[n] \in Nodes /\ s[n] # e
  BY <1>0
<1>6. IsDeque(m)
  BY <1>3, <1>4, <1>5 DEF IsDeque
<1>7. ASSUME NEW x \in Nodes, x \notin ToSet(s) PROVE m.next[x] = l.next[x]
  <2>1. n # 0 => x # s[n]
    BY <1>0, <1>5, <1>7
  <2> QED BY <1>3, <1>4, <2>1
<1>8. ASSUME NEW i \in 1 .. n + 1
      PROVE  /\ m.next[t[i]] = IF i = n + 1 THEN Nil ELSE t[i + 1]
             /\ m.prev[t[i]] = IF i = 1 THEN Nil ELSE t[i - 1]
  <2>1. CASE i = n + 1
    <3>1. m.next[e] = Nil
      BY <1>3, <1>4, <1>5
    <3>2. m.prev[e] = IF n = 0 THEN Nil ELSE s[n]
      BY <1>3, <1>4
    <3>3. t[i] = e /\ (i = 1 <=> n = 0) /\ i - 1 = n /\ (n # 0 => t[n] = s[n])
      BY <1>0, <1>1, <1>5, <2>1
    <3> QED BY <2>1, <3>1, <3>2, <3>3
  <2>2. CASE i # n + 1
    <3>1. i \in 1 .. n /\ t[i] = s[i] /\ n # 0 /\ s[i] \in Nodes /\ s[i] # e
      BY <1>0, <1>1, <2>2
    <3>2. m.prev[t[i]] = IF i = 1 THEN Nil ELSE t[i - 1]
      <4>1. m.prev[s[i]] = l.prev[s[i]]
        BY <1>3, <1>4, <3>1
      <4>2. i # 1 => i - 1 \in 1 .. n
        BY <1>0, <3>1
      <4> QED BY <1>1, <1>2, <3>1, <4>1, <4>2
    <3>3. CASE i = n
      <4>1. m.next[s[n]] = e
        BY <1>3, <1>4, <1>5, <3>1
      <4> QED BY <1>1, <2>2, <3>1, <3>2, <3>3, <4>1
    <3>4. CASE i # n
      <4>1. s[i] # s[n] /\ i + 1 \in 1 .. n
        BY <1>0, <1>5, <3>1, <3>4
      <4>2. m.next[s[i]] = l.next[s[i]]
        BY <1>3, <1>4, <3>1, <4>1
      <4> QED BY <1>1, <1>2, <2>2, <3>1, <3>2, <3>4, <4>1, <4>2
    <3> QED BY <3>3, <3>4
  <2> QED BY <2>1, <2>2
<1>9. /\ m.head = IF Len(t) = 0 THEN Nil ELSE t[1]
      /\ m.tail = IF Len(t) = 0 THEN Nil ELSE t[Len(t)]
  <2>1. Len(t) # 0 /\ (n # 0 => 1 \in 1 .. n)
    BY <1>0, <1>1
  <2> QED BY <1>1, <1>4, <2>1
<1>10. Linked(t, m)
  BY <1>1, <1>8, <1>9 DEF Linked, Follows
<1> QED BY <1>6, <1>7, <1>10 DEF m, t

\* A list stays while the links of its items do; an item goes to its front and
\* comes off it.
LEMMA FollowsOn ==
    ASSUME NEW K, NEW nil, nil \notin K, NEW q, NEW from, NEW a, NEW b,
           Follows(K, nil, q, from, a), \A x \in ToSet(q) : b[x] = a[x]
    PROVE  Follows(K, nil, q, from, b)
<1>1. \A i \in 1 .. Len(q) : q[i] \in ToSet(q)
  BY DEF Follows, ToSet
<1> QED BY <1>1 DEF Follows

LEMMA FrontPushed ==
    ASSUME NEW K, NEW nil, nil \notin K, NEW q, NEW link, NEW e \in K,
           Follows(K, nil, q, link[e], link), e \notin ToSet(q)
    PROVE  \E p : /\ Follows(K, nil, p, e, link)
                  /\ ToSet(p) = ToSet(q) \cup {e} /\ Len(p) = Len(q) + 1
<1> DEFINE u == <<e>>
           p == u \o q
           n == Len(q)
<1>1. u \in Seq(K) /\ Len(u) = 1 /\ u[1] = e /\ NoDup(u) /\ ToSet(u) = {e}
  BY DEF NoDup, ToSet
<1>2. q \in Seq(K) /\ n \in Nat /\ NoDup(q) /\ DOMAIN q = 1 .. n
  BY DEF Follows
<1> HIDE DEF u
<1>3. p \in Seq(K) /\ NoDup(p) /\ ToSet(p) = ToSet(u) \cup ToSet(q)
  BY <1>1, <1>2, JoinOnce
<1>4. Len(p) = 1 + n /\ p[1] = e /\ \A i \in 1 .. n : p[i + 1] = q[i]
  <2>1. /\ Len(p) = Len(u) + Len(q)
        /\ \A i \in 1 .. Len(u) : p[i] = u[i]
        /\ \A i \in 1 .. Len(q) : p[i + Len(u)] = q[i]
    <3>1. u \in Seq(K) /\ q \in Seq(K)
      BY <1>1, <1>2
    <3> QED BY <3>1, Joined
  <2> HIDE DEF p
  <2> QED BY <1>1, <2>1
<1> HIDE DEF p, n
<1>5. ASSUME NEW i \in 1 .. Len(p) PROVE link[p[i]] = IF i = Len(p) THEN nil ELSE p[i + 1]
  <2>1. CASE i = 1
    <3>1. (i = Len(p) <=> n = 0) /\ (n # 0 => 1 \in 1 .. n /\ p[1 + 1] = q[1])
      BY <1>2, <1>4, <2>1
    <3>2. link[e] = IF n = 0 THEN nil ELSE q[1]
      BY DEF Follows, n
    <3> QED BY <1>4, <2>1, <3>1, <3>2
  <2>2. CASE i # 1
    <3>1. i - 1 \in 1 .. n /\ (i - 1) + 1 = i /\ (i = Len(p) <=> i - 1 = n)
      BY <1>2, <1>4, <2>2
    <3>2. p[i] = q[i - 1] /\ (i # Len(p) => i \in 1 .. n /\ p[i + 1] = q[i])
      <4>1. i # Len(p) => i \in 1 .. n
        BY <1>2, <1>4, <3>1
      <4>2. p[(i - 1) + 1] = q[i - 1]
        BY <1>4, <3>1
      <4> QED BY <1>4, <3>1, <4>1, <4>2
    <3>3. link[q[i - 1]] = IF i - 1 = n THEN nil ELSE q[(i - 1) + 1]
      BY <3>1 DEF Follows, n
    <3> QED BY <3>1, <3>2, <3>3
  <2> QED BY <2>1, <2>2
<1>6. Len(p) # 0 /\ Len(p) = n + 1
  BY <1>2, <1>4
<1>7. Follows(K, nil, p, e, link)
  BY <1>3, <1>4, <1>5, <1>6 DEF Follows
<1> QED BY <1>1, <1>3, <1>6, <1>7 DEF n

LEMMA FrontPopped ==
    ASSUME NEW K, NEW nil, nil \notin K, NEW q, NEW from, NEW link,
           Follows(K, nil, q, from, link), from # nil
    PROVE  \E p : /\ Follows(K, nil, p, link[from], link)
                  /\ ToSet(p) = ToSet(q) \ {from} /\ from \in ToSet(q) /\ Len(q) = Len(p) + 1
<1> DEFINE p == SubSeq(q, 1 + 1, Len(q))
           n == Len(q)
<1>1. q \in Seq(K) /\ n \in Nat /\ NoDup(q) /\ n # 0 /\ from = q[1] /\ 1 \in 0 .. n /\ DOMAIN q = 1 .. n
  BY DEF Follows
<1>2. /\ p \in Seq(K) /\ NoDup(p) /\ ToSet(p) = ToSet(q) \ {q[i] : i \in 1 .. 1}
      /\ {q[i] : i \in 1 .. 1} \subseteq ToSet(q)
  BY <1>1, DropFirst
<1>3. {q[i] : i \in 1 .. 1} = {from}
  BY <1>1
<1>4. 1 + 1 \in 1 .. Len(q) + 1 /\ Len(q) + 1 - (1 + 1) = n - 1
  BY <1>1
<1>5. Len(p) = n - 1 /\ \A i \in 1 .. n - 1 : p[i] = q[i + 1]
  <2>1. Len(p) = Len(q) + 1 - (1 + 1) /\ \A i \in 1 .. Len(q) + 1 - (1 + 1) : p[i] = q[i + (1 + 1) - 1]
    BY <1>1, <1>4, Cut
  <2>2. \A i \in Int : i + (1 + 1) - 1 = i + 1
    OBVIOUS
  <2> QED BY <1>4, <2>1, <2>2
<1> HIDE DEF p, n
<1>6. link[from] = IF Len(p) = 0 THEN nil ELSE p[1]
  <2>1. 1 \in 1 .. n /\ (1 = n <=> n - 1 = 0) /\ (n - 1 # 0 => 1 \in 1 .. n - 1)
    BY <1>1
  <2>2. link[q[1]] = IF 1 = n THEN nil ELSE q[1 + 1]
    BY <2>1 DEF Follows, n
  <2> QED BY <1>1, <1>5, <2>1, <2>2
<1>7. ASSUME NEW i \in 1 .. Len(p) PROVE link[p[i]] = IF i = Len(p) THEN nil ELSE p[i + 1]
  <2>1. i \in 1 .. n - 1 /\ i + 1 \in 1 .. n /\ (i + 1 = n <=> i = Len(p)) /\ (i # Len(p) => i + 1 \in 1 .. n - 1)
    BY <1>1, <1>5
  <2>2. link[q[i + 1]] = IF i + 1 = n THEN nil ELSE q[(i + 1) + 1]
    BY <2>1 DEF Follows, n
  <2> QED BY <1>5, <2>1, <2>2
<1>8. Follows(K, nil, p, link[from], link)
  BY <1>2, <1>6, <1>7 DEF Follows
<1>9. Len(p) + 1 = n
  BY <1>1, <1>5
<1> QED BY <1>2, <1>3, <1>8, <1>9 DEF n

\* The deque lists s and the free list f.
InDeque(s, f) ==
    /\ IsDeque(Uses!List) /\ Linked(s, Uses!List) /\ Follows(Nodes, Nil, f, v3, v5)
    /\ ToSet(s) \cap ToSet(f) = {} /\ ToSet(s) \cup ToSet(f) = v7
    /\ v4 = Len(s)
DequeInv == \E s, f : InDeque(s, f)

LEMMA DequeRead ==
    ASSUME NEW s, NEW f, InDeque(s, f)
    PROVE  Uses!Order = s /\ Uses!LinkedBothWays
<1>1. Uses!List.head = v1 /\ Uses!List.tail = v2 /\ Uses!List.next = v5 /\ Uses!List.prev = v6
  BY DEF Uses!List
<1>2. Uses!Order = s
  BY <1>1, ChainIs DEF Uses!Order, InDeque, Linked
<1>3. Uses!Chain(v2, v6) = Uses!Reverse(s)
  BY <1>1, BackwardsToo DEF InDeque
<1>4. Uses!Chain(v3, v5) = f
  BY ChainIs DEF InDeque
<1>5. \A q : Uses!ToSet(q) = ToSet(q)
  BY DEF Uses!ToSet, ToSet
<1> QED BY <1>2, <1>3, <1>4, <1>5 DEF Uses!LinkedBothWays, InDeque

LEMMA DequeStart == Uses!Init => DequeInv
<1> SUFFICES ASSUME Uses!Init PROVE InDeque(<<>>, <<>>)
  BY DEF DequeInv
<1>1. /\ <<>> \in Seq(Nodes) /\ Len(<<>>) = 0 /\ NoDup(<<>>) /\ ToSet(<<>>) = {}
  BY DEF NoDup, ToSet
<1>2. \A i \in 1 .. Len(<<>>) : FALSE
  BY <1>1
<1> DEFINE e == <<>>
<1> HIDE DEF e
<1>3. e \in Seq(Nodes) /\ Len(e) = 0 /\ NoDup(e) /\ ToSet(e) = {} /\ \A i \in 1 .. Len(e) : FALSE
  BY <1>1, <1>2 DEF e
<1>4. /\ v1 = Nil /\ v2 = Nil /\ v3 = Nil /\ v4 = 0 /\ v5 = [i \in Nodes |-> Nil] /\ v6 = [i \in Nodes |-> Nil]
      /\ v7 = {}
  BY DEF Uses!Init
<1>5. IsDeque(Uses!List)
  BY <1>4 DEF IsDeque, Uses!List
<1>6. Follows(Nodes, Nil, e, v1, v5) /\ Follows(Nodes, Nil, e, v3, v5)
  BY <1>3, <1>4 DEF Follows
<1>7. Linked(e, Uses!List)
  BY <1>3, <1>4, <1>6 DEF Linked, Uses!List
<1>8. InDeque(e, e)
  BY <1>3, <1>4, <1>5, <1>6, <1>7 DEF InDeque
<1> QED BY <1>8 DEF e

\* An item is taken out of the deque at its place.
LEMMA FirstIs ==
    ASSUME NEW s \in Seq(Nodes), NoDup(s), NEW e, Uses!Contains(s, e)
    PROVE  /\ e \in ToSet(s) /\ Uses!RemoveFirst(s, e) = RemoveFirst(s, e)
           /\ \E k \in 1 .. Len(s) : s[k] = e /\ RemoveFirst(s, e) = RemoveAt(s, k)
<1>1. e \in ToSet(s)
  BY DEF Uses!Contains, ToSet
<1>2. Uses!RemoveFirst(s, e) = RemoveFirst(s, e)
  BY DEF Uses!RemoveFirst, RemoveFirst, Uses!RemoveAt, RemoveAt, Uses!SelectInSeq, SelectInSeq, Uses!Min, Min
<1> QED BY <1>1, <1>2, RemoveFirstShrinks

\* What Becomes makes of the list.
LEMMA BecomesIs ==
    ASSUME NEW l, IsDeque(l), Uses!Becomes(l)
    PROVE  Uses!List' = l /\ v5' = l.next
<1>1. v1' = l.head /\ v2' = l.tail /\ v5' = l.next /\ v6' = l.prev
  BY DEF Uses!Becomes
<1>2. Uses!List' = [head |-> v1', tail |-> v2', next |-> v5', prev |-> v6']
  BY DEF Uses!List
<1> QED BY <1>1, <1>2 DEF IsDeque

\* An item whose links are reset.
LEMMA ResetIs ==
    ASSUME NEW l, IsDeque(l), NEW i \in Nodes
    PROVE  LET c == [l EXCEPT !.next[i] = Nil, !.prev[i] = Nil]
           IN  /\ IsDeque(c) /\ c.head = l.head /\ c.tail = l.tail /\ c.next[i] = Nil
               /\ \A x \in Nodes : x # i => c.next[x] = l.next[x] /\ c.prev[x] = l.prev[x]
<1> DEFINE c == [l EXCEPT !.next[i] = Nil, !.prev[i] = Nil]
<1>1. PICK h, t, n, p : l = [head |-> h, tail |-> t, next |-> n, prev |-> p]
  BY DEF IsDeque
<1>2. c = [head |-> h, tail |-> t, next |-> [n EXCEPT ![i] = Nil], prev |-> [p EXCEPT ![i] = Nil]]
  <2> DEFINE b == [l EXCEPT !.next[i] = Nil]
  <2>1. c = [b EXCEPT !.prev[i] = Nil]
    BY <1>1
  <2>2. b = [head |-> h, tail |-> t, next |-> [n EXCEPT ![i] = Nil], prev |-> p]
    BY <1>1
  <2> HIDE DEF b, c
  <2> QED BY <2>1, <2>2
<1>3. n \in [Nodes -> Nodes \cup {Nil}] /\ p \in [Nodes -> Nodes \cup {Nil}]
  BY <1>1 DEF IsDeque
<1> HIDE DEF c
<1>4. IsDeque(c)
  BY <1>2, <1>3 DEF IsDeque
<1>5. /\ c.head = l.head /\ c.tail = l.tail /\ c.next[i] = Nil
      /\ \A x \in Nodes : x # i => c.next[x] = l.next[x] /\ c.prev[x] = l.prev[x]
  BY <1>1, <1>2, <1>3
<1> QED BY <1>4, <1>5 DEF c

\* An operation moves one item and leaves a deque.
LEMMA DequeSteps ==
    ASSUME NEW s, NEW f, InDeque(s, f), NEW i \in Nodes, Uses!insert(i) \/ Uses!remove(i) \/ Uses!adjust(i)
    PROVE  \E t, g : /\ InDeque(t, g)'
                     /\ t \in {Append(s, i), Uses!RemoveFirst(s, i), Append(Uses!RemoveFirst(s, i), i)}
<1> DEFINE l == Uses!List
<1>0. /\ IsDeque(l) /\ Linked(s, l) /\ Follows(Nodes, Nil, f, v3, v5) /\ l.next = v5
      /\ ToSet(s) \cap ToSet(f) = {} /\ ToSet(s) \cup ToSet(f) = v7 /\ v4 = Len(s)
  BY DEF InDeque, Uses!List
<1>1. /\ s \in Seq(Nodes) /\ NoDup(s) /\ Len(s) \in Nat /\ f \in Seq(Nodes) /\ NoDup(f)
      /\ ToSet(s) \subseteq Nodes /\ ToSet(f) \subseteq Nodes /\ Nil \notin Nodes
      /\ v5 \in [Nodes -> Nodes \cup {Nil}]
  BY <1>0, PartsAssumption DEF Linked, Follows, ToSet, IsDeque
<1>2. l = [head |-> l.head, tail |-> l.tail, next |-> l.next, prev |-> l.prev]
      /\ l.next \in [Nodes -> Nodes \cup {Nil}] /\ l.prev \in [Nodes -> Nodes \cup {Nil}]
  BY <1>0 DEF IsDeque
<1> HIDE DEF l
<1>3. CASE Uses!insert(i)
  <2> DEFINE c == [l EXCEPT !.next[i] = Nil, !.prev[i] = Nil]
  <2>1. /\ IF v3 # Nil THEN i = v3 ELSE i \notin v7
        /\ v7' = v7 \cup {i} /\ v3' = (IF v3 = Nil THEN Nil ELSE v5[i])
        /\ Uses!Becomes(Uses!insert_i(c, i)) /\ v4' = v4 + 1
    BY <1>3 DEF Uses!insert, Uses!alloc_item, l
  <2>2. \E g : /\ Follows(Nodes, Nil, g, v3', v5) /\ i \notin ToSet(g) /\ i \notin ToSet(s)
               /\ ToSet(s) \cap ToSet(g) = {} /\ ToSet(s) \cup ToSet(g) \cup {i} = v7'
    <3>1. CASE v3 = Nil
      <4>1. Len(f) = 0 \/ f[1] \in Nodes
        <5>1. Len(f) # 0 => 1 \in 1 .. Len(f)
          BY <1>1
        <5> QED BY <1>1, <5>1, ElementOfSeq
      <4>2. v3' = v3
        BY <2>1, <3>1
      <4> QED BY <1>0, <2>1, <3>1, <4>2
    <3>2. CASE v3 # Nil
      <4>1. PICK g : /\ Follows(Nodes, Nil, g, v5[v3], v5)
                     /\ ToSet(g) = ToSet(f) \ {v3} /\ v3 \in ToSet(f) /\ Len(f) = Len(g) + 1
        BY <1>0, <1>1, <3>2, FrontPopped
      <4>2. v3 = i /\ v3' = v5[v3]
        BY <2>1, <3>2
      <4> QED BY <1>0, <2>1, <4>1, <4>2
    <3> QED BY <3>1, <3>2
  <2>3. PICK g : /\ Follows(Nodes, Nil, g, v3', v5) /\ i \notin ToSet(g) /\ i \notin ToSet(s)
                 /\ ToSet(s) \cap ToSet(g) = {} /\ ToSet(s) \cup ToSet(g) \cup {i} = v7'
    BY <2>2
  <2>4. /\ IsDeque(c) /\ c.head = l.head /\ c.tail = l.tail /\ c.next[i] = Nil
        /\ \A x \in Nodes : x # i => c.next[x] = l.next[x] /\ c.prev[x] = l.prev[x]
    BY <1>0, ResetIs
  <2> HIDE DEF c
  <2>5. Linked(s, c)
    <3>1. \A k \in 1 .. Len(s) : s[k] \in Nodes /\ s[k] # i
      BY <1>1, <2>3, ElementOfSeq DEF ToSet
    <3> QED BY <1>0, <2>4, <3>1 DEF Linked, Follows
  <2> DEFINE m == Uses!insert_i(c, i)
  <2>6. /\ Linked(Append(s, i), m) /\ IsDeque(m)
        /\ \A x \in Nodes : x \notin ToSet(s) => m.next[x] = c.next[x]
    BY <2>3, <2>4, <2>5, InsertAppends
  <2>7. Uses!List' = m /\ v5' = m.next
    BY <2>1, <2>6, BecomesIs
  <2> HIDE DEF m
  <2>8. \A x \in ToSet(g) : v5'[x] = v5[x]
    <3>1. ToSet(g) \subseteq Nodes
      BY <2>3 DEF Follows, ToSet
    <3> QED BY <1>0, <2>3, <2>4, <2>6, <2>7, <3>1
  <2>9. Follows(Nodes, Nil, g, v3', v5')
    BY <1>1, <2>3, <2>8, FollowsOn
  <2>10. ToSet(Append(s, i)) = ToSet(s) \cup {i} /\ Len(Append(s, i)) = Len(s) + 1
    BY <1>1, <2>3, AppendOnce, AppendProperties
  <2>11. InDeque(Append(s, i), g)'
    BY <1>0, <2>1, <2>3, <2>6, <2>7, <2>9, <2>10 DEF InDeque
  <2> QED BY <2>11
<1>4. CASE Uses!remove(i)
  <2> DEFINE c == Uses!remove_i(l, i)
             m == [c EXCEPT !.next[i] = v3]
  <2>1. /\ Uses!Contains(s, i) /\ Uses!Becomes(m) /\ v3' = i /\ v7' = v7 /\ v4' = v4 - 1
    BY <1>4, DequeRead DEF Uses!remove, Uses!release_item, l
  <2>2. PICK k \in 1 .. Len(s) : s[k] = i /\ Uses!RemoveFirst(s, i) = RemoveAt(s, k) /\ i \in ToSet(s)
                                 /\ Uses!RemoveFirst(s, i) = RemoveFirst(s, i)
    BY <1>1, <2>1, FirstIs
  <2> DEFINE t == RemoveAt(s, k)
  <2>3. /\ Linked(t, c) /\ IsDeque(c) /\ \A x \in Nodes : x \notin ToSet(s) => c.next[x] = l.next[x]
    <3>1. /\ Linked(RemoveAt(s, k), Uses!remove_i(l, s[k])) /\ IsDeque(Uses!remove_i(l, s[k]))
          /\ \A x \in Nodes : x \notin ToSet(s) => Uses!remove_i(l, s[k]).next[x] = l.next[x]
      BY <1>0, RemoveCuts
    <3>2. s[k] = i
      BY <2>2
    <3> QED BY <3>1, <3>2
  <2>4. t \in Seq(Nodes) /\ ToSet(t) = ToSet(s) \ {i} /\ Len(t) = Len(s) - 1
    BY <1>1, <2>2, RemoveFirstOnce
  <2> HIDE DEF c, t
  <2>5. /\ IsDeque(m) /\ m.head = c.head /\ m.tail = c.tail /\ m.next[i] = v3
        /\ \A x \in Nodes : x # i => m.next[x] = c.next[x] /\ m.prev[x] = c.prev[x]
    <3>1. v3 \in Nodes \cup {Nil}
      <4>1. Len(f) # 0 => 1 \in 1 .. Len(f)
        BY <1>1
      <4> QED BY <1>0, <1>1, <4>1, ElementOfSeq DEF Follows
    <3> QED BY <2>3, <3>1 DEF IsDeque
  <2> HIDE DEF m
  <2>6. Linked(t, m)
    <3>1. \A j \in 1 .. Len(t) : t[j] \in Nodes /\ t[j] # i
      BY <2>4, ElementOfSeq DEF ToSet
    <3> QED BY <2>3, <2>5, <3>1 DEF Linked, Follows
  <2>7. Uses!List' = m /\ v5' = m.next
    BY <2>1, <2>5, BecomesIs
  <2>8. i \notin ToSet(f) /\ \A x \in ToSet(f) : v5'[x] = v5[x]
    BY <1>0, <1>1, <2>2, <2>3, <2>5, <2>7
  <2>9. Follows(Nodes, Nil, f, v3, v5')
    BY <1>0, <1>1, <2>8, FollowsOn
  <2>10. PICK g : Follows(Nodes, Nil, g, i, v5') /\ ToSet(g) = ToSet(f) \cup {i}
    <3>1. PICK w : w = v5'
      OBVIOUS
    <3>2. Follows(Nodes, Nil, f, w[i], w) /\ Nil \notin Nodes /\ i \notin ToSet(f) /\ i \in Nodes
      BY <1>1, <2>5, <2>7, <2>8, <2>9, <3>1
    <3>3. \E g : Follows(Nodes, Nil, g, i, w) /\ ToSet(g) = ToSet(f) \cup {i}
      BY <3>2, FrontPushed
    <3> QED BY <3>1, <3>3
  <2>11. InDeque(t, g)'
    BY <1>0, <1>1, <2>1, <2>2, <2>4, <2>5, <2>6, <2>7, <2>8, <2>10 DEF InDeque
  <2> QED BY <2>2, <2>11 DEF t
<1>5. CASE Uses!adjust(i)
  <2> DEFINE c == Uses!remove_i(l, i)
             d == [c EXCEPT !.next[i] = Nil]
             m == Uses!insert_i(d, i)
  <2>1. /\ Uses!Contains(s, i) /\ Uses!Becomes(m) /\ v3' = v3 /\ v7' = v7 /\ v4' = v4
    BY <1>5, DequeRead DEF Uses!adjust, l
  <2>2. PICK k \in 1 .. Len(s) : s[k] = i /\ Uses!RemoveFirst(s, i) = RemoveAt(s, k) /\ i \in ToSet(s)
                                 /\ Uses!RemoveFirst(s, i) = RemoveFirst(s, i)
    BY <1>1, <2>1, FirstIs
  <2> DEFINE t == RemoveAt(s, k)
  <2>3. /\ Linked(t, c) /\ IsDeque(c) /\ \A x \in Nodes : x \notin ToSet(s) => c.next[x] = l.next[x]
    <3>1. /\ Linked(RemoveAt(s, k), Uses!remove_i(l, s[k])) /\ IsDeque(Uses!remove_i(l, s[k]))
          /\ \A x \in Nodes : x \notin ToSet(s) => Uses!remove_i(l, s[k]).next[x] = l.next[x]
      BY <1>0, RemoveCuts
    <3>2. s[k] = i
      BY <2>2
    <3> QED BY <3>1, <3>2
  <2>4. t \in Seq(Nodes) /\ ToSet(t) = ToSet(s) \ {i} /\ Len(t) = Len(s) - 1 /\ NoDup(t)
    BY <1>1, <2>2, RemoveFirstOnce
  <2> HIDE DEF c, t
  <2>5. /\ IsDeque(d) /\ d.head = c.head /\ d.tail = c.tail /\ d.next[i] = Nil
        /\ \A x \in Nodes : x # i => d.next[x] = c.next[x] /\ d.prev[x] = c.prev[x]
    BY <2>3 DEF IsDeque
  <2> HIDE DEF d
  <2>6. Linked(t, d)
    <3>1. \A j \in 1 .. Len(t) : t[j] \in Nodes /\ t[j] # i
      BY <2>4, ElementOfSeq DEF ToSet
    <3> QED BY <2>3, <2>5, <3>1 DEF Linked, Follows
  <2>7. /\ Linked(Append(t, i), m) /\ IsDeque(m)
        /\ \A x \in Nodes : x \notin ToSet(t) => m.next[x] = d.next[x]
    BY <2>4, <2>5, <2>6, InsertAppends
  <2>8. Uses!List' = m /\ v5' = m.next
    BY <2>1, <2>7, BecomesIs
  <2> HIDE DEF m
  <2>9. \A x \in ToSet(f) : v5'[x] = v5[x]
    BY <1>0, <1>1, <2>2, <2>3, <2>4, <2>5, <2>7, <2>8
  <2>10. Follows(Nodes, Nil, f, v3', v5')
    BY <1>0, <1>1, <2>1, <2>9, FollowsOn
  <2>11. ToSet(Append(t, i)) = ToSet(s) /\ Len(Append(t, i)) = Len(s)
    <3>1. ToSet(Append(t, i)) = ToSet(t) \cup {i} /\ Len(Append(t, i)) = Len(t) + 1
      BY <2>4, AppendOnce, AppendProperties
    <3> QED BY <1>1, <2>2, <2>4, <3>1
  <2>12. InDeque(Append(t, i), f)'
    BY <1>0, <2>1, <2>7, <2>8, <2>10, <2>11 DEF InDeque
  <2> QED BY <2>2, <2>12 DEF t
<1> QED BY <1>3, <1>4, <1>5

LEMMA DequeKeeps ==
    ASSUME DequeInv, Uses!Next
    PROVE  DequeInv' /\ Uses!MovesOne
<1>1. PICK s, f : InDeque(s, f)
  BY DEF DequeInv
<1>2. PICK i \in Nodes : Uses!insert(i) \/ Uses!remove(i) \/ Uses!adjust(i)
  BY DEF Uses!Next
<1>3. PICK t, g : /\ InDeque(t, g)'
                  /\ t \in {Append(s, i), Uses!RemoveFirst(s, i), Append(Uses!RemoveFirst(s, i), i)}
  BY <1>1, <1>2, DequeSteps
<1>4. Uses!Order = s
  BY <1>1, DequeRead
<1>5. Uses!Order' = t
  <2>1. ASSUME NEW x, NEW y, InDeque(x, y)' PROVE Uses!Order' = x
    <3>1. Uses!List'.head = v1' /\ Uses!List'.next = v5'
      BY DEF Uses!List
    <3>2. Follows(Nodes, Nil, x, v1', v5')
      BY <2>1, <3>1 DEF InDeque, Linked
    <3> QED BY <3>2, ChainIs DEF Uses!Order
  <2> QED BY <1>3, <2>1
<1> QED BY <1>2, <1>3, <1>4, <1>5 DEF DequeInv, Uses!MovesOne

LEMMA DequeStays ==
    ASSUME UNCHANGED <<v1, v2, v3, v4, v5, v6, v7>>
    PROVE  (DequeInv => DequeInv')
BY DEF DequeInv, InDeque, Uses!List

LEMMA DequeShown == DequeInv => Uses!LinkedBothWays
BY DequeRead DEF DequeInv

----------------------------------------------------------------------------
(* buffer_manager (BufferManager): v1 is next_, v2 buffer_, v3 and v4 the   *)
(* two lists, v5 n_alloced_, v6 the blocks that transfers hold.             *)

Places == Nat \ {0}

\* The items of s: full and empty are the two lists, the items of out are on
\* their way from one to the other.
IsPool(s, full, empty, out) ==
    /\ s = [next |-> s.next, buf |-> s.buf, list |-> s.list, free |-> s.free]
    /\ s.next \in Seq(Nat) /\ s.buf \in Seq(Blocks \cup {0}) /\ Len(s.buf) = Len(s.next)
    /\ Follows(Places, 0, full, s.list, s.next) /\ Follows(Places, 0, empty, s.free, s.next)
    /\ ToSet(full) \cap ToSet(empty) = {} /\ ToSet(full) \cap out = {} /\ ToSet(empty) \cap out = {}
    /\ ToSet(full) \cup ToSet(empty) \cup out = 1 .. Len(s.next)

LEMMA WalkIs ==
    ASSUME NEW q, NEW s, NEW from, Follows(Places, 0, q, from, s.next), Len(q) <= MaxItems + 1
    PROVE  Pool!Walk(s, from) = q
<1> DEFINE c == CHOOSE f : f = [k \in 0 .. MaxItems |->
                   IF k = 0 THEN (IF from = 0 THEN <<>> ELSE <<from>>)
                   ELSE IF f[k - 1] = <<>> \/ s.next[f[k - 1][Len(f[k - 1])]] = 0 THEN f[k - 1]
                        ELSE Append(f[k - 1], s.next[f[k - 1][Len(f[k - 1])]])]
           rec(f) == f = [k \in 0 .. MaxItems |-> IF k = 0 THEN Start(from, 0) ELSE Onward(f[k - 1], 0, s.next)]
           g == [k \in 0 .. MaxItems |-> UpTo(q, k)]
<1>0. MaxItems \in Nat /\ 0 \notin Places
  BY PartsAssumption DEF Places
<1>2. Pool!Walk(s, from) = c[MaxItems]
  BY DEF Pool!Walk
<1>3. rec(g)
  <2>1. ASSUME NEW k \in 0 .. MaxItems PROVE UpTo(q, k) = IF k = 0 THEN Start(from, 0) ELSE Onward(g[k - 1], 0, s.next)
    <3>1. CASE k = 0
      BY <3>1, <1>0, UpToSteps
    <3>2. CASE k # 0
      <4>1. k - 1 \in 0 .. MaxItems /\ k - 1 \in Nat /\ (k - 1) + 1 = k
        BY <3>2, <1>0
      <4>2. UpTo(q, (k - 1) + 1) = Onward(UpTo(q, k - 1), 0, s.next)
        BY <4>1, <1>0, UpToSteps
      <4> QED BY <4>1, <4>2, <3>2
    <3> QED BY <3>1, <3>2
  <2> QED BY <2>1
<1>4. rec(c)
  <2> HIDE DEF g
  <2> QED BY <1>3 DEF Start, Onward
<1> HIDE DEF c
<1>5. c[0] = Start(from, 0) /\ \A k \in 1 .. MaxItems : c[k] = Onward(c[k - 1], 0, s.next)
  BY <1>0, <1>4
<1>6. Walks(c, MaxItems, Places, 0, q, from, s.next)
  BY <1>0, <1>5 DEF Walks
<1>7. c[MaxItems] = q
  BY <1>6, WalkReads, Zenon
<1> QED BY <1>2, <1>7

\* The first item of the list goes to the free ones, with its block left behind.
LEMMA HeadFreed ==
    ASSUME NEW s, NEW full, NEW empty, IsPool(s, full, empty, {}), s.list # 0, NEW t,
           t = [next |-> [s.next EXCEPT ![s.list] = s.free], buf |-> s.buf, list |-> s.next[s.list],
                free |-> s.list]
    PROVE  \E f, e : /\ IsPool(t, f, e, {}) /\ ToSet(f) = ToSet(full) \ {s.list} /\ s.list \in ToSet(full)
                     /\ Len(full) = Len(f) + 1
<1> DEFINE x == s.list
<1>0. /\ s.next \in Seq(Nat) /\ s.buf \in Seq(Blocks \cup {0}) /\ Len(s.buf) = Len(s.next)
      /\ Follows(Places, 0, full, x, s.next) /\ Follows(Places, 0, empty, s.free, s.next)
      /\ ToSet(full) \cap ToSet(empty) = {} /\ ToSet(full) \cup ToSet(empty) = 1 .. Len(s.next)
      /\ 0 \notin Places
  BY DEF IsPool, Places
<1>1. PICK f : /\ Follows(Places, 0, f, s.next[x], s.next)
               /\ ToSet(f) = ToSet(full) \ {x} /\ x \in ToSet(full) /\ Len(full) = Len(f) + 1
  BY <1>0, FrontPopped
<1>2. x \in 1 .. Len(s.next) /\ x \in Places /\ x \notin ToSet(empty) /\ s.free \in Nat
  <2>1. x \in 1 .. Len(s.next) /\ x \notin ToSet(empty)
    BY <1>0, <1>1
  <2>2. empty \in Seq(Places) /\ s.free = IF Len(empty) = 0 THEN 0 ELSE empty[1]
    BY <1>0 DEF Follows
  <2>3. Len(empty) # 0 => empty[1] \in Places
    BY <2>2, ElementOfSeq
  <2> QED BY <2>1, <2>2, <2>3 DEF Places
<1>3. PICK n : n = [s.next EXCEPT ![x] = s.free]
  OBVIOUS
<1>4. /\ n \in Seq(Nat) /\ Len(n) = Len(s.next) /\ n[x] = s.free
      /\ \A y \in 1 .. Len(s.next) : y # x => n[y] = s.next[y]
  BY <1>0, <1>2, <1>3
<1>5. Follows(Places, 0, f, s.next[x], n) /\ Follows(Places, 0, empty, n[x], n)
  <2>1. \A y \in ToSet(f) : n[y] = s.next[y]
    BY <1>0, <1>1, <1>4
  <2>2. \A y \in ToSet(empty) : n[y] = s.next[y]
    BY <1>0, <1>2, <1>4
  <2> QED BY <1>0, <1>1, <1>4, <2>1, <2>2, FollowsOn
<1>6. PICK e : Follows(Places, 0, e, x, n) /\ ToSet(e) = ToSet(empty) \cup {x}
  <2>1. 0 \notin Places /\ x \in Places /\ Follows(Places, 0, empty, n[x], n) /\ x \notin ToSet(empty)
    BY <1>0, <1>2, <1>5
  <2> HIDE DEF x
  <2>2. \E e : Follows(Places, 0, e, x, n) /\ ToSet(e) = ToSet(empty) \cup {x}
    BY <2>1, FrontPushed
  <2> QED BY <2>2
<1>7. t = [next |-> n, buf |-> s.buf, list |-> s.next[x], free |-> x]
  BY <1>3
<1>8. IsPool(t, f, e, {})
  <2>1. ToSet(f) \cap ToSet(e) = {} /\ ToSet(f) \cup ToSet(e) = 1 .. Len(n)
    BY <1>0, <1>1, <1>2, <1>4, <1>6
  <2>2. t = [next |-> t.next, buf |-> t.buf, list |-> t.list, free |-> t.free]
        /\ t.next = n /\ t.buf = s.buf /\ t.list = s.next[x] /\ t.free = x
    BY <1>7
  <2>3. n \in Seq(Nat) /\ s.buf \in Seq(Blocks \cup {0}) /\ Len(s.buf) = Len(n)
    BY <1>0, <1>4
  <2> HIDE DEF x
  <2> QED BY <1>5, <1>6, <2>1, <2>2, <2>3 DEF IsPool
<1> QED BY <1>1, <1>8

\* A fresh batch of items, when there is no free one.
LEMMA RefillIs ==
    ASSUME NEW s, NEW full, NEW empty, IsPool(s, full, empty, {})
    PROVE  \E e : /\ IsPool(Pool!Refill(s), full, e, {}) /\ Pool!Refill(s).free # 0
                  /\ Pool!Refill(s).list = s.list
                  /\ \A i \in ToSet(full) : Pool!Refill(s).buf[i] = s.buf[i]
                  /\ Len(Pool!Refill(s).next) = IF s.free # 0 THEN Len(s.next) ELSE Len(s.next) + Batch
<1>1. CASE s.free # 0
  BY <1>1 DEF Pool!Refill
<1>2. CASE s.free = 0
  <2> DEFINE m == Len(s.next)
             fresh == [i \in 1 .. Batch |-> IF i = Batch THEN 0 ELSE m + i + 1]
             none == [i \in 1 .. Batch |-> 0]
             e == [i \in 1 .. Batch |-> m + i]
             n == s.next \o fresh
             b == s.buf \o none
  <2>0. /\ s.next \in Seq(Nat) /\ s.buf \in Seq(Blocks \cup {0}) /\ Len(s.buf) = m
        /\ Follows(Places, 0, full, s.list, s.next) /\ Follows(Places, 0, empty, s.free, s.next)
        /\ ToSet(full) \cap ToSet(empty) = {} /\ ToSet(full) \cup ToSet(empty) = 1 .. m
        /\ 0 \notin Places /\ m \in Nat /\ Batch \in Nat \ {0}
        /\ s = [next |-> s.next, buf |-> s.buf, list |-> s.list, free |-> s.free]
    BY PartsAssumption DEF IsPool, Places
  <2>1. ToSet(empty) = {}
    <3>1. empty \in Seq(Places) /\ s.free = IF Len(empty) = 0 THEN 0 ELSE empty[1]
      BY <2>0 DEF Follows
    <3>2. Len(empty) = 0
      BY <1>2, <2>0, <3>1, ElementOfSeq
    <3> QED BY <3>1, <3>2 DEF ToSet
  <2>2. Pool!Refill(s) = [next |-> n, buf |-> b, list |-> s.list, free |-> m + 1]
    <3>1. Pool!Made(s) = m /\ Pool!NoBlock = 0
      BY DEF Pool!Made, Pool!NoBlock
    <3>2. PICK a, c, d, f : s = [next |-> a, buf |-> c, list |-> d, free |-> f]
      BY <2>0
    <3> HIDE DEF m, fresh, none, n, b
    <3>3. Pool!Refill(s) = [s EXCEPT !.next = s.next \o fresh, !.buf = s.buf \o none, !.free = m + 1]
      BY <1>2, <3>1, <3>2 DEF Pool!Refill, fresh, none
    <3> QED BY <3>2, <3>3 DEF n, b
  <2> HIDE DEF m
  <2>3. fresh \in Seq(Nat) /\ Len(fresh) = Batch /\ none \in Seq(Blocks \cup {0}) /\ Len(none) = Batch
        /\ e \in Seq(Places) /\ Len(e) = Batch
    <3>1. fresh \in [1 .. Batch -> Nat] /\ none \in [1 .. Batch -> Blocks \cup {0}] /\ e \in [1 .. Batch -> Places]
      BY <2>0 DEF Places
    <3>2. Batch \in Nat
      BY <2>0
    <3> HIDE DEF fresh, none, e
    <3>3. fresh \in Seq(Nat) /\ Len(fresh) = Batch
      BY <3>1, <3>2
    <3>4. none \in Seq(Blocks \cup {0}) /\ Len(none) = Batch
      BY <3>1, <3>2
    <3>5. e \in Seq(Places) /\ Len(e) = Batch
      BY <3>1, <3>2
    <3> QED BY <3>3, <3>4, <3>5
  <2>4. \A i \in 1 .. Batch : fresh[i] = (IF i = Batch THEN 0 ELSE m + i + 1) /\ e[i] = m + i
    OBVIOUS
  <2> HIDE DEF fresh, none, e
  <2>5. /\ n \in Seq(Nat) /\ Len(n) = m + Batch /\ \A i \in 1 .. m : n[i] = s.next[i]
        /\ \A i \in 1 .. Batch : n[i + m] = fresh[i]
    <3>1. s.next \in Seq(Nat) /\ fresh \in Seq(Nat)
      BY <2>0, <2>3
    <3>2. /\ n \in Seq(Nat) /\ Len(n) = Len(s.next) + Len(fresh)
          /\ \A i \in 1 .. Len(s.next) : n[i] = s.next[i]
          /\ \A i \in 1 .. Len(fresh) : n[i + Len(s.next)] = fresh[i]
      BY <3>1, Joined
    <3>3. Len(s.next) = m /\ Len(fresh) = Batch
      BY <2>3 DEF m
    <3> HIDE DEF n
    <3> QED BY <3>2, <3>3
  <2>6. b \in Seq(Blocks \cup {0}) /\ Len(b) = m + Batch /\ \A i \in 1 .. m : b[i] = s.buf[i]
    <3>1. s.buf \in Seq(Blocks \cup {0}) /\ none \in Seq(Blocks \cup {0})
      BY <2>0, <2>3
    <3>2. /\ b \in Seq(Blocks \cup {0}) /\ Len(b) = Len(s.buf) + Len(none)
          /\ \A i \in 1 .. Len(s.buf) : b[i] = s.buf[i]
      BY <3>1, Joined
    <3>3. Len(s.buf) = m /\ Len(none) = Batch
      BY <2>0, <2>3
    <3> HIDE DEF b
    <3> QED BY <3>2, <3>3
  <2> HIDE DEF n, b
  <2>7. Follows(Places, 0, full, s.list, n)
    <3>1. \A x \in ToSet(full) : n[x] = s.next[x]
      BY <2>0, <2>5
    <3> QED BY <2>0, <3>1, FollowsOn
  <2>8. Follows(Places, 0, e, m + 1, n) /\ DOMAIN e = 1 .. Batch
    <3>0. m \in Nat /\ Batch \in Nat /\ Batch >= 1 /\ Len(e) = Batch
      BY <2>0, <2>3
    <3>1. NoDup(e)
      BY <2>0, <2>3, <2>4 DEF NoDup
    <3>2. Len(e) # 0 /\ 1 \in 1 .. Batch /\ e[1] = m + 1
      BY <2>4, <3>0
    <3>3. ASSUME NEW i \in 1 .. Len(e) PROVE n[e[i]] = IF i = Len(e) THEN 0 ELSE e[i + 1]
      <4>1. i \in 1 .. Batch /\ (i # Batch => i + 1 \in 1 .. Batch)
        BY <3>0
      <4>3. e[i] = i + m /\ n[i + m] = fresh[i]
        <5>1. e[i] = m + i /\ n[i + m] = fresh[i]
          BY <2>4, <2>5, <4>1
        <5>2. m + i = i + m
          BY <3>0, <4>1
        <5> QED BY <5>1, <5>2
      <4>2. i # Batch => e[i + 1] = m + i + 1
        BY <2>0, <2>4, <4>1
      <4> QED BY <2>4, <3>0, <4>1, <4>2, <4>3
    <3> QED BY <2>3, <3>1, <3>2, <3>3 DEF Follows
  <2>9. ToSet(e) = (m + 1) .. (m + Batch)
    <3>1. ToSet(e) = {e[i] : i \in 1 .. Batch}
      BY <2>8 DEF ToSet
    <3>2. ASSUME NEW x \in (m + 1) .. (m + Batch) PROVE x \in ToSet(e)
      <4>1. x - m \in 1 .. Batch /\ e[x - m] = m + (x - m) /\ m + (x - m) = x
        BY <2>0, <2>4
      <4> QED BY <3>1, <4>1
    <3>3. ASSUME NEW i \in 1 .. Batch PROVE e[i] \in (m + 1) .. (m + Batch)
      BY <2>0, <2>4
    <3> QED BY <3>1, <3>2, <3>3
  <2>10. ToSet(full) \cap ToSet(e) = {} /\ ToSet(full) \cup ToSet(e) = 1 .. (m + Batch)
    <3>1. ToSet(full) = 1 .. m
      BY <2>0, <2>1
    <3> QED BY <2>0, <2>9, <3>1
  <2> DEFINE r == Pool!Refill(s)
  <2>11. r.next = n /\ r.buf = b /\ r.list = s.list /\ r.free = m + 1
         /\ r = [next |-> r.next, buf |-> r.buf, list |-> r.list, free |-> r.free]
    BY <2>2
  <2> HIDE DEF r
  <2>12. IsPool(r, full, e, {})
    BY <2>5, <2>6, <2>7, <2>8, <2>10, <2>11 DEF IsPool
  <2>13. r.free # 0
    BY <2>0, <2>11
  <2>14. \A i \in ToSet(full) : r.buf[i] = s.buf[i]
    BY <2>0, <2>1, <2>6, <2>11
  <2>15. Len(r.next) = IF s.free # 0 THEN Len(s.next) ELSE Len(s.next) + Batch
    BY <1>2, <2>5, <2>11 DEF m
  <2> QED BY <2>11, <2>12, <2>13, <2>14, <2>15 DEF r
<1> QED BY <1>1, <1>2

\* The first free item is taken.
LEMMA ItemTaken ==
    ASSUME NEW s, NEW full, NEW empty, IsPool(s, full, empty, {}), s.free # 0, NEW t,
           t = [next |-> [s.next EXCEPT ![s.free] = 0], buf |-> s.buf, list |-> s.list,
                free |-> s.next[s.free]]
    PROVE  \E e : IsPool(t, full, e, {s.free}) /\ s.free \in 1 .. Len(s.next)
<1> DEFINE x == s.free
<1>0. /\ s.next \in Seq(Nat) /\ s.buf \in Seq(Blocks \cup {0}) /\ Len(s.buf) = Len(s.next)
      /\ Follows(Places, 0, full, s.list, s.next) /\ Follows(Places, 0, empty, x, s.next)
      /\ ToSet(full) \cap ToSet(empty) = {} /\ ToSet(full) \cup ToSet(empty) = 1 .. Len(s.next)
      /\ 0 \notin Places
  BY DEF IsPool, Places
<1>1. PICK e : /\ Follows(Places, 0, e, s.next[x], s.next)
               /\ ToSet(e) = ToSet(empty) \ {x} /\ x \in ToSet(empty) /\ Len(empty) = Len(e) + 1
  BY <1>0, FrontPopped
<1>2. x \in 1 .. Len(s.next) /\ x \notin ToSet(full)
  BY <1>0, <1>1
<1>3. PICK n : n = [s.next EXCEPT ![x] = 0]
  OBVIOUS
<1>4. /\ n \in Seq(Nat) /\ Len(n) = Len(s.next)
      /\ \A y \in 1 .. Len(s.next) : y # x => n[y] = s.next[y]
  BY <1>0, <1>2, <1>3
<1>5. Follows(Places, 0, e, s.next[x], n) /\ Follows(Places, 0, full, s.list, n)
  <2>1. \A y \in ToSet(e) : n[y] = s.next[y]
    BY <1>0, <1>1, <1>4
  <2>2. \A y \in ToSet(full) : n[y] = s.next[y]
    BY <1>0, <1>2, <1>4
  <2> QED BY <1>0, <1>1, <2>1, <2>2, FollowsOn
<1>6. IsPool(t, full, e, {x})
  <2>1. /\ ToSet(full) \cap ToSet(e) = {} /\ ToSet(full) \cap {x} = {} /\ ToSet(e) \cap {x} = {}
        /\ ToSet(full) \cup ToSet(e) \cup {x} = 1 .. Len(n)
    BY <1>0, <1>1, <1>2, <1>4
  <2>2. t = [next |-> t.next, buf |-> t.buf, list |-> t.list, free |-> t.free]
        /\ t.next = n /\ t.buf = s.buf /\ t.list = s.list /\ t.free = s.next[x]
    BY <1>3
  <2>3. n \in Seq(Nat) /\ s.buf \in Seq(Blocks \cup {0}) /\ Len(s.buf) = Len(n)
    BY <1>0, <1>4
  <2> HIDE DEF x
  <2> QED BY <1>5, <2>1, <2>2, <2>3 DEF IsPool
<1> QED BY <1>2, <1>6

\* t is s with the item x in front of the list, whatever its block.
Listed(t, s, x) ==
    /\ t = [next |-> t.next, buf |-> t.buf, list |-> t.list, free |-> t.free]
    /\ t.next \in Seq(Nat) /\ Len(t.next) = Len(s.next) /\ t.next[x] = s.list
    /\ \A y \in 1 .. Len(s.next) : y # x => t.next[y] = s.next[y]
    /\ t.buf \in Seq(Blocks \cup {0}) /\ Len(t.buf) = Len(s.next)
    /\ t.list = x /\ t.free = s.free

\* An item that was taken joins the list.
LEMMA ItemListed ==
    ASSUME NEW s, NEW full, NEW empty, NEW x, IsPool(s, full, empty, {x}), NEW t, Listed(t, s, x)
    PROVE  \E f : IsPool(t, f, empty, {}) /\ ToSet(f) = ToSet(full) \cup {x} /\ x \notin ToSet(full)
<1>0. /\ Follows(Places, 0, full, s.list, s.next) /\ Follows(Places, 0, empty, s.free, s.next)
      /\ ToSet(full) \cap ToSet(empty) = {} /\ x \notin ToSet(full) /\ x \notin ToSet(empty)
      /\ ToSet(full) \cup ToSet(empty) \cup {x} = 1 .. Len(s.next) /\ 0 \notin Places
  BY DEF IsPool, Places
<1>1. x \in Places
  BY <1>0 DEF Places
<1>2. PICK n : n = t.next
  OBVIOUS
<1>3. Follows(Places, 0, full, n[x], n) /\ Follows(Places, 0, empty, t.free, n)
  <2>1. \A y \in ToSet(full) \cup ToSet(empty) : n[y] = s.next[y]
    BY <1>0, <1>2 DEF Listed
  <2>2. n[x] = s.list /\ t.free = s.free
    BY <1>2 DEF Listed
  <2> QED BY <1>0, <2>1, <2>2, FollowsOn
<1>4. PICK f : Follows(Places, 0, f, x, n) /\ ToSet(f) = ToSet(full) \cup {x}
  <2>1. 0 \notin Places /\ x \in Places /\ Follows(Places, 0, full, n[x], n) /\ x \notin ToSet(full)
    BY <1>0, <1>1, <1>3
  <2> QED BY <2>1, FrontPushed
<1>5. ToSet(f) \cap ToSet(empty) = {} /\ ToSet(f) \cup ToSet(empty) = 1 .. Len(n)
  BY <1>0, <1>2, <1>4 DEF Listed
<1>6. IsPool(t, f, empty, {})
  BY <1>2, <1>3, <1>4, <1>5 DEF IsPool, Listed
<1> QED BY <1>0, <1>4, <1>6

\* What the helpers make of the lists, field by field.
LEMMA PoolHelpers ==
    ASSUME NEW s, s = [next |-> s.next, buf |-> s.buf, list |-> s.list, free |-> s.free], s.next \in Seq(Nat)
    PROVE  LET freed == [next |-> [s.next EXCEPT ![s.list] = s.free], buf |-> s.buf,
                         list |-> s.next[s.list], free |-> s.list]
           IN  Pool!TakeHead(s) = freed /\ Pool!Flushed(s) = freed
<1>1. PICK n, u, l, f : s = [next |-> n, buf |-> u, list |-> l, free |-> f] /\ n \in Seq(Nat)
  OBVIOUS
<1> DEFINE freed == [next |-> [n EXCEPT ![l] = f], buf |-> u, list |-> n[l], free |-> l]
<1>2. PICK m, z : m = [n EXCEPT ![l] = f] /\ z = [n EXCEPT ![l] = 0]
  OBVIOUS
<1>3. m = [z EXCEPT ![l] = f]
  BY <1>1, <1>2
<1>4. freed = [next |-> m, buf |-> u, list |-> n[l], free |-> l]
  BY <1>2
<1> HIDE DEF freed
<1>5. Pool!Flushed(s) = freed
  <2>1. [s EXCEPT !.next[l] = f] = [s EXCEPT !.next = m]
    BY <1>1, <1>2
  <2>2. [s EXCEPT !.next = m] = [next |-> m, buf |-> u, list |-> l, free |-> f]
    BY <1>1
  <2>3. Pool!free_item(s, l) = [[s EXCEPT !.next[l] = f] EXCEPT !.free = l]
    BY <1>1 DEF Pool!free_item
  <2>4. Pool!free_item(s, l) = [next |-> m, buf |-> u, list |-> l, free |-> l]
    BY <2>1, <2>2, <2>3
  <2>5. Pool!Flushed(s) = [Pool!free_item(s, l) EXCEPT !.list = n[l]]
    BY <1>1 DEF Pool!Flushed
  <2> QED BY <1>4, <2>4, <2>5
<1>6. Pool!TakeHead(s) = freed
  <2> DEFINE b == [s EXCEPT !.list = n[l]]
             c == [s EXCEPT !.list = n[l], !.next[l] = 0]
  <2>1. b = [next |-> n, buf |-> u, list |-> n[l], free |-> f]
    BY <1>1
  <2>2. c = [b EXCEPT !.next[l] = 0]
    BY <1>1
  <2>3. Pool!TakeHead(s) = Pool!free_item(c, l)
    BY <1>1 DEF Pool!TakeHead
  <2> HIDE DEF b, c
  <2>4. [b EXCEPT !.next[l] = 0] = [b EXCEPT !.next = z]
    BY <1>2, <2>1
  <2>5. c = [next |-> z, buf |-> u, list |-> n[l], free |-> f]
    BY <2>1, <2>2, <2>4
  <2>6. Pool!free_item(c, l) = [[c EXCEPT !.next[l] = f] EXCEPT !.free = l]
    BY <2>5 DEF Pool!free_item
  <2>7. [c EXCEPT !.next[l] = f] = [c EXCEPT !.next = m]
    BY <1>3, <2>5
  <2>8. [c EXCEPT !.next = m] = [next |-> m, buf |-> u, list |-> n[l], free |-> f]
    BY <2>5
  <2> QED BY <1>4, <2>3, <2>6, <2>7, <2>8
<1> QED BY <1>1, <1>5, <1>6 DEF freed

\* The blocks on the list are distinct, and nobody holds one of them.
Apart(s, full, blocks) ==
    \A i \in ToSet(full) :
       /\ s.buf[i] \notin blocks
       /\ \A j \in ToSet(full) : s.buf[i] = s.buf[j] => i = j

InPool(full, empty) ==
    /\ IsPool(Pool!Lists, full, empty, {}) /\ Apart(Pool!Lists, full, v6)
    /\ Len(v1) <= MaxItems
    /\ IsFiniteSet(v6) /\ v6 \subseteq Blocks \cup {0} /\ v5 = Cardinality(v6)
PoolInv == \E full, empty : InPool(full, empty)

\* An item is taken, with a fresh batch where there is no free one.
LEMMA ItemAlloced ==
    ASSUME NEW s, NEW full, NEW empty, IsPool(s, full, empty, {})
    PROVE  LET a == Pool!alloc_item(s)
           IN  \E e : /\ IsPool(a.lists, full, e, {a.item}) /\ a.lists.list = s.list
                      /\ a.lists.next[a.item] = 0 /\ a.item \in 1 .. Len(a.lists.next)
                      /\ \A i \in ToSet(full) : a.lists.buf[i] = s.buf[i]
                      /\ Len(a.lists.next) = IF s.free # 0 THEN Len(s.next) ELSE Len(s.next) + Batch
<1> DEFINE r == Pool!Refill(s)
           a == Pool!alloc_item(s)
           t == [next |-> [r.next EXCEPT ![r.free] = 0], buf |-> r.buf, list |-> r.list, free |-> r.next[r.free]]
<1>1. PICK g : /\ IsPool(r, full, g, {}) /\ r.free # 0 /\ r.list = s.list
               /\ \A i \in ToSet(full) : r.buf[i] = s.buf[i]
               /\ Len(r.next) = IF s.free # 0 THEN Len(s.next) ELSE Len(s.next) + Batch
  BY RefillIs
<1> HIDE DEF r
<1>2. a.item = r.free /\ a.lists = t
  <2>1. a = [item |-> r.free, lists |-> [r EXCEPT !.free = r.next[r.free], !.next[r.free] = 0]]
    BY DEF Pool!alloc_item, r
  <2>2. [r EXCEPT !.free = r.next[r.free], !.next[r.free] = 0] = t
    <3>1. PICK n, u, l, f : r = [next |-> n, buf |-> u, list |-> l, free |-> f]
      BY <1>1 DEF IsPool
    <3>2. PICK z : z = [n EXCEPT ![f] = 0]
      OBVIOUS
    <3> DEFINE c == [r EXCEPT !.free = n[f]]
    <3>3. c = [next |-> n, buf |-> u, list |-> l, free |-> n[f]]
      BY <3>1
    <3>4. [r EXCEPT !.free = r.next[r.free], !.next[r.free] = 0] = [c EXCEPT !.next[f] = 0]
      BY <3>1
    <3> HIDE DEF c
    <3>5. [c EXCEPT !.next[f] = 0] = [c EXCEPT !.next = z]
      BY <3>2, <3>3
    <3>6. [c EXCEPT !.next = z] = [next |-> z, buf |-> u, list |-> l, free |-> n[f]]
      BY <3>3
    <3>7. t = [next |-> z, buf |-> u, list |-> l, free |-> n[f]]
      BY <3>1, <3>2
    <3> HIDE DEF t
    <3> QED BY <3>4, <3>5, <3>6, <3>7
  <2> QED BY <2>1, <2>2
<1> HIDE DEF a
<1>3. PICK e : IsPool(t, full, e, {r.free}) /\ r.free \in 1 .. Len(r.next)
  BY <1>1, ItemTaken
<1>4. r.next \in Seq(Nat)
  BY <1>1 DEF IsPool
<1>5. t.next[r.free] = 0 /\ Len(t.next) = Len(r.next) /\ t.buf = r.buf /\ t.list = r.list
  BY <1>3, <1>4
<1> HIDE DEF t
<1> QED BY <1>1, <1>2, <1>3, <1>5 DEF a

\* The lists are as long as the items they hold, of which there are few enough.
LEMMA PoolLengths ==
    ASSUME NEW s, NEW full, NEW empty, IsPool(s, full, empty, {})
    PROVE  /\ Len(full) \in Nat /\ Len(empty) \in Nat /\ Len(full) + Len(empty) = Len(s.next)
           /\ full \o empty \in Seq(Places) /\ Len(full \o empty) = Len(s.next)
           /\ ToSet(full \o empty) = 1 .. Len(s.next) /\ NoDup(full)
           /\ full \in Seq(Places)
<1>1. full \in Seq(Places) /\ empty \in Seq(Places) /\ NoDup(full) /\ NoDup(empty)
      /\ ToSet(full) \cap ToSet(empty) = {} /\ ToSet(full) \cup ToSet(empty) = 1 .. Len(s.next)
      /\ Len(s.next) \in Nat
  BY DEF IsPool, Follows
<1>2. /\ full \o empty \in Seq(Places) /\ NoDup(full \o empty)
      /\ ToSet(full \o empty) = 1 .. Len(s.next)
  <2>1. /\ full \o empty \in Seq(Places) /\ NoDup(full \o empty)
        /\ ToSet(full \o empty) = ToSet(full) \cup ToSet(empty)
    BY <1>1, JoinOnce
  <2> QED BY <1>1, <2>1
<1>3. Len(full \o empty) = Len(full) + Len(empty)
  BY <1>1, Joined
<1>4. Cardinality(ToSet(full \o empty)) = Len(full \o empty)
  BY <1>2, OnceEach
<1>5. Cardinality(1 .. Len(s.next)) = Len(s.next)
  BY <1>1, FS_Interval
<1> QED BY <1>1, <1>2, <1>3, <1>4, <1>5

\* The state the lists have in an invariant state.
LEMMA PoolRead ==
    ASSUME NEW full, NEW empty, InPool(full, empty)
    PROVE  /\ Pool!Walk(Pool!Lists, v3) = full /\ Pool!Walk(Pool!Lists, v4) = empty
           /\ Pool!OnList = {v2[i] : i \in ToSet(full)}
           /\ Len(full) <= MaxItems
<1>1. /\ IsPool(Pool!Lists, full, empty, {}) /\ Len(v1) <= MaxItems /\ MaxItems \in Nat
      /\ Pool!Lists.next = v1 /\ Pool!Lists.list = v3 /\ Pool!Lists.free = v4
  BY PartsAssumption DEF InPool, Pool!Lists
<1>2. Len(full) <= MaxItems /\ Len(empty) <= MaxItems /\ Len(full) \in Nat /\ Len(empty) \in Nat
  BY <1>1, PoolLengths
<1>3. Len(full) <= MaxItems + 1 /\ Len(empty) <= MaxItems + 1
  BY <1>1, <1>2
<1>4. Pool!Walk(Pool!Lists, v3) = full /\ Pool!Walk(Pool!Lists, v4) = empty
  BY <1>1, <1>3, WalkIs DEF IsPool
<1>5. Pool!OnList = {v2[i] : i \in ToSet(full)}
  BY <1>4 DEF Pool!OnList, ToSet
<1> QED BY <1>2, <1>4, <1>5

LEMMA PoolShown ==
    ASSUME PoolInv
    PROVE  Pool!BlocksApart
<1>1. PICK full, empty : InPool(full, empty)
  BY DEF PoolInv
<1>2. /\ IsPool(Pool!Lists, full, empty, {}) /\ Pool!Lists.next = v1 /\ Pool!Lists.buf = v2
      /\ v1 \in Seq(Nat) /\ DOMAIN v1 = 1 .. Len(v1)
  BY <1>1 DEF InPool, Pool!Lists, IsPool
<1>3. /\ Len(full \o empty) = Len(v1) /\ ToSet(full \o empty) = DOMAIN v1
      /\ NoDup(full) /\ full \in Seq(Places)
  BY <1>2, PoolLengths
<1>4. Pool!OnList \cap v6 = {}
  BY <1>1, <1>2, PoolRead DEF InPool, Apart
<1>5. Cardinality(Pool!OnList) = Len(full)
  <2>1. IsFiniteSet(ToSet(full)) /\ Cardinality(ToSet(full)) = Len(full)
    BY <1>3, OnceEach
  <2> DEFINE h == [i \in ToSet(full) |-> v2[i]]
  <2>2. h \in Bijection(ToSet(full), Pool!OnList)
    <3>1. Pool!OnList = {v2[i] : i \in ToSet(full)}
      BY <1>1, PoolRead
    <3>2. \A i, j \in ToSet(full) : v2[i] = v2[j] => i = j
      BY <1>1, <1>2 DEF InPool, Apart
    <3>3. h \in [ToSet(full) -> Pool!OnList]
      BY <3>1
    <3>4. \A i, j \in ToSet(full) : h[i] = h[j] => i = j
      BY <3>2
    <3>5. \A y \in Pool!OnList : \E i \in ToSet(full) : h[i] = y
      BY <3>1
    <3> HIDE DEF h
    <3> QED BY <3>3, <3>4, <3>5 DEF Bijection, Injection, Surjection, IsInjective
  <2>3. ExistsBijection(ToSet(full), Pool!OnList)
    BY <2>2 DEF ExistsBijection
  <2> QED BY <2>1, <2>3, FS_Bijection
<1>6. v5 = Cardinality(v6)
  BY <1>1 DEF InPool
<1>7. \A S : Pool!Cardinality(S) = Cardinality(S)
  BY DEF Pool!Cardinality, Cardinality
<1>8. {(full \o empty)[k] : k \in DOMAIN (full \o empty)} = DOMAIN v1
  BY <1>3 DEF ToSet
<1> QED BY <1>1, <1>3, <1>4, <1>5, <1>6, <1>7, <1>8, PoolRead DEF Pool!BlocksApart

LEMMA PoolStart == Pool!Init => PoolInv
<1> SUFFICES ASSUME Pool!Init PROVE PoolInv
  OBVIOUS
<1>1. /\ v1 = <<>> /\ v2 = <<>> /\ v3 = 0 /\ v4 = 0 /\ v5 = 0 /\ v6 = {}
      /\ MaxItems \in Nat
  BY PartsAssumption DEF Pool!Init
<1>2. <<>> \in Seq(Places) /\ Len(<<>>) = 0 /\ NoDup(<<>>) /\ ToSet(<<>>) = {}
  BY DEF NoDup, ToSet
<1> DEFINE e == <<>>
<1>3. v1 \in Seq(Nat) /\ v2 \in Seq(Blocks \cup {0}) /\ Len(v1) = 0 /\ Len(v2) = 0
  BY <1>1, EmptySeq
<1> HIDE DEF e
<1>4. e \in Seq(Places) /\ Len(e) = 0 /\ NoDup(e) /\ ToSet(e) = {}
  BY <1>2 DEF e
<1>5. Follows(Places, 0, e, 0, v1)
  <2>1. \A i \in 1 .. Len(e) : FALSE
    BY <1>4
  <2> QED BY <1>4, <2>1 DEF Follows
<1>6. IsPool(Pool!Lists, e, e, {})
  <2>1. Pool!Lists = [next |-> v1, buf |-> v2, list |-> v3, free |-> v4]
    BY DEF Pool!Lists
  <2>2. /\ Pool!Lists.next = v1 /\ Pool!Lists.buf = v2 /\ Pool!Lists.list = 0 /\ Pool!Lists.free = 0
        /\ Pool!Lists = [next |-> Pool!Lists.next, buf |-> Pool!Lists.buf, list |-> Pool!Lists.list, free |-> Pool!Lists.free]
    BY <1>1, <2>1
  <2>3. 1 .. Len(v1) = {}
    BY <1>3
  <2> QED BY <1>3, <1>4, <1>5, <2>2, <2>3 DEF IsPool
<1>7. Apart(Pool!Lists, e, v6)
  BY <1>4 DEF Apart
<1>8. IsFiniteSet(v6) /\ Cardinality(v6) = 0 /\ v6 \subseteq Blocks \cup {0} /\ Len(v1) <= MaxItems
  BY <1>1, <1>3, FS_EmptySet
<1> QED BY <1>1, <1>6, <1>7, <1>8 DEF InPool, PoolInv

\* The lists after a step.
LEMMA PoolBecomes ==
    ASSUME NEW s, NEW full, NEW empty, IsPool(s, full, empty, {}), Pool!Becomes(s), Len(s.next) <= MaxItems,
           Apart(s, full, v6'), IsFiniteSet(v6'), v6' \subseteq Blocks \cup {0}, v5' = Cardinality(v6')
    PROVE  PoolInv'
<1>1. v1' = s.next /\ v2' = s.buf /\ v3' = s.list /\ v4' = s.free
  BY DEF Pool!Becomes
<1>2. Pool!Lists' = [next |-> v1', buf |-> v2', list |-> v3', free |-> v4']
  BY DEF Pool!Lists
<1>3. Pool!Lists' = s
  BY <1>1, <1>2 DEF IsPool
<1> QED BY <1>1, <1>3 DEF PoolInv, InPool

\* One transfer gets the first block of the list, ...
LEMMA MallocKeeps ==
    ASSUME PoolInv, Pool!malloc
    PROVE  PoolInv'
<1> DEFINE s == Pool!Lists
           t == Pool!TakeHead(s)
<1>1. PICK full, empty : InPool(full, empty)
  BY DEF PoolInv
<1>2. /\ IsPool(s, full, empty, {}) /\ Apart(s, full, v6) /\ Len(v1) <= MaxItems
      /\ IsFiniteSet(v6) /\ v6 \subseteq Blocks \cup {0} /\ v5 = Cardinality(v6)
      /\ s.next = v1 /\ s.buf = v2 /\ s.list = v3
      /\ s = [next |-> s.next, buf |-> s.buf, list |-> s.list, free |-> s.free] /\ s.next \in Seq(Nat)
      /\ s.buf \in Seq(Blocks \cup {0}) /\ Len(s.buf) = Len(s.next)
      /\ ToSet(full) \subseteq 1 .. Len(s.next)
  BY <1>1 DEF InPool, Pool!Lists, IsPool
<1>3. v3 # 0 /\ v5' = v5 + 1 /\ v6' = v6 \cup {v2[v3]} /\ Pool!Becomes(t)
  BY DEF Pool!malloc
<1> HIDE DEF s
<1>4. t = [next |-> [s.next EXCEPT ![s.list] = s.free], buf |-> s.buf, list |-> s.next[s.list], free |-> s.list]
  BY <1>2, PoolHelpers
<1>5. PICK f, e : IsPool(t, f, e, {}) /\ ToSet(f) = ToSet(full) \ {v3} /\ v3 \in ToSet(full)
  BY <1>2, <1>3, <1>4, HeadFreed
<1>6. t.buf = v2 /\ Len(t.next) = Len(v1)
  BY <1>2, <1>4
<1> HIDE DEF t
<1>7. v2[v3] \notin v6 /\ v2[v3] \in Blocks \cup {0}
  <2>1. v3 \in 1 .. Len(v2)
    BY <1>2, <1>5
  <2> QED BY <1>2, <1>5, <2>1 DEF Apart
<1>8. Apart(t, f, v6')
  BY <1>2, <1>3, <1>5, <1>6 DEF Apart
<1>9. IsFiniteSet(v6') /\ Cardinality(v6') = v5'
  BY <1>2, <1>3, <1>7, FS_AddElement
<1> QED BY <1>2, <1>3, <1>5, <1>6, <1>7, <1>8, <1>9, PoolBecomes

\* ... or one that new returns when the list is empty, ...
LEMMA MallocNewKeeps ==
    ASSUME PoolInv, NEW b \in Blocks, Pool!malloc_new(b)
    PROVE  PoolInv'
<1> DEFINE s == Pool!Lists
           a == Pool!alloc_item(s)
           u == Pool!Filled(s, b)
           t == Pool!TakeHead(u)
<1>1. PICK full, empty : InPool(full, empty)
  BY DEF PoolInv
<1>2. /\ IsPool(s, full, empty, {}) /\ Len(v1) <= MaxItems
      /\ IsFiniteSet(v6) /\ v6 \subseteq Blocks \cup {0} /\ v5 = Cardinality(v6)
      /\ s.next = v1 /\ s.buf = v2 /\ s.list = v3 /\ s.free = v4
      /\ v1 \in Seq(Nat) /\ Follows(Places, 0, full, s.list, s.next)
  BY <1>1 DEF InPool, Pool!Lists, IsPool
<1>3. /\ v3 = 0 /\ (v4 # 0 \/ Len(v1) + Batch <= MaxItems) /\ b \notin v6
      /\ v5' = v5 + 1 /\ v6' = v6 \cup {b} /\ Pool!Becomes(t)
  BY DEF Pool!malloc_new, Pool!MayAlloc
<1> HIDE DEF s
<1>4. ToSet(full) = {}
  <2>1. full \in Seq(Places) /\ s.list = IF Len(full) = 0 THEN 0 ELSE full[1]
    BY <1>2 DEF Follows
  <2>2. Len(full) = 0
    BY <1>2, <1>3, <2>1, ElementOfSeq DEF Places
  <2> QED BY <2>1, <2>2 DEF ToSet
<1>5. PICK g : /\ IsPool(a.lists, full, g, {a.item}) /\ a.lists.list = 0
               /\ a.lists.next[a.item] = 0 /\ a.item \in 1 .. Len(a.lists.next)
               /\ Len(a.lists.next) = IF v4 # 0 THEN Len(v1) ELSE Len(v1) + Batch
  BY <1>2, <1>3, ItemAlloced
<1>6. Pool!Filled(s, b) = [a.lists EXCEPT !.list = a.item, !.buf[a.item] = b]
  BY DEF Pool!Filled
<1> HIDE DEF a
<1>7. PICK l, x : l = a.lists /\ x = a.item
  OBVIOUS
<1>8. /\ l = [next |-> l.next, buf |-> l.buf, list |-> l.list, free |-> l.free]
      /\ l.next \in Seq(Nat)
  BY <1>5, <1>7 DEF IsPool
<1> PICK z : z = [l.buf EXCEPT ![x] = b]
  OBVIOUS
<1>9. u = [next |-> l.next, buf |-> z, list |-> x, free |-> l.free]
  <2>1. PICK n, w, h, f : l = [next |-> n, buf |-> w, list |-> h, free |-> f]
    BY <1>8
  <2>2. z = [w EXCEPT ![x] = b]
    BY <2>1
  <2> DEFINE c == [l EXCEPT !.list = x]
  <2>3. c = [next |-> n, buf |-> w, list |-> x, free |-> f]
    BY <2>1
  <2>4. u = [l EXCEPT !.list = x, !.buf[x] = b]
    BY <1>6, <1>7
  <2>5. [l EXCEPT !.list = x, !.buf[x] = b] = [c EXCEPT !.buf[x] = b]
    BY <2>1
  <2> HIDE DEF c
  <2>6. [c EXCEPT !.buf[x] = b] = [c EXCEPT !.buf = z]
    BY <2>2, <2>3
  <2>7. [c EXCEPT !.buf = z] = [next |-> n, buf |-> z, list |-> x, free |-> f]
    BY <2>3
  <2> QED BY <2>1, <2>4, <2>5, <2>6, <2>7
<1> HIDE DEF u
<1>10. PICK f : IsPool(u, f, g, {}) /\ ToSet(f) = {x}
  <2>1. IsPool(l, full, g, {x}) /\ l.next[x] = l.list /\ x \in 1 .. Len(l.next)
    BY <1>5, <1>7
  <2>2. l.buf \in Seq(Blocks \cup {0}) /\ Len(l.buf) = Len(l.next)
    BY <2>1 DEF IsPool
  <2>3. z \in Seq(Blocks \cup {0}) /\ Len(z) = Len(l.next)
    BY <2>1, <2>2
  <2>4. Listed(u, l, x)
    BY <1>8, <1>9, <2>1, <2>3 DEF Listed
  <2>5. \E f : IsPool(u, f, g, {}) /\ ToSet(f) = ToSet(full) \cup {x} /\ x \notin ToSet(full)
    BY <2>1, <2>4, ItemListed
  <2> QED BY <1>4, <2>5
<1>11. /\ u.list = x /\ u.next = l.next /\ u.next \in Seq(Nat)
       /\ u = [next |-> u.next, buf |-> u.buf, list |-> u.list, free |-> u.free]
  BY <1>8, <1>9
<1>12. t = [next |-> [u.next EXCEPT ![u.list] = u.free], buf |-> u.buf, list |-> u.next[u.list], free |-> u.list]
  BY <1>11, PoolHelpers
<1>13. u.list # 0
  BY <1>5, <1>7, <1>11
<1>14. PICK h, e : IsPool(t, h, e, {}) /\ ToSet(h) = ToSet(f) \ {u.list}
  BY <1>10, <1>12, <1>13, HeadFreed
<1>15. Len(t.next) = Len(l.next)
  BY <1>11, <1>12
<1>16. Apart(t, h, v6')
  BY <1>10, <1>11, <1>14 DEF Apart
<1> HIDE DEF t
<1>17. Len(t.next) <= MaxItems
  BY <1>2, <1>3, <1>5, <1>7, <1>15
<1>18. IsFiniteSet(v6') /\ Cardinality(v6') = v5' /\ v6' \subseteq Blocks \cup {0}
  BY <1>2, <1>3, FS_AddElement
<1> QED BY <1>3, <1>14, <1>16, <1>17, <1>18, PoolBecomes

\* ... and gives it back.
LEMMA FreeKeeps ==
    ASSUME PoolInv, NEW b \in Blocks, Pool!free(b)
    PROVE  PoolInv'
<1> DEFINE s == Pool!Lists
           a == Pool!alloc_item(s)
           t == [a.lists EXCEPT !.buf[a.item] = b, !.next[a.item] = a.lists.list, !.list = a.item]
<1>1. PICK full, empty : InPool(full, empty)
  BY DEF PoolInv
<1>2. /\ IsPool(s, full, empty, {}) /\ Apart(s, full, v6) /\ Len(v1) <= MaxItems
      /\ IsFiniteSet(v6) /\ v6 \subseteq Blocks \cup {0} /\ v5 = Cardinality(v6)
      /\ s.next = v1 /\ s.buf = v2 /\ s.list = v3 /\ s.free = v4 /\ v1 \in Seq(Nat)
  BY <1>1 DEF InPool, Pool!Lists, IsPool
<1>3. /\ b \in v6 /\ (v4 # 0 \/ Len(v1) + Batch <= MaxItems)
      /\ v5' = v5 - 1 /\ v6' = v6 \ {b} /\ Pool!Becomes(t)
  BY DEF Pool!free, Pool!MayAlloc
<1> HIDE DEF s
<1>5. PICK g : /\ IsPool(a.lists, full, g, {a.item})
               /\ a.item \in 1 .. Len(a.lists.next)
               /\ \A i \in ToSet(full) : a.lists.buf[i] = s.buf[i]
               /\ Len(a.lists.next) = IF v4 # 0 THEN Len(v1) ELSE Len(v1) + Batch
  BY <1>2, ItemAlloced
<1> HIDE DEF a
<1>6. PICK l, x : l = a.lists /\ x = a.item
  OBVIOUS
<1>7. /\ l = [next |-> l.next, buf |-> l.buf, list |-> l.list, free |-> l.free]
      /\ l.next \in Seq(Nat) /\ l.buf \in Seq(Blocks \cup {0}) /\ Len(l.buf) = Len(l.next)
      /\ x \in 1 .. Len(l.next) /\ x \notin ToSet(full) /\ ToSet(full) \subseteq 1 .. Len(l.next)
      /\ l.list \in Nat
  <2>1. IsPool(l, full, g, {x}) /\ x \in 1 .. Len(l.next)
    BY <1>5, <1>6
  <2>2. full \in Seq(Places) /\ l.list = IF Len(full) = 0 THEN 0 ELSE full[1]
    BY <2>1 DEF IsPool, Follows
  <2>3. l.list \in Nat
    BY <2>2, ElementOfSeq DEF Places
  <2> QED BY <2>1, <2>3 DEF IsPool
<1>8. PICK m, z : m = [l.next EXCEPT ![x] = l.list] /\ z = [l.buf EXCEPT ![x] = b]
  OBVIOUS
<1>9. t = [next |-> m, buf |-> z, list |-> x, free |-> l.free]
  <2>1. PICK n, w, h, f : l = [next |-> n, buf |-> w, list |-> h, free |-> f]
    BY <1>7
  <2>2. m = [n EXCEPT ![x] = h] /\ z = [w EXCEPT ![x] = b]
    BY <1>8, <2>1
  <2>3. t = [l EXCEPT !.buf[x] = b, !.next[x] = h, !.list = x]
    BY <1>6, <2>1
  <2> DEFINE c == [l EXCEPT !.buf = z]
             d == [c EXCEPT !.next = m]
  <2>4. t = [d EXCEPT !.list = x]
    BY <2>1, <2>2, <2>3
  <2>5. c = [next |-> n, buf |-> z, list |-> h, free |-> f]
    BY <2>1
  <2> HIDE DEF c
  <2>6. d = [next |-> m, buf |-> z, list |-> h, free |-> f]
    BY <2>5
  <2> HIDE DEF d
  <2>7. t = [next |-> m, buf |-> z, list |-> x, free |-> f]
    BY <2>4, <2>6
  <2> QED BY <2>1, <2>7
<1> HIDE DEF t
<1>10. /\ m \in Seq(Nat) /\ Len(m) = Len(l.next) /\ m[x] = l.list
       /\ \A y \in 1 .. Len(l.next) : y # x => m[y] = l.next[y]
  BY <1>7, <1>8
<1>11. /\ z[x] = b /\ \A y \in 1 .. Len(l.next) : y # x => z[y] = l.buf[y]
  BY <1>7, <1>8
<1>12. PICK f : IsPool(t, f, g, {}) /\ ToSet(f) = ToSet(full) \cup {x}
  <2>1. IsPool(l, full, g, {x})
    BY <1>5, <1>6
  <2>2. z \in Seq(Blocks \cup {0}) /\ Len(z) = Len(l.next)
    BY <1>7, <1>8
  <2>3. Listed(t, l, x)
    BY <1>9, <1>10, <2>2 DEF Listed
  <2>4. \E f : IsPool(t, f, g, {}) /\ ToSet(f) = ToSet(full) \cup {x} /\ x \notin ToSet(full)
    BY <2>1, <2>3, ItemListed
  <2> QED BY <2>4
<1>13. t.buf = z /\ Len(t.next) = Len(l.next)
  BY <1>9, <1>10
<1>14. \A i \in ToSet(full) : t.buf[i] = s.buf[i]
  <2>1. \A i \in ToSet(full) : i # x /\ i \in 1 .. Len(l.next) /\ l.buf[i] = s.buf[i]
    BY <1>5, <1>6, <1>7
  <2> QED BY <1>11, <1>13, <2>1
<1>15. Apart(t, f, v6')
  <2>1. t.buf[x] = b
    BY <1>11, <1>13
  <2>2. \A i \in ToSet(full) : s.buf[i] \notin v6 /\ s.buf[i] # b
    BY <1>2, <1>3 DEF Apart
  <2>3. \A i, j \in ToSet(full) : s.buf[i] = s.buf[j] => i = j
    BY <1>2 DEF Apart
  <2> QED BY <1>3, <1>12, <1>14, <2>1, <2>2, <2>3 DEF Apart
<1>16. Len(t.next) <= MaxItems
  BY <1>2, <1>3, <1>5, <1>6, <1>13
<1>17. IsFiniteSet(v6') /\ Cardinality(v6') = v5' /\ v6' \subseteq Blocks \cup {0}
  BY <1>2, <1>3, FS_RemoveElement
<1> QED BY <1>3, <1>12, <1>15, <1>16, <1>17, PoolBecomes

\* flush, as a function of the rounds.
IsAfter(f, s, m) == f = [k \in 0 .. m |-> IF k = 0 THEN s ELSE Pool!Flushed(f[k - 1])]

LEMMA AfterExists ==
    ASSUME NEW s
    PROVE  \A m \in Nat : \E f : IsAfter(f, s, m)
<1> DEFINE N == {m \in Nat : \E f : IsAfter(f, s, m)}
<1>1. 0 \in N
  <2> DEFINE f == [k \in 0 .. 0 |-> s]
  <2>1. IsAfter(f, s, 0)
    BY DEF IsAfter
  <2> QED BY <2>1
<1>2. ASSUME NEW m \in N PROVE m + 1 \in N
  <2>1. PICK f : IsAfter(f, s, m)
    OBVIOUS
  <2> DEFINE Val(k) == IF k = 0 THEN s ELSE Pool!Flushed(f[k - 1])
             g == [k \in 0 .. (m + 1) |-> IF k = m + 1 THEN Val(k) ELSE f[k]]
  <2>2. \A k \in 0 .. m : f[k] = Val(k)
    BY <2>1 DEF IsAfter
  <2>3. \A k \in 0 .. (m + 1) : g[k] = Val(k)
    BY <2>2
  <2>4. ASSUME NEW k \in 0 .. (m + 1), k # 0 PROVE g[k - 1] = f[k - 1]
    BY <2>4
  <2> HIDE DEF g
  <2>5. DOMAIN g = 0 .. (m + 1) /\ g = [k \in DOMAIN g |-> g[k]]
    BY DEF g
  <2>6. IsAfter(g, s, m + 1)
    BY <2>3, <2>4, <2>5 DEF IsAfter
  <2> QED BY <2>6
<1>3. N = Nat
  <2>1. N \in SUBSET Nat
    OBVIOUS
  <2> HIDE DEF N
  <2> QED BY <1>1, <1>2, <2>1, SetInduction
<1> QED BY <1>3

\* Each round takes an item off the list.
LEMMA AfterRounds ==
    ASSUME NEW s, NEW full, NEW empty, IsPool(s, full, empty, {}), NEW m \in Nat, Len(full) <= m,
           NEW f, IsAfter(f, s, m)
    PROVE  \A k \in Nat : k <= Len(full) =>
              \E g, e : /\ IsPool(f[k], g, e, {}) /\ ToSet(g) \subseteq ToSet(full) /\ Len(g) = Len(full) - k
                        /\ f[k].buf = s.buf /\ Len(f[k].next) = Len(s.next)
<1> DEFINE Good(k) == \E g, e : /\ IsPool(f[k], g, e, {}) /\ ToSet(g) \subseteq ToSet(full) /\ Len(g) = Len(full) - k
                                /\ f[k].buf = s.buf /\ Len(f[k].next) = Len(s.next)
           N == {k \in Nat : k <= Len(full) => Good(k)}
<1>0. Len(full) \in Nat /\ f[0] = s /\ \A k \in 1 .. m : f[k] = Pool!Flushed(f[k - 1])
  BY DEF IsPool, Follows, IsAfter
<1>1. 0 \in N
  <2>1. Len(full) = Len(full) - 0
    BY <1>0
  <2>2. Good(0)
    BY <1>0, <2>1
  <2> QED BY <2>2
<1>2. ASSUME NEW k \in N PROVE k + 1 \in N
  <2>1. CASE k + 1 <= Len(full)
    <3>1. k \in Nat /\ k <= Len(full) /\ k + 1 \in 1 .. m /\ (k + 1) - 1 = k
      BY <1>0, <2>1
    <3>2. PICK g, e : /\ IsPool(f[k], g, e, {}) /\ ToSet(g) \subseteq ToSet(full) /\ Len(g) = Len(full) - k
                      /\ f[k].buf = s.buf /\ Len(f[k].next) = Len(s.next)
      BY <3>1
    <3>3. PICK a : a = f[k]
      OBVIOUS
    <3>4. IsPool(a, g, e, {}) /\ f[k + 1] = Pool!Flushed(a)
      BY <1>0, <3>1, <3>2, <3>3
    <3>5. /\ a = [next |-> a.next, buf |-> a.buf, list |-> a.list, free |-> a.free] /\ a.next \in Seq(Nat)
          /\ g \in Seq(Places) /\ a.list = (IF Len(g) = 0 THEN 0 ELSE g[1]) /\ Len(g) # 0
      BY <1>0, <2>1, <3>1, <3>2, <3>4 DEF IsPool, Follows
    <3>6. a.list # 0
      BY <3>5, ElementOfSeq DEF Places
    <3>7. PICK t : t = Pool!Flushed(a)
      OBVIOUS
    <3>8. t = [next |-> [a.next EXCEPT ![a.list] = a.free], buf |-> a.buf, list |-> a.next[a.list], free |-> a.list]
      BY <3>5, <3>7, PoolHelpers
    <3>9. PICK h, d : IsPool(t, h, d, {}) /\ ToSet(h) = ToSet(g) \ {a.list} /\ Len(g) = Len(h) + 1
      BY <3>4, <3>6, <3>8, HeadFreed
    <3>10. t.buf = a.buf /\ Len(t.next) = Len(a.next)
      BY <3>5, <3>8
    <3>11. Len(h) = Len(full) - (k + 1)
      <4>1. Len(h) \in Nat
        BY <3>9 DEF IsPool, Follows
      <4>2. Len(g) = Len(full) - k /\ Len(g) = Len(h) + 1 /\ k \in Nat
        BY <3>1, <3>2, <3>9
      <4>3. Len(full) \in Nat
        BY <1>0
      <4> QED BY <4>1, <4>2, <4>3
    <3>12. Good(k + 1)
      BY <3>2, <3>3, <3>4, <3>7, <3>9, <3>10, <3>11
    <3> QED BY <3>1, <3>12
  <2>2. CASE ~(k + 1 <= Len(full))
    BY <2>2
  <2> QED BY <2>1, <2>2
<1>3. N = Nat
  <2>1. N \in SUBSET Nat
    OBVIOUS
  <2> HIDE DEF N
  <2> QED BY <1>1, <1>2, <2>1, SetInduction
<1> QED BY <1>3

LEMMA FlushKeeps ==
    ASSUME PoolInv, NEW blocks \in 0 .. 1, Pool!flush(blocks)
    PROVE  PoolInv'
<1> DEFINE s == Pool!Lists
           M == MaxItems + 1
<1>1. PICK full, empty : InPool(full, empty)
  BY DEF PoolInv
<1>2. /\ IsPool(s, full, empty, {}) /\ Apart(s, full, v6) /\ Len(v1) <= MaxItems /\ s.next = v1
      /\ IsFiniteSet(v6) /\ v6 \subseteq Blocks \cup {0} /\ v5 = Cardinality(v6)
      /\ M \in Nat /\ MaxItems \in Nat
  BY <1>1, PartsAssumption DEF InPool, Pool!Lists
<1>3. Len(full) \in Nat /\ Len(full) <= MaxItems /\ Len(full) <= M
  BY <1>1, <1>2, PoolRead, PoolLengths
<1> DEFINE n == Len(Pool!Walk(s, v3))
           rounds == IF blocks > 0 /\ blocks < n THEN blocks ELSE n
           a == CHOOSE f : f = [k \in 0 .. M |-> IF k = 0 THEN s ELSE Pool!Flushed(f[k - 1])]
<1>4. Pool!Becomes(a[rounds]) /\ v5' = v5 /\ v6' = v6
  BY DEF Pool!flush
<1>5. n = Len(full)
  BY <1>1, PoolRead
<1>6. IsAfter(a, s, M)
  <2>1. \E f : IsAfter(f, s, M)
    BY <1>2, AfterExists
  <2> QED BY <2>1 DEF IsAfter
<1>7. rounds \in Nat /\ rounds <= Len(full)
  BY <1>3, <1>5
<1> HIDE DEF a, rounds, s, M
<1>8. PICK g, e : /\ IsPool(a[rounds], g, e, {}) /\ ToSet(g) \subseteq ToSet(full)
                  /\ a[rounds].buf = s.buf /\ Len(a[rounds].next) = Len(s.next)
  BY <1>2, <1>3, <1>6, <1>7, AfterRounds
<1>9. Apart(a[rounds], g, v6')
  BY <1>2, <1>4, <1>8 DEF Apart
<1> QED BY <1>2, <1>4, <1>8, <1>9, PoolBecomes

LEMMA PoolKeeps ==
    ASSUME PoolInv, Pool!Next
    PROVE  PoolInv'
BY MallocNewKeeps, MallocKeeps, FreeKeeps, FlushKeeps DEF Pool!Next

LEMMA PoolStays ==
    ASSUME UNCHANGED <<v1, v2, v3, v4, v5, v6>>
    PROVE  (PoolInv => PoolInv')
BY DEF PoolInv, InPool, Pool!Lists

----------------------------------------------------------------------------
\* The lists of cache_deque and of buffer_manager stay lists: no item is lost
\* or in two of them, and no block has two owners.
THEOREM ListsStaySound == PartsSpec => []ListsSound
<1> DEFINE Inv == /\ part = "deque" => DequeInv
                  /\ part = "blocks" => PoolInv
<1>1. PartsInit => Inv
  <2>1. ASSUME PartsInit PROVE (part = "deque" => Uses!Init) /\ (part = "blocks" => Pool!Init)
    BY <2>1 DEF PartsInit
  <2> QED BY <2>1, DequeStart, PoolStart
<1>2. Inv /\ [PartsNext]_state => Inv'
  <2> SUFFICES ASSUME Inv, [PartsNext]_state PROVE Inv'
    OBVIOUS
  <2>1. CASE UNCHANGED state
    BY <2>1, DequeStays, PoolStays DEF state
  <2>2. CASE PartsNext
    <3>1. part' = part /\ (part = "deque" => Uses!Next) /\ (part = "blocks" => Pool!Next)
      BY <2>2 DEF PartsNext
    <3> QED BY <3>1, DequeKeeps, PoolKeeps
  <2> QED BY <2>1, <2>2
<1>3. Inv => ListsSound
  BY DequeShown, PoolShown DEF ListsSound
<1> QED BY <1>1, <1>2, <1>3, PTL DEF PartsSpec

\* The items of a deque keep their order, nothing is written to a log file that
\* has reached its limit unless writes were interrupted, and no pipe_buffer with
\* data in it is freed before the disk was tried.
THEOREM NothingIsHarmed == PartsSpec => NoStepHarms
<1> DEFINE Inv == /\ part = "deque" => DequeInv
                  /\ part = "logfile" => FileInv /\ SizeInv
                  /\ part = "pull" => PullInv
           Harmless == /\ part = "deque" => Uses!MovesOne \/ UNCHANGED Uses!vars
                       /\ part = "logfile" => File!WritesWithin
                       /\ part = "pull" => Pull!FreesTheWritten
<1>1. PartsInit => Inv
  <2>1. ASSUME PartsInit
        PROVE  /\ part = "deque" => Uses!Init
               /\ part = "logfile" => File!Init
               /\ part = "pull" => Pull!Init
    BY <2>1 DEF PartsInit
  <2>2. File!Init => SizeInv
    <3> SUFFICES ASSUME File!Init PROVE SizeInv
      OBVIOUS
    <3>1. ~v3 /\ v4 = 0
      BY DEF File!Init
    <3>2. v4 \in Int /\ v4 >= 0
      BY <3>1
    <3> QED BY <3>1, <3>2, Zenon DEF SizeInv
  <2> QED BY <2>1, <2>2, DequeStart, FileStart, PullStart
<1>2. Inv /\ [PartsNext]_state => Inv' /\ [Harmless]_state
  <2> SUFFICES ASSUME Inv, [PartsNext]_state PROVE Inv' /\ [Harmless]_state
    OBVIOUS
  <2>1. CASE UNCHANGED state
    BY <2>1, DequeStays, PullStays DEF state, FileInv, SizeInv
  <2>2. CASE PartsNext
    <3>1. /\ part' = part /\ (part = "deque" => Uses!Next)
          /\ (part = "logfile" => File!Next) /\ (part = "pull" => Pull!Next)
      BY <2>2 DEF PartsNext
    <3> QED BY <3>1, DequeKeeps, FileKeeps, SizeKeeps, PullKeeps, PullSpares
  <2> QED BY <2>1, <2>2
<1> QED BY <1>1, <1>2, PTL DEF PartsSpec, NoStepHarms
==============================================================================

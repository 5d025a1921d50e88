---------------------------- MODULE MCTimerHeap ----------------------------
(* One cancel or schedule on every ordered heap of at most MaxTimers nodes:  *)
(* a part of MCParts.                                                       *)
EXTENDS TimerQueue

VARIABLE done

NodeAt(times, h, s) == [id |-> s, handler |-> h, time |-> times[s], interval |-> 0]

\* Every ordered heap: scheduling its nodes slot by slot builds it.
HeapInit ==
    /\ \E n \in 0 .. MaxTimers, h \in Handlers :
          \E times \in [0 .. (n - 1) -> Delays] :
              /\ \A s \in 0 .. (n - 1) : times[Parent(s)] <= times[s]
              /\ timer_heap = [s \in 0 .. (n - 1) |-> NodeAt(times, h, s)]
              /\ timer_ids = [i \in 0 .. (PreAlloc - 1) |-> IF i < n THEN i ELSE -1]
              /\ min_timer_id = n
    /\ timer_heap_size = PreAlloc
    /\ now = 0 /\ upcall = None /\ aborted = FALSE
    /\ done = FALSE

Operation ==
    /\ ~done
    /\ done' = TRUE
    /\ \/ \E h \in Handlers, d \in Delays : schedule(h, d, 0)
       \/ \E id \in Live : cancel_id(id)

============================================================================

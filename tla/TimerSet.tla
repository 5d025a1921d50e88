------------------------------ MODULE TimerSet ------------------------------
(***************************************************************************)
(* What ndk::timer_queue promises its callers: a set of timers under       *)
(* distinct ids, of which the earliest one due is dispatched next.         *)
(***************************************************************************)
EXTENDS Integers

CONSTANTS max_size, Handlers, Delays, Intervals, None

VARIABLES
    timers,  \* timers[id]: the timer scheduled under id
    now,     \* the time of day
    upcall   \* the timer whose handle_timeout is running, None if none is

vars == <<timers, now, upcall>>

Ids == DOMAIN timers
Without(S) == [id \in Ids \ S |-> timers[id]]

\* The dispatched timer is its own only while it stays scheduled.
Disown(S) == IF upcall # None /\ upcall.id \in S THEN [upcall EXCEPT !.mine = FALSE] ELSE upcall

Init == timers = <<>> /\ now = 0 /\ upcall = None

Schedule(id, h, d, i) ==
    /\ UNCHANGED <<now, upcall>>
    /\ id \notin Ids
    /\ timers' = [k \in Ids \cup {id} |-> IF k = id
                                          THEN [handler |-> h, time |-> now + d, interval |-> i]
                                          ELSE timers[k]]

Cancel(S) ==
    /\ UNCHANGED now
    /\ upcall' = Disown(S)
    /\ timers' = Without(S)

ResetInterval(id, i) ==
    /\ UNCHANGED <<now, upcall>>
    /\ timers' = [timers EXCEPT ![id].interval = i]

\* An earliest timer that is due leaves the set, or moves to a later time.
Expire(id) ==
    /\ upcall = None
    /\ timers[id].time <= now
    /\ \A k \in Ids : timers[id].time <= timers[k].time
    /\ upcall' = [id |-> id, periodic |-> timers[id].interval > 0,
                  mine |-> timers[id].interval > 0]
    /\ IF timers[id].interval = 0
       THEN timers' = Without({id})
       ELSE \E n \in 1 .. (now + 1) :
               LET t == timers[id].time + n * timers[id].interval
               IN  /\ t > now /\ t - timers[id].interval <= now
                   /\ timers' = [timers EXCEPT ![id].time = t]
    /\ UNCHANGED now

\* The upcall ends; a negative result ends the timer that was dispatched.
Return ==
    /\ upcall # None
    /\ upcall' = None
    /\ timers' \in {timers, Without(IF upcall.mine THEN {upcall.id} ELSE {})}
    /\ UNCHANGED now

Tick == now' = now + 1 /\ UNCHANGED <<timers, upcall>>

Next ==
    \/ \E id \in 0 .. (max_size - 1), h \in Handlers, d \in Delays, i \in Intervals : Schedule(id, h, d, i)
    \/ \E id \in Ids : Cancel({id}) \/ Expire(id)
    \/ \E h \in Handlers : Cancel({id \in Ids : timers[id].handler = h})
    \/ \E id \in Ids, i \in Intervals : ResetInterval(id, i)
    \/ Return
    \/ Tick

Spec == Init /\ [][Next]_vars
=============================================================================

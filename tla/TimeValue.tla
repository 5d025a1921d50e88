----------------------------- MODULE TimeValue ------------------------------
(***************************************************************************)
(* time_value arithmetic and the reactor's waiting time computed with it.  *)
(* A second has Second units here, 1000000 microseconds in the code.  The  *)
(* value tv is built by the operations of the class; exact follows it as   *)
(* one integer.                                                            *)
(***************************************************************************)
EXTENDS Integers

CONSTANTS
    Second,         \* sub-second units in a second
    Longest,        \* bound: seconds
    Forever         \* a null max_wait_time

VARIABLES
    tv,             \* [sec, usec]
    exact           \* ghost: the same time in units

vars == <<tv, exact>>

TV(s, u) == [sec |-> s, usec |-> u]

Units(t) == t.sec * Second + t.usec

(* C++ integer division rounds towards zero. *)
Quot(x) == IF x >= 0 THEN x \div Second ELSE -((-x) \div Second)

(* As normalize, with the carry taken only when a whole second is exceeded. *)
normalize_above(t) ==
    LET carry == IF t.usec > Second THEN Quot(t.usec - 1) ELSE IF t.usec <= -Second THEN Quot(t.usec) ELSE 0
        c == TV(t.sec + carry, t.usec - carry * Second)
    IN IF c.sec >= 1 /\ c.usec < 0 THEN TV(c.sec - 1, c.usec + Second) ELSE c

(* normalize: whole seconds are carried over one by one, whichever their sign;
   then a negative rest borrows a second, but only from a positive number of
   seconds. *)
normalize(t) ==
    LET carry == Quot(t.usec)
        c == TV(t.sec + carry, t.usec - carry * Second)
    IN IF c.sec >= 1 /\ c.usec < 0 THEN TV(c.sec - 1, c.usec + Second) ELSE c

set(s, u) == normalize(TV(s, u))

plus(x, y) == normalize(TV(x.sec + y.sec, x.usec + y.usec))

minus(x, y) == normalize(TV(x.sec - y.sec, x.usec - y.usec))

less(x, y) == x.sec < y.sec \/ (x.sec = y.sec /\ x.usec < y.usec)

(* The waits and intervals a program passes in: not negative, any number of
   sub-second units up to two seconds. *)
Spans == {set(s, u) : s \in 0..Longest, u \in 0..(2 * Second)}

(* timer_queue::calculate_timeout(max_wait_time, the_timeout): the earliest timer
   (Forever when there is none), the clock and the caller's limit give the time
   to wait, Forever for ever. *)
calculate_timeout(earliest, now, max_wait) ==
    IF earliest = Forever THEN max_wait
    ELSE IF less(now, earliest)
         THEN LET rest == minus(earliest, now) IN
              IF max_wait = Forever \/ less(rest, max_wait) THEN rest ELSE max_wait
         ELSE TV(0, 0)

Init == \E t \in Spans : tv = t /\ exact = Units(t)

(* Deadlines: a clock reading moved by delays and intervals, never before 0. *)
Within(n) == n \in 0..(Longest * Second)

add(d) ==
    /\ Within(exact + Units(d))
    /\ tv' = plus(tv, d)
    /\ exact' = exact + Units(d)

subtract(d) ==
    /\ Within(exact - Units(d))
    /\ tv' = minus(tv, d)
    /\ exact' = exact - Units(d)

(* operator += and -= with a time_t: the seconds alone, without normalize. *)
add_seconds(n) ==
    /\ Within(exact + n * Second)
    /\ tv' = [tv EXCEPT !.sec = @ + n]
    /\ exact' = exact + n * Second

Next ==
    \/ \E d \in Spans : add(d) \/ subtract(d)
    \/ \E n \in -Longest..Longest : add_seconds(n)

Spec == Init /\ [][Next]_vars

(***************************************************************************)
(* Properties                                                              *)
(***************************************************************************)

(* Whatever sums and differences a deadline was made by, it is in the one form
   its time has, and the wait computed for it is right: to the unit, it ends at
   the earlier of the deadline and the caller's limit, and is 0 for a deadline
   that has passed. *)
WaitIsExact ==
    /\ tv = TV(exact \div Second, exact % Second)
    /\ \A now \in Spans, max_wait \in Spans \union {Forever} :
          LET w == calculate_timeout(tv, now, max_wait)
              rest == IF exact > Units(now) THEN exact - Units(now) ELSE 0
          IN Units(w) = IF max_wait = Forever \/ Units(max_wait) > rest THEN rest ELSE Units(max_wait)

=============================================================================

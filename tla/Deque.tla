------------------------------- MODULE Deque -------------------------------
(***************************************************************************)
(* What ndk::message_queue promises about its contents (message_queue.h):  *)
(* a double-ended queue of message blocks.  Callers own chains of blocks;  *)
(* an enqueue moves one whole chain into the queue, a dequeue cuts a chain *)
(* off one end and hands it to the caller.                                 *)
(***************************************************************************)
EXTENDS Integers, Sequences

CONSTANT Blocks        \* message blocks

VARIABLES
    q,       \* the queue
    held,    \* chains of blocks owned by callers
    ret      \* what the last operation returned

vars == <<q, held, ret>>

\* The number of blocks a request for `number` takes from a queue of length
\* len: -1 asks for all, a larger number gets what there is.
Taken(number, len) == IF number = -1 \/ number > len THEN len ELSE number

FirstN(s, n) == SubSeq(s, 1, n)
LastN(s, n)  == SubSeq(s, Len(s) - n + 1, Len(s))
ButFirstN(s, n) == SubSeq(s, n + 1, Len(s))
ButLastN(s, n)  == SubSeq(s, 1, Len(s) - n)

Init == q = <<>> /\ held = {<<b>> : b \in Blocks} /\ ret = 0

\* The owner of two chains links one behind the other.
Link == \E c, d \in held : /\ c # d
                           /\ held' = (held \ {c, d}) \cup {c \o d}
                           /\ UNCHANGED <<q, ret>>

EnqueueTail == \E c \in held : q' = q \o c /\ held' = held \ {c} /\ ret' = Len(c)
EnqueueHead == \E c \in held : q' = c \o q /\ held' = held \ {c} /\ ret' = Len(c)

DequeueHead ==
    \E n \in 1 .. Len(q) : /\ q' = ButFirstN(q, n)
                           /\ held' = held \cup {FirstN(q, n)}
                           /\ ret' = n

DequeueTail ==
    \E n \in 1 .. Len(q) : /\ q' = ButLastN(q, n)
                           /\ held' = held \cup {LastN(q, n)}
                           /\ ret' = n

Next == Link \/ EnqueueTail \/ EnqueueHead \/ DequeueHead \/ DequeueTail

Spec == Init /\ [][Next]_vars
============================================================================

------------------------------ MODULE StreamIO ------------------------------
(***************************************************************************)
(* The blocking I/O functions of ndk/ndk.cpp: one thread calls them, one    *)
(* after the other, on a connected handle whose peer sends, takes and       *)
(* closes as it likes.  Every system call is a step.  A byte is known by    *)
(* its place in the caller's buffer; the i-th byte a call moves went to, or *)
(* came from, place moved[i].                                               *)
(***************************************************************************)
EXTENDS Integers, Sequences, FiniteSets

CONSTANTS
    len,            \* bytes asked for
    iov_len,        \* bytes of one iovec, which divide len
    MaxBytes,       \* bound: bytes the peer sends, and takes
    Nil

VARIABLES
    arrived,        \* bytes in the receive buffer
    room,           \* bytes free in the send buffer
    supply,         \* bytes the peer has still to send, and to take
    peer_open,
    nonblock,       \* O_NONBLOCK of the handle
    call,           \* the function running
    last            \* what the last call returned

vars == <<arrived, room, supply, peer_open, nonblock, call, last>>

----------------------------------------------------------------------------
(* What the functions have of their own.  dir: the direction of the bytes;  *)
(* waits: the readiness waited for; all: loops until len bytes are moved;   *)
(* vec: works on iovecs; timed: takes a timeout; eintr: repeats an          *)
(* interrupted call; keeps: leaves the handle in non-block mode when the    *)
(* first call, or the one that fails in the loop, decides; counts: returns  *)
(* the bytes moved also after an error.                                     *)

Of(dir, waits, all, vec, timed, eintr, keeps, counts) ==
    [dir |-> dir, waits |-> waits, all |-> all, vec |-> vec, timed |-> timed, eintr |-> eintr,
     keeps |-> keeps, counts |-> counts]

recv     == Of("in",  "in",  FALSE, FALSE, TRUE,  TRUE,  TRUE,  FALSE)
recv_n   == Of("in",  "in",  TRUE,  FALSE, TRUE,  TRUE,  TRUE,  FALSE)
recvv    == Of("in",  "in",  FALSE, TRUE,  TRUE,  TRUE,  TRUE,  FALSE)
recvv_n  == Of("in",  "in",  TRUE,  TRUE,  TRUE,  TRUE,  FALSE, FALSE)
recvfrom == Of("in",  "in",  FALSE, FALSE, TRUE,  TRUE,  TRUE,  FALSE)
send     == Of("out", "in",  FALSE, FALSE, TRUE,  TRUE,  FALSE, FALSE)
send_n   == Of("out", "out", TRUE,  FALSE, TRUE,  TRUE,  FALSE, FALSE)
sendv    == Of("out", "out", FALSE, TRUE,  TRUE,  TRUE,  FALSE, FALSE)
sendv_n  == Of("out", "out", TRUE,  TRUE,  TRUE,  TRUE,  FALSE, TRUE)
sendto   == Of("out", "in",  FALSE, FALSE, TRUE,  TRUE,  FALSE, FALSE)
read     == Of("in",  "in",  FALSE, FALSE, FALSE, FALSE, TRUE,  FALSE)
read_n   == Of("in",  "in",  TRUE,  FALSE, FALSE, FALSE, TRUE,  FALSE)
write    == Of("out", "out", FALSE, FALSE, FALSE, FALSE, TRUE,  FALSE)
write_n  == Of("out", "out", TRUE,  FALSE, FALSE, FALSE, TRUE,  FALSE)

Function ==
    [recv |-> recv, recv_n |-> recv_n, recvv |-> recvv, recvv_n |-> recvv_n, recvfrom |-> recvfrom,
     send |-> send, send_n |-> send_n, sendv |-> sendv, sendv_n |-> sendv_n, sendto |-> sendto,
     read |-> read, read_n |-> read_n, write |-> write, write_n |-> write_n]

f == Function[call.f]

----------------------------------------------------------------------------
(* The system.                                                             *)

Init ==
    /\ arrived = 0 /\ room = 0
    /\ supply = [in |-> MaxBytes, out |-> MaxBytes]
    /\ peer_open = TRUE
    /\ nonblock \in BOOLEAN
    /\ call = Nil /\ last = Nil

PeerSends ==
    /\ peer_open /\ supply.in > 0
    /\ arrived' = arrived + 1 /\ supply' = [supply EXCEPT !.in = @ - 1]
    /\ UNCHANGED <<room, peer_open, nonblock, call, last>>

PeerTakes ==
    /\ peer_open /\ supply.out > 0
    /\ room' = room + 1 /\ supply' = [supply EXCEPT !.out = @ - 1]
    /\ UNCHANGED <<arrived, peer_open, nonblock, call, last>>

PeerCloses ==
    /\ peer_open
    /\ peer_open' = FALSE
    /\ UNCHANGED <<arrived, room, supply, nonblock, call, last>>

Ready(dir) == ~peer_open \/ IF dir = "in" THEN arrived > 0 ELSE room > 0

\* The numbers of bytes one system call may move.
Movable ==
    LET there == IF f.dir = "in" THEN arrived ELSE IF peer_open THEN room ELSE 0
    IN  {n \in 1 .. there : n <= len - call.pos}

\* What it may return instead.  EINTR ends a call that would wait; a peer that
\* closed is the end of its bytes, and an error to send to.
Outcomes ==
    {"error"}
    \cup (IF Ready(f.dir) THEN {} ELSE {IF nonblock THEN "EAGAIN" ELSE "EINTR"})
    \cup (IF f.dir = "in" /\ ~peer_open /\ arrived = 0 THEN {"closed"} ELSE {})

----------------------------------------------------------------------------
(* The functions.                                                          *)

Timed == call.timeout # "none"

\* record_and_set_non_block_mode, where there is a timeout.
Begin(name, timeout) ==
    /\ call = Nil
    /\ timeout # "none" => Function[name].timed
    /\ call' = [f |-> name, timeout |-> timeout, flag |-> nonblock, step |-> "io", pos |-> 0, moved |-> <<>>]
    /\ nonblock' = (nonblock \/ timeout # "none")
    /\ last' = Nil
    /\ UNCHANGED <<arrived, room, supply, peer_open>>

\* The call returns n, after restore_non_block_mode if restored.
Return(n, moved, restored, why) ==
    /\ call' = Nil
    /\ nonblock' = IF Timed /\ restored THEN call.flag ELSE nonblock
    /\ last' = [f |-> call.f, n |-> n, moved |-> moved, why |-> why]

\* Mutant: the -1 of a call that would block is added to the bytes moved.
Next_place_counts_failure(n) == IF n = 0 THEN call.pos - 1 ELSE call.pos + n

\* The place to go on from after n bytes.  Where a part of an iovec was moved,
\* the next call starts with the whole of it again (IOVEC_SECURITY_IO is off).
Next_place(n) == IF f.vec THEN ((call.pos + n) \div iov_len) * iov_len ELSE call.pos + n

\* The system call moves n bytes.
Moves(n) ==
    /\ call # Nil /\ call.step \in {"io", "again"} /\ n \in Movable
    /\ LET moved == call.moved \o [k \in 1 .. n |-> call.pos + k]
           place == Next_place(n)
       IN  IF f.all /\ place < len
           THEN call' = [call EXCEPT !.pos = place, !.moved = moved] /\ UNCHANGED <<nonblock, last>>
           ELSE Return(Len(moved), moved, f.all \/ ~f.keeps \/ call.step = "again", "moved")
    /\ arrived' = IF f.dir = "in" THEN arrived - n ELSE arrived
    /\ room' = IF f.dir = "out" THEN room - n ELSE room
    /\ UNCHANGED <<supply, peer_open>>

\* The call would block: the functions with a timeout wait for it, and the ones
\* that loop even without; at once over if the timeout is zero.
WouldBlock ==
    LET waits == /\ f.timed /\ call.step = "io"
                 /\ IF f.all THEN call.timeout # "zero" \/ f.dir = "out" ELSE call.timeout = "some"
    IN  IF waits THEN call' = [call EXCEPT !.step = "wait", !.pos = Next_place(0)] /\ UNCHANGED <<nonblock, last>>
        ELSE Return(IF f.all /\ f.timed THEN Len(call.moved) ELSE -1, call.moved, TRUE, "EAGAIN")

\* The system call moves nothing.
Fails(outcome) ==
    /\ call # Nil /\ call.step \in {"io", "again"} /\ outcome \in Outcomes
    /\ CASE outcome = "EAGAIN" -> WouldBlock
         [] outcome = "EINTR" /\ f.eintr -> UNCHANGED <<call, nonblock, last>>
         [] OTHER -> Return(IF f.counts THEN Len(call.moved) ELSE IF outcome = "closed" THEN 0 ELSE -1,
                            call.moved, ~f.keeps \/ call.step = "again", outcome)
    /\ UNCHANGED <<arrived, room, supply, peer_open>>

\* Mutant: a wait that timed out is begun again.
handle_ready_again ==
    /\ call # Nil /\ call.step = "wait"
    /\ IF Ready(f.waits) THEN call' = [call EXCEPT !.step = IF f.all THEN "io" ELSE "again"] /\ UNCHANGED <<nonblock, last>>
       ELSE UNCHANGED <<call, nonblock, last>>
    /\ UNCHANGED <<arrived, room, supply, peer_open>>

\* handle_ready returns: the handle is ready, or the timeout is over.
handle_ready ==
    /\ call # Nil /\ call.step = "wait"
    /\ IF Ready(f.waits) THEN call' = [call EXCEPT !.step = IF f.all THEN "io" ELSE "again"] /\ UNCHANGED <<nonblock, last>>
       ELSE Timed /\ Return(IF f.all THEN Len(call.moved) ELSE -1, call.moved, TRUE, "timeout")
    /\ UNCHANGED <<arrived, room, supply, peer_open>>

Goes_on ==
    \/ \E n \in 1 .. len : Moves(n)
    \/ \E outcome \in {"EAGAIN", "EINTR", "closed", "error"} : Fails(outcome)
    \/ handle_ready

Next ==
    \/ PeerSends \/ PeerTakes \/ PeerCloses
    \/ \E name \in DOMAIN Function, timeout \in {"none", "zero", "some"} : Begin(name, timeout)
    \/ Goes_on

\* The thread that is in a call goes on; the peer need not do anything.
Spec == Init /\ [][Next]_vars /\ WF_vars(Goes_on)

----------------------------------------------------------------------------
(* Properties.                                                             *)

\* The bytes of the stream and the bytes of the buffer stay in step: none is
\* skipped, overwritten or sent twice, through interrupted, short and blocked
\* calls, and a number returned above zero is the number of bytes moved.
InStep ==
    /\ call # Nil => \A i \in DOMAIN call.moved : call.moved[i] = i
    /\ last # Nil => /\ \A i \in DOMAIN last.moved : last.moved[i] = i
                     /\ last.n > 0 => last.n = Len(last.moved)

\* A thread is inside a call with a timeout.
InTimedCall == call # Nil /\ call.timeout # "none"

\* A return of 0 from recv_n says that the peer closed the connection
\* (sock_stream.h: "peer closed connection return 0, time out or error return -1").
ZeroMeansClosed == last # Nil /\ last.f = "recv_n" /\ last.n = 0 => last.why = "closed"

\* The handle is in the mode it had before the call ("reset to block mode").
ModeRestored == [][call # Nil /\ call' = Nil => nonblock' = call.flag]_vars
=============================================================================

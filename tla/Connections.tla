----------------------------- MODULE Connections -----------------------------
(***************************************************************************)
(* Establishing connections: ndk/connector.h, ndk/acceptor.h and           *)
(* ndk/svc_handler.h over the promises of the reactor (module Reactor):    *)
(* reg says who is registered for a descriptor, events what the last poll  *)
(* reported and dispatch has not reached, timers who has a timer pending.  *)
(* Everything runs under the reactor token.  The kernel side of a socket   *)
(* is sock: "connecting" until the peer answers or refuses, "up" until the *)
(* peer hangs up ("down"); data says the peer has sent something.          *)
(*                                                                         *)
(*   sh[s].st    none, new (made by its user), waiting (a nonblocking_     *)
(*               connect_handler has it), open (its open hook returned 0)  *)
(*   sh[s].fd    peer_'s handle                                            *)
(*   nb[s]       the nonblocking_connect_handler of s: none, plain, or     *)
(*               timed (timer_id_ is not -1)                               *)
(*   listener    the acceptor's listening descriptor                       *)
(*   failed      an assertion of a pending attempt's callbacks has failed  *)
(*   mishaps     what went wrong where the reactor refused an attempt: its *)
(*               handler object was lost, or a svc_handler was closed after *)
(*               it had been deleted (undefined: the program ends there)    *)
(*                                                                         *)
(* Where the code asserts and has a path for the failure below, the module *)
(* follows that path, as a build with NDEBUG does (make debug=0): what the *)
(* default build does is the same up to the assertion that stops it.       *)
(***************************************************************************)
EXTENDS Naturals, FiniteSets

CONSTANTS
    Fds,            \* descriptors (naturals)
    Svc,            \* svc_handler objects
    None,           \* no descriptor, nobody registered
    MaxPending      \* bound on the connections waiting to be accepted

ASSUME ConnectionsAssumption == Fds \subseteq Nat /\ None \notin Fds

VARIABLES sock, data, sh, nb, reg, events, timers, listener, pending, phase, failed, mishaps

kernel  == <<sock, data, pending>>
objects == <<sh, nb>>
reactor == <<reg, events, timers, phase>>
history == <<failed, mishaps>>
vars    == <<kernel, objects, reactor, listener, history>>

Acceptor == [who |-> "acceptor", s |-> None]
Nbch(s)  == [who |-> "nbch", s |-> s]
Handler(s) == [who |-> "handler", s |-> s]
Nobody   == [who |-> "nobody", s |-> None]

FreeFds == {f \in Fds : sock[f] = "closed"}
Lowest(S) == CHOOSE f \in S : \A g \in S : f <= g

Init ==
    /\ sock = [f \in Fds |-> "closed"] /\ data = [f \in Fds |-> FALSE]
    /\ sh = [s \in Svc |-> [st |-> "none", fd |-> None]]
    /\ nb = [s \in Svc |-> "none"]
    /\ reg = [f \in Fds |-> Nobody] /\ events = [f \in Fds |-> {}]
    /\ timers = {} /\ listener = None /\ pending = 0 /\ phase = "idle"
    /\ failed = FALSE /\ mishaps = {}

-----------------------------------------------------------------------------
(* svc_handler.                                                            *)

Dead == [st |-> "none", fd |-> None]

\* Mutant: the timers of a deleted handler stay in the timer queue, and its
\* descriptor stays open.
shutdown_forgets(s, tm) ==
    /\ sh' = [sh EXCEPT ![s] = Dead]
    /\ reg' = [f \in Fds |-> IF f = sh[s].fd THEN Nobody ELSE reg[f]]
    /\ timers' = tm
    /\ UNCHANGED <<sock, data>>

\* close, handle_close, destroy, the destructor and shutdown: the timers (tm
\* is what is left of them by now) and the registration go, peer_ is closed.
shutdown(s, tm) ==
    /\ sh' = [sh EXCEPT ![s] = Dead]
    /\ reg' = [f \in Fds |-> IF f = sh[s].fd THEN Nobody ELSE reg[f]]
    /\ sock' = [f \in Fds |-> IF f = sh[s].fd THEN "closed" ELSE sock[f]]
    /\ data' = [f \in Fds |-> IF f = sh[s].fd THEN FALSE ELSE data[f]]
    /\ timers' = tm \ {Handler(s)}

\* The open hook of the application's handler: it registers for input and
\* returns 0, or returns -1 and the caller closes it.
OpenHook(s, fd, ok, tm) ==
    IF ok THEN /\ sh' = [sh EXCEPT ![s] = [st |-> "open", fd |-> fd]]
               /\ reg' = [reg EXCEPT ![fd] = Handler(s)]
               /\ timers' = tm
               /\ UNCHANGED <<sock, data>>
    ELSE shutdown(s, tm)

\* The application is done with a handler, at any moment.
Close(s) ==
    /\ sh[s].st = "open"
    /\ shutdown(s, timers)
    /\ UNCHANGED <<nb, pending, events, phase, listener, history>>

\* ... or wants to be called back (svc_handlers have timers of their own).
Schedule(s) ==
    /\ sh[s].st = "open" /\ Handler(s) \notin timers
    /\ timers' = timers \cup {Handler(s)}
    /\ UNCHANGED <<kernel, objects, reg, events, phase, listener, history>>

-----------------------------------------------------------------------------
(* connector.                                                              *)

\* connect and connect_i up to ::connect: the socket is made and the answer is
\* immediate, an error, or EINPROGRESS.
Connect(s, answer, ok) ==
    /\ sh[s].st = "none" /\ FreeFds # {}
    /\ LET f == Lowest(FreeFds)
       IN  \/ /\ answer = "immediate" /\ ok
              /\ sock' = [sock EXCEPT ![f] = "up"]
              /\ sh' = [sh EXCEPT ![s] = [st |-> "open", fd |-> f]]
              /\ reg' = [reg EXCEPT ![f] = Handler(s)]
           \/ /\ answer = "in_progress"
              /\ sock' = [sock EXCEPT ![f] = "connecting"]
              /\ sh' = [sh EXCEPT ![s] = [st |-> "new", fd |-> f]]
              /\ UNCHANGED reg
           \/ /\ answer = "error" \/ (answer = "immediate" /\ ~ok)  \* closed again
              /\ UNCHANGED <<sock, sh, reg>>
    /\ UNCHANGED <<data, pending, nb, events, timers, phase, listener, history>>

\* A timeout of zero asks for no wait: the handler is closed.
ConnectPolls(s) ==
    /\ sh[s].st = "new"
    /\ shutdown(s, timers)
    /\ UNCHANGED <<nb, pending, events, phase, listener, history>>

\* Mutant: the timer of a connection attempt is not scheduled.
nonblocking_no_timer(s, timeout) ==
    /\ sh[s].st = "new"
    /\ sh' = [sh EXCEPT ![s].st = "waiting"]
    /\ nb' = [nb EXCEPT ![s] = IF timeout THEN "timed" ELSE "plain"]
    /\ reg' = [reg EXCEPT ![sh[s].fd] = Nbch(s)]
    /\ UNCHANGED <<kernel, events, phase, timers, listener, history>>

\* nonblocking_connect, when the reactor takes the attempt and its timer.
nonblocking_connect(s, timeout) ==
    /\ sh[s].st = "new"
    /\ sh' = [sh EXCEPT ![s].st = "waiting"]
    /\ nb' = [nb EXCEPT ![s] = IF timeout THEN "timed" ELSE "plain"]
    /\ reg' = [reg EXCEPT ![sh[s].fd] = Nbch(s)]
    /\ timers' = IF timeout THEN timers \cup {Nbch(s)} ELSE timers
    /\ UNCHANGED <<kernel, events, phase, listener, history>>

\* Mutant: a handler the reactor refuses is deleted, its socket stays open.
refused_unclosed(s, what) ==
    /\ sh[s].st = "new"
    /\ sh' = [sh EXCEPT ![s] = Dead]
    /\ UNCHANGED <<sock, data, pending, nb, reg, events, phase, timers, listener, history>>

\* nonblocking_connect, when the reactor refuses.  Refused the attempt, it
\* closes the svc_handler and forgets the object it made for the attempt.
\* Refused the timer, it takes the attempt out of the reactor, whose handle_close
\* closes the svc_handler and deletes both, and closes the svc_handler again.
nonblocking_refused(s, what) ==
    /\ sh[s].st = "new"
    /\ shutdown(s, timers)
    /\ mishaps' = mishaps \cup {IF what = "attempt" THEN "attempt lost" ELSE "closed twice"}
    /\ UNCHANGED <<nb, pending, events, phase, listener, failed>>

\* nonblocking_connect_handler::close and delete.  timed: timer_id_ is set, so
\* cancel_timer must find the timer (tm: the timers pending); remove_handler
\* must find the handler.  Its callers assert both.
NbchClose(s, timed, tm) ==
    /\ nb' = [nb EXCEPT ![s] = "none"]
    /\ failed' = (failed \/ (timed /\ Nbch(s) \notin tm) \/ reg[sh[s].fd] # Nbch(s))
    /\ UNCHANGED mishaps

NbchDone(s)   == NbchClose(s, nb[s] = "timed", timers)
LeftTimers(s) == timers \ {Nbch(s)}

\* handle_input and handle_close of a connection attempt: it failed.
ConnectFailed(s) == NbchDone(s) /\ shutdown(s, LeftTimers(s))

\* Mutant: the peer's address is not asked for.
init_unchecked(s, ok) ==
    NbchDone(s) /\ OpenHook(s, sh[s].fd, ok, LeftTimers(s))

\* handle_output and init_svc_handler: the peer's address is known only if the
\* connection is really there.
init_svc_handler(s, ok) ==
    /\ NbchDone(s)
    /\ OpenHook(s, sh[s].fd, ok /\ sock[sh[s].fd] \in {"up", "down"}, LeftTimers(s))

\* Mutant: timer_id_ is not reset first.
timeout_keeps_id(t) == NbchClose(t.s, nb[t.s] = "timed", timers \ {t})

\* handle_timeout of a connection attempt: the timer has gone, timer_id_ = -1.
nbch_handle_timeout(t) == NbchClose(t.s, FALSE, timers \ {t})

\* A timer fires: a connection attempt's, or a handler's own (the hook returns
\* -1: handle_close).
Timeout(t) ==
    /\ phase = "timer" /\ t \in timers
    /\ IF t.who = "nbch" THEN nbch_handle_timeout(t) ELSE UNCHANGED <<nb, history>>
    /\ shutdown(t.s, timers \ {t})
    /\ UNCHANGED <<pending, events, phase, listener>>

-----------------------------------------------------------------------------
(* acceptor.                                                               *)

\* open and open_i; registering may fail, and then the listener is closed.
AcceptorOpen(ok) ==
    /\ listener = None /\ FreeFds # {}
    /\ LET f == Lowest(FreeFds)
       IN  IF ok THEN /\ sock' = [sock EXCEPT ![f] = "listening"]
                      /\ reg' = [reg EXCEPT ![f] = Acceptor]
                      /\ listener' = f
           ELSE UNCHANGED <<sock, reg, listener>>
    /\ UNCHANGED <<data, pending, objects, events, timers, phase, history>>

\* Mutant: an acceptor that is closed keeps its place in the reactor.
acceptor_stays ==
    /\ sock' = [sock EXCEPT ![listener] = "closed"] /\ listener' = None
    /\ pending' = 0 /\ UNCHANGED <<data, reg>>

\* handle_close: once, whatever calls it (close, the destructor, the reactor).
acceptor_handle_close ==
    /\ reg' = [reg EXCEPT ![listener] = Nobody]
    /\ sock' = [sock EXCEPT ![listener] = "closed"] /\ listener' = None
    /\ pending' = 0 /\ UNCHANGED data

AcceptorClose ==
    /\ listener # None
    /\ acceptor_handle_close
    /\ UNCHANGED <<objects, events, timers, phase, history>>

\* handle_input, one round of its loop: accept_i, make_svc_handler and
\* activate_svc_handler.  The loop ends when nothing is pending.
acceptor_handle_input(ok) ==
    /\ pending' = pending - 1
    /\ LET f == Lowest(FreeFds)
           s == CHOOSE x \in Svc : sh[x].st = "none"
       IN  IF ok THEN /\ sh' = [sh EXCEPT ![s] = [st |-> "open", fd |-> f]]
                      /\ reg' = [reg EXCEPT ![f] = Handler(s)]
                      /\ sock' = [sock EXCEPT ![f] = "up"]
           ELSE UNCHANGED <<sh, reg, sock>>
    /\ UNCHANGED data

-----------------------------------------------------------------------------
(* handle_events: poll, timers, then I/O; what is not dispatched waits for *)
(* the next call.                                                          *)

Ready(f) ==
    LET gone == sock[f] \in {"refused", "down"}
    IN  CASE sock[f] = "listening" -> IF pending > 0 THEN {"IN"} ELSE {}
          [] reg[f].who = "nbch" ->
                 (IF data[f] \/ gone THEN {"IN"} ELSE {})
                     \cup (IF sock[f] = "up" \/ gone THEN {"OUT"} ELSE {})
                     \cup (IF gone THEN {"HUP"} ELSE {})
          [] reg[f].who = "handler" -> (IF data[f] \/ gone THEN {"IN"} ELSE {})
                                           \cup (IF gone THEN {"HUP"} ELSE {})
          [] OTHER -> {}

Poll ==
    /\ phase = "idle"
    /\ events' = IF \E f \in Fds : events[f] # {} THEN events
                 ELSE [f \in Fds |-> IF reg[f] = Nobody THEN {} ELSE Ready(f)]
    /\ phase' = "timer"
    /\ UNCHANGED <<kernel, objects, reg, timers, listener, history>>

TimersDone == phase = "timer" /\ phase' = "io"
              /\ UNCHANGED <<kernel, objects, reg, events, timers, listener, history>>

Return == phase = "io" /\ phase' = "idle"
          /\ UNCHANGED <<kernel, objects, reg, events, timers, listener, history>>

First(E) == IF "IN" \in E THEN "IN" ELSE IF "OUT" \in E THEN "OUT" ELSE "HUP"

Dispatched(f, bit) ==
    /\ phase = "io" /\ events[f] # {} /\ bit = First(events[f])
    /\ events' = [events EXCEPT ![f] = IF reg[f] = Nobody \/ bit = "HUP" THEN {} ELSE @ \ {bit}]
    /\ UNCHANGED phase

\* Nobody is registered any more: the event is stepped over.
DispatchNobody(f) ==
    /\ Dispatched(f, First(events[f])) /\ reg[f] = Nobody
    /\ UNCHANGED <<kernel, objects, reg, timers, listener, history>>

DispatchConnect(f, ok) ==
    /\ reg[f].who = "nbch"
    /\ \/ \E bit \in {"IN", "HUP"} : Dispatched(f, bit) /\ ConnectFailed(reg[f].s)
       \/ Dispatched(f, "OUT") /\ init_svc_handler(reg[f].s, ok)
    /\ UNCHANGED <<pending, listener>>

\* A service handler reads what there is, or gives up: -1 or a hang-up is
\* handle_close, and the default handle_close destroys it.
DispatchHandler(f, ok) ==
    /\ reg[f].who = "handler"
    /\ \E bit \in {"IN", "OUT", "HUP"} :
          /\ Dispatched(f, bit)
          /\ IF bit = "IN" /\ ok THEN data' = [data EXCEPT ![f] = FALSE]
                                      /\ UNCHANGED <<sock, sh, reg, timers>>
             ELSE shutdown(reg[f].s, timers)
    /\ UNCHANGED <<nb, pending, listener, history>>

DispatchAcceptor(f, ok) ==
    /\ reg[f] = Acceptor
    /\ \/ /\ Dispatched(f, "IN") /\ (pending = 0 \/ FreeFds = {} \/ \A s \in Svc : sh[s].st # "none")
          /\ UNCHANGED <<kernel, sh, reg, listener>>
       \/ /\ phase = "io" /\ "IN" \in events[f] /\ UNCHANGED <<events, phase>>
          /\ pending > 0 /\ FreeFds # {} /\ \E s \in Svc : sh[s].st = "none"
          /\ acceptor_handle_input(ok) /\ UNCHANGED listener
       \/ /\ \E bit \in {"OUT", "HUP"} : Dispatched(f, bit)
          /\ acceptor_handle_close /\ UNCHANGED sh
    /\ UNCHANGED <<nb, timers, history>>

Reactor ==
    \/ Poll
    \/ \E t \in timers : Timeout(t)
    \/ TimersDone
    \/ \E f \in Fds : DispatchNobody(f)
    \/ \E f \in Fds, ok \in BOOLEAN :
          DispatchConnect(f, ok) \/ DispatchHandler(f, ok) \/ DispatchAcceptor(f, ok)
    \/ Return

-----------------------------------------------------------------------------
(* The peers.                                                              *)

Peer ==
    /\ \/ \E f \in Fds :
            \/ sock[f] = "connecting" /\ \E x \in {"up", "refused"} : sock' = [sock EXCEPT ![f] = x]
               /\ UNCHANGED <<data, pending>>
            \/ sock[f] = "up" /\ sock' = [sock EXCEPT ![f] = "down"] /\ UNCHANGED <<data, pending>>
            \/ sock[f] = "up" /\ data' = [data EXCEPT ![f] = TRUE] /\ UNCHANGED <<sock, pending>>
       \/ listener # None /\ pending < MaxPending /\ pending' = pending + 1
          /\ UNCHANGED <<sock, data>>
    /\ UNCHANGED <<objects, reactor, listener, history>>

User ==
    \/ \E s \in Svc, ok \in BOOLEAN :
          \/ \E a \in {"immediate", "in_progress", "error"} : Connect(s, a, ok)
          \/ nonblocking_connect(s, ok)
          \/ \E what \in {"attempt", "timer"} : nonblocking_refused(s, what)
          \/ ConnectPolls(s)
          \/ Close(s)
          \/ Schedule(s)
    \/ \E ok \in BOOLEAN : AcceptorOpen(ok)
    \/ AcceptorClose

\* Nothing has been closed after it was deleted.
Defined == "closed twice" \notin mishaps

\* What a program does after that is anything: its behaviour ends there.
Ended == ~Defined /\ UNCHANGED vars

Next == (Defined /\ (Reactor \/ Peer \/ User)) \/ Ended

Spec == Init /\ [][Next]_vars

\* The reactor keeps running and the timers of connection attempts come due.
FairSpec ==
    /\ Spec
    /\ WF_vars(Defined /\ Poll) /\ WF_vars(Defined /\ TimersDone) /\ WF_vars(Defined /\ Return)
    /\ \A s \in Svc : SF_vars(Defined /\ Timeout(Nbch(s)))

-----------------------------------------------------------------------------
(* Properties.                                                             *)

\* connector.h: "the <close> hook on the <svc_handler> will be called
\* automatically to prevent resource leaks".  Every descriptor that is open is
\* the listener's or that of exactly one live handler, however the attempt
\* ended: refused by the peer or the reactor, timed out, hung up while a stale
\* event waited; up to the second close of a handler whose timer was refused.
NoLeak ==
    \A f \in Fds : sock[f] # "closed" =>
        Cardinality({s \in Svc : sh[s].fd = f}) + (IF listener = f THEN 1 ELSE 0) = 1

\* The reactor calls nobody that has been deleted: what is registered and every
\* pending timer belongs to a live object that still owns the descriptor.
CallsTheLiving ==
    /\ \A f \in Fds :
          /\ reg[f] = Acceptor => listener = f
          /\ reg[f].who = "nbch" => nb[reg[f].s] # "none" /\ sh[reg[f].s].fd = f
          /\ reg[f].who = "handler" => sh[reg[f].s] = [st |-> "open", fd |-> f]
    /\ \A t \in timers : IF t.who = "nbch" THEN nb[t.s] = "timed" ELSE sh[t.s].st = "open"

\* A handler is opened only on a connection that was made (init_svc_handler
\* asks for the peer's address): not even when the writable event that opened
\* it was left over from an earlier socket with the same descriptor.
OpenIsConnected == \A s \in Svc : sh[s].st = "open" => sock[sh[s].fd] \in {"up", "down"}

\* The assertions of the nonblocking_connect_handler's callbacks.
NoAbort == ~failed

\* What the callbacks rely on: the reactor calls live objects, handlers are
\* opened on connections that were made, and no assertion fails, although an
\* attempt may complete, fail and time out in the same round of events or be
\* refused by the reactor; up to the second close of a handler whose timer was
\* refused (ClosedOnce).
CallbacksSound == CallsTheLiving /\ OpenIsConnected /\ NoAbort

\* A connection attempt with a timeout comes to an end, whatever the peer does,
\* unless the program ends before it.
ConnectResolved == \A s \in Svc : (nb[s] = "timed") ~> (nb[s] = "none" \/ ~Defined)

\* svc_handler.h says of closed_ that it is "required to avoid circular calls to
\* <handle_close>": no handler is closed again once it is deleted.
ClosedOnce == "closed twice" \notin mishaps

\* The object that stands for an attempt is deleted when the attempt ends.
AttemptsDeleted == "attempt lost" \notin mishaps

\* The comment on handle_input: "called by reactor when asynchronous
\* connections fail".
InputMeansFailure ==
    [][\A s \in Svc : nb[s] # "none" /\ nb'[s] = "none" /\ phase = "io"
                        /\ "IN" \in events[sh[s].fd] => sock[sh[s].fd] # "up"]_vars
=============================================================================

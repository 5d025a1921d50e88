------------------------------- MODULE Reactor -------------------------------
(***************************************************************************)
(* The reactor proper: handler repository, demultiplexer and dispatch loop *)
(* of ndk/unix_reactor.cpp, ndk/epoll_reactor.cpp, ndk/select_reactor.cpp, *)
(* as the holder of the reactor token runs them (ReactorToken models how   *)
(* the token is passed).  kind says which of the two reactors was built.   *)
(*                                                                         *)
(*   rep        handler_rep_ : event_handler_, mask_, suspended_ by handle *)
(*   epoll      the kernel's interest set (epoll reactor)                  *)
(*   lists      handle_list_rd_, _wr_, _ex_ (select reactor)               *)
(*   events     [start_pevents_, end_pevents_), the events not dispatched  *)
(*   polled     rd_set_, wr_set_, ex_set_ as select() left them            *)
(*   walk       the list being walked and the saved itor (select reactor)  *)
(*   at         where handle_events_i is; count, its local                 *)
(*   stack      the upcalls and handle_close calls in progress             *)
(*   fds, hd    the open descriptors; each handler's own, NoFd once deleted*)
(*   fuel       calls the running upcalls still make: callbacks return     *)
(*   aborted    an assert of dispatch_io_events failed                     *)
(*                                                                         *)
(* Event handlers are the environment.  They keep the library's rules: a   *)
(* handler has one descriptor and leaves the reactor before it closes it   *)
(* (svc_handler::shutdown), an upcall that deleted its handler returns 0.  *)
(***************************************************************************)
EXTENDS EpollSet, SelectLists, Sequences, FiniteSets

CONSTANTS
    Handles,        \* descriptors (naturals)
    Handlers,       \* event_handler objects
    NoEh,           \* no event_handler
    Masks,          \* for each handler, the masks it registers and removes
    MaxDispatch,    \* MAX_REACTOR_PROCESS_FDS_ONE_TIME
    MaxDepth,       \* bound on nested callbacks
    MaxFuel         \* bound on the calls one upcall makes

VARIABLES kind, rep, epoll, lists, events, polled, walk, at, count,
          stack, fds, hd, fuel, aborted

kernel == <<epoll, lists>>
loop   == <<events, polled, walk, at, count>>
env    == <<fds, hd>>
vars   == <<kind, rep, kernel, loop, stack, env, fuel, aborted>>

AllMask    == {"read", "write", "except", "accept", "connect"}
MaskOfList == [rd |-> "read", wr |-> "write", ex |-> "except"]
NoWalk     == [list |-> "none", itor |-> Null]
NoneSet    == [k \in Kinds |-> {}]

\* The descriptors are the indices of handler_rep_, with three select_handle
\* objects for each; handlers use reactor masks.
ASSUME ReactorAssumption ==
    /\ Handles \subseteq Nat /\ IsFiniteSet(Handles) /\ Handles # {}
    /\ Nodes = 1 .. 3 * Cardinality(Handles)
    /\ NoEh \notin Handlers
    /\ Masks \in [Handlers -> SUBSET SUBSET AllMask]

EmptyEpoll == [h \in Handles |-> Absent]      \* epoll_create

Init ==
    /\ kind \in {"epoll", "select"}
    /\ rep = [h \in Handles |-> [eh |-> NoEh, mask |-> {}, suspended |-> FALSE]]
    /\ epoll = EmptyEpoll
    /\ lists = EmptyLists
    /\ events = <<>> /\ polled = NoneSet /\ walk = NoWalk
    /\ at = "idle" /\ count = 0
    /\ stack = <<>> /\ fds = {} /\ hd = [e \in Handlers |-> NoFd]
    /\ fuel = 0 /\ aborted = FALSE

-----------------------------------------------------------------------------
(* The repository and the demultiplexer.                                   *)

find(h) == IF h \in Handles THEN rep[h].eh ELSE NoEh

\* unbind leaves suspended_ as it is.
unbind(r, h) == [r EXCEPT ![h].eh = NoEh, ![h].mask = {}]
bind(r, h, e, m) == [r EXCEPT ![h].eh = e, ![h].mask = m]

\* The virtual handle_opt_i: the new interest set or lists, and the result.
handle_opt_i(h, m, opt, refused) ==
    IF kind = "epoll"
    THEN LET c == epoll_handle_opt_i(epoll, h \in fds, h, m, opt, refused)
         IN  [epoll |-> c.set, lists |-> lists, ok |-> c.ok]
    ELSE [epoll |-> epoll, lists |-> select_handle_opt_i(lists, h, m, opt), ok |-> TRUE]

Demux(c) == epoll' = c.epoll /\ lists' = c.lists

\* Mutant: a failed add leaves the handler bound.
register_no_unbind(h, e, m, refused) ==
    LET new == rep[h].mask \cup m
        opt == IF find(h) = NoEh THEN "add_mask" ELSE "set_mask"
    IN  /\ rep' = bind(rep, h, IF find(h) = NoEh THEN e ELSE find(h), new)
        /\ Demux(handle_opt_i(h, new, opt, refused))

\* register_handler_i.  refused: the kernel has no room for the handle.
register_handler_i(h, e, m, refused) ==
    IF find(h) = NoEh
    THEN LET c == handle_opt_i(h, m, "add_mask", refused)
         IN  /\ rep' = IF c.ok THEN bind(rep, h, e, m) ELSE unbind(rep, h)
             /\ Demux(c)
    ELSE LET new == rep[h].mask \cup m
         IN  /\ rep' = [rep EXCEPT ![h].mask = new]
             /\ Demux(handle_opt_i(h, new, "set_mask", refused))

\* Mutant: the handler stays in the repository when its mask is empty.
clear_no_unbind(h, m, refused) ==
    LET new == rep[h].mask \ m
    IN  IF find(h) = NoEh THEN UNCHANGED <<rep, kernel>>
        ELSE /\ rep' = [rep EXCEPT ![h].mask = new]
             /\ Demux(handle_opt_i(h, new, IF new = {} THEN "clr_mask" ELSE "set_mask", refused))

\* remove_handler_i from the test after handle_close on.
ClearMask(h, m, refused) ==
    LET new == rep[h].mask \ m
        c   == handle_opt_i(h, new, IF new = {} THEN "clr_mask" ELSE "set_mask", refused)
        set == [rep EXCEPT ![h].mask = new]
    IN  IF find(h) = NoEh THEN UNCHANGED <<rep, kernel>>
        ELSE /\ rep' = IF c.ok /\ new = {} THEN unbind(set, h) ELSE set
             /\ Demux(c)

\* remove_handler_i: without dont_call, handle_close is called first.
remove_handler_i(h, m, dontCall, refused, st) ==
    IF find(h) # NoEh /\ ~dontCall
    THEN /\ stack' = Append(st, [call |-> "close", h |-> h, mask |-> m])
         /\ UNCHANGED <<rep, kernel>>
    ELSE ClearMask(h, m, refused) /\ stack' = st

suspend_handler_i(h) ==
    LET c == handle_opt_i(h, {}, "clr_mask", FALSE)
    IN  IF find(h) = NoEh \/ rep[h].suspended THEN UNCHANGED <<rep, kernel>>
        ELSE Demux(c) /\ rep' = [rep EXCEPT ![h].suspended = c.ok]

resume_handler_i(h, refused) ==
    LET c == handle_opt_i(h, rep[h].mask, "add_mask", refused)
    IN  IF find(h) = NoEh \/ ~rep[h].suspended \/ rep[h].mask = {}
        THEN UNCHANGED <<rep, kernel>>
        ELSE Demux(c) /\ rep' = [rep EXCEPT ![h].suspended = ~c.ok]

-----------------------------------------------------------------------------
(* What event handlers do: between two calls of handle_events, in a timer  *)
(* callback, or in the upcall at the top of the stack.                     *)

MayCall ==
    /\ ~aborted
    /\ IF stack = <<>> THEN at \notin {"io", "closed"} ELSE fuel > 0
    /\ UNCHANGED <<kind, loop, aborted>>

\* One call of the upcalls in progress is spent, or the first ones begin.
Spend == fuel' = IF stack' = <<>> THEN 0 ELSE IF stack = <<>> THEN MaxFuel ELSE fuel - 1

\* A handler opens a descriptor (socket, accept): the lowest one free.
NewHandler(e) ==
    /\ MayCall
    /\ hd[e] = NoFd /\ fds # Handles
    /\ LET h == CHOOSE x \in Handles \ fds : \A y \in Handles \ fds : x <= y
       IN  hd' = [hd EXCEPT ![e] = h] /\ fds' = fds \cup {h}
    /\ UNCHANGED <<rep, kernel, stack>>
    /\ Spend

\* register_handler: the arguments are checked before the token is taken.
register_handler(e, m, refused) ==
    /\ MayCall
    /\ hd[e] # NoFd /\ m # {}
    /\ register_handler_i(hd[e], e, m, refused)
    /\ UNCHANGED <<stack, env>>
    /\ Spend

remove_handler(e, m, dontCall, refused) ==
    /\ MayCall
    /\ hd[e] # NoFd /\ m # {}
    /\ Len(stack) < MaxDepth
    /\ remove_handler_i(hd[e], m, dontCall, refused, stack)
    /\ UNCHANGED env
    /\ Spend

suspend_handler(e) ==
    /\ MayCall
    /\ hd[e] # NoFd
    /\ suspend_handler_i(hd[e])
    /\ UNCHANGED <<stack, env>>
    /\ Spend

resume_handler(e, refused) ==
    /\ MayCall
    /\ hd[e] # NoFd
    /\ resume_handler_i(hd[e], refused)
    /\ UNCHANGED <<stack, env>>
    /\ Spend

\* svc_handler::destroy and shutdown: out of the reactor, closed, deleted.
Destroy(e) ==
    /\ MayCall
    /\ hd[e] # NoFd
    /\ ClearMask(hd[e], AllMask, FALSE)
    /\ fds' = fds \ {hd[e]} /\ hd' = [hd EXCEPT ![e] = NoFd]
    /\ UNCHANGED stack
    /\ Spend

\* Whether the kernel refuses: select() takes any handle.
Refusals == IF kind = "epoll" THEN BOOLEAN ELSE {FALSE}

Client ==
    \E e \in Handlers :
        \/ NewHandler(e)
        \/ \E m \in Masks[e], refused \in Refusals : register_handler(e, m, refused)
        \/ \E m \in Masks[e], d \in BOOLEAN, refused \in Refusals : remove_handler(e, m, d, refused)
        \/ suspend_handler(e)
        \/ \E refused \in Refusals : resume_handler(e, refused)
        \/ Destroy(e)

-----------------------------------------------------------------------------
(* handle_events_i.                                                        *)

\* What epoll_wait may report of the set es: events asked for, and EPOLLHUP.
Reports(es) ==
    LET one == [h : {x \in Handles : es[x] # Absent},
                ev : (SUBSET {"IN", "OUT", "PRI", "HUP"}) \ {{}}]
        may == {r \in one : r.ev \subseteq es[r.h] \cup {"HUP"}}
    IN  {s \in UNION {[1 .. n -> may] : n \in 0 .. Cardinality(Handles)} :
            \A i, j \in DOMAIN s : s[i].h = s[j].h => i = j}

\* Mutant: epoll_wait is called with events left over.
poll_discards == events' \in Reports(epoll)

\* poll_events of the epoll reactor: what is left over goes first.  Nothing is
\* reported when the timeout of the next timer has passed.
epoll_poll_events == IF events # <<>> THEN events' = events ELSE events' \in Reports(epoll)

\* poll_events and reset_fd_set of the select reactor.
select_poll_events ==
    LET asked == [k \in Kinds |-> Members(lists, k)]
    IN  polled' \in {f \in [Kinds -> SUBSET fds] : \A k \in Kinds : f[k] \subseteq asked[k]}

\* poll_events_i; then dispatch_events, timers first.
Poll ==
    /\ ~aborted /\ at = "idle" /\ stack = <<>>
    /\ \/ kind = "epoll" /\ epoll_poll_events /\ UNCHANGED polled
       \/ kind = "select" /\ select_poll_events /\ UNCHANGED events
    /\ at' = "timer"
    /\ UNCHANGED <<kind, rep, kernel, walk, count, stack, env, fuel, aborted>>

\* dispatch_timer_handler is over (its callbacks are Client steps).
TimersDone ==
    /\ ~aborted /\ at = "timer" /\ stack = <<>>
    /\ at' = "io"
    /\ walk' = IF kind = "select" /\ polled # NoneSet
               THEN [list |-> "rd", itor |-> lists.head["rd"]] ELSE walk
    /\ UNCHANGED <<kind, rep, kernel, events, polled, count, stack, env, fuel, aborted>>

\* upcall.  n: the list node p of the select reactor.
Upcall(h, n, mask) ==
    /\ stack' = <<[call |-> "upcall", h |-> h, mask |-> {mask}, eh |-> find(h), node |-> n]>>
    /\ fuel' = MaxFuel
    /\ UNCHANGED <<rep, kernel>>

Inside == ~aborted /\ at = "io" /\ stack = <<>>

\* The bit is cleared before its upcall; ++pfd when no bit is left, when the
\* handle has no handler and after EPOLLHUP.
next_events(bit) ==
    IF find(events[1].h) = NoEh \/ events[1].ev = {bit} \/ bit = "HUP" THEN Tail(events)
    ELSE [events EXCEPT ![1].ev = @ \ {bit}]

Priority    == [IN |-> 1, OUT |-> 2, PRI |-> 3, HUP |-> 4]
MaskOfEvent == [IN |-> "read", OUT |-> "write", PRI |-> "except"]

\* dispatch_io_events of the epoll reactor, one round of its loop.
epoll_dispatch ==
    /\ Inside /\ kind = "epoll" /\ events # <<>> /\ count < MaxDispatch
    /\ LET h   == events[1].h
           bit == CHOOSE b \in events[1].ev :
                      \A c \in events[1].ev : Priority[b] <= Priority[c]
       IN  /\ events' = next_events(bit)
           /\ count' = IF find(h) = NoEh THEN count ELSE count + 1
           /\ \/ find(h) = NoEh /\ UNCHANGED <<rep, kernel, stack, fuel>>
              \/ find(h) # NoEh /\ bit # "HUP" /\ Upcall(h, Null, MaskOfEvent[bit])
              \/ /\ find(h) # NoEh /\ bit = "HUP"
                 /\ remove_handler_i(h, AllMask, FALSE, FALSE, stack)
                 /\ fuel' = MaxFuel
    /\ UNCHANGED <<kind, polled, walk, at, env, aborted>>

\* dispatch_io_events of the select reactor, one round of one of its loops:
\* p is the saved itor, itor moves on before the upcall.
select_dispatch ==
    /\ Inside /\ kind = "select" /\ walk.list # "none" /\ walk.itor # Null
    /\ LET p == walk.itor
           h == lists.handle[p]
           k == walk.list
       IN  /\ walk' = [walk EXCEPT !.itor = lists.next[p]]
           /\ aborted' = (h = NoFd)
           /\ IF h \in polled[k] /\ find(h) # NoEh
              THEN Upcall(h, p, MaskOfList[k])
              ELSE UNCHANGED <<rep, kernel, stack, fuel>>
    /\ UNCHANGED <<kind, events, polled, at, count, env>>

\* The end of one list: the next one, from its head at that moment.
select_next_list ==
    /\ Inside /\ kind = "select" /\ walk.list \in {"rd", "wr"} /\ walk.itor = Null
    /\ LET k == IF walk.list = "rd" THEN "wr" ELSE "ex" IN walk' = [list |-> k, itor |-> lists.head[k]]
    /\ UNCHANGED <<kind, rep, kernel, events, polled, at, count, stack, env, fuel, aborted>>

\* handle_events_i returns.
handle_events_done ==
    /\ Inside
    /\ IF kind = "epoll" THEN events = <<>> \/ count = MaxDispatch
       ELSE walk.list \in {"none", "ex"} /\ walk.itor = Null
    /\ at' = "idle" /\ polled' = NoneSet /\ walk' = NoWalk /\ count' = 0
    /\ UNCHANGED <<kind, rep, kernel, events, stack, env, fuel, aborted>>

\* The callback at the top of the stack returns.
Top == stack[Len(stack)]
Pop == SubSeq(stack, 1, Len(stack) - 1)

Returns(call) ==
    /\ ~aborted /\ stack # <<>> /\ Top.call = call
    /\ UNCHANGED <<kind, loop, env, aborted>>

Refuel == fuel' = IF stack' = <<>> THEN 0 ELSE fuel

\* handle_close returns, and the rest of remove_handler_i follows.
CloseReturns(refused) ==
    /\ Returns("close")
    /\ ClearMask(Top.h, Top.mask, refused) /\ stack' = Pop
    /\ Refuel

\* An upcall that returns -1 has its mask removed from what is now the handle
\* (p->handle, of the select reactor).
UpcallReturns(failed) ==
    /\ Returns("upcall")
    /\ LET h == IF kind = "select" THEN lists.handle[Top.node] ELSE Top.h
       IN  \/ ~failed /\ stack' = Pop /\ UNCHANGED <<rep, kernel>>
           \/ failed /\ hd[Top.eh] = Top.h /\ remove_handler_i(h, Top.mask, FALSE, FALSE, Pop)
    /\ Refuel

\* unbind_all.
unbind_all(r) == [h \in Handles |-> [r[h] EXCEPT !.eh = NoEh, !.mask = {}]]

\* close: close_i of either reactor and close_ii.
Close ==
    /\ ~aborted /\ at = "idle" /\ stack = <<>>
    /\ at' = "closed"
    /\ rep' = unbind_all(rep)
    /\ epoll' = EmptyEpoll /\ lists' = EmptyLists
    /\ UNCHANGED <<kind, events, polled, walk, count, stack, env, fuel, aborted>>

Leader ==
    \/ Poll
    \/ TimersDone
    \/ epoll_dispatch
    \/ select_dispatch
    \/ select_next_list
    \/ handle_events_done
    \/ \E refused \in Refusals : CloseReturns(refused)
    \/ \E failed \in BOOLEAN : UpcallReturns(failed)
    \/ Close

Next == Client \/ Leader

Spec == Init /\ [][Next]_vars

-----------------------------------------------------------------------------
(* Properties.                                                             *)

\* The repository and the demultiplexer agree (register_handler_i,
\* remove_handler_i, suspend_handler_i, resume_handler_i): what is watched for a
\* handle that is not suspended is what its mask asks for, and a handle without
\* a handler is not watched.
Watched(h) == IF kind = "epoll" THEN epoll[h]
              ELSE LET w == {k \in Kinds : h \in Members(lists, k)}
                   IN  IF w = {} THEN Absent ELSE w
Wanted(m)  == IF kind = "epoll" THEN reactor_mask_to_epoll_event(m) ELSE ListsOf(m)

Agreement ==
    \A h \in Handles :
        /\ rep[h].eh = NoEh => Watched(h) = Absent
        /\ rep[h].eh # NoEh /\ ~rep[h].suspended => Watched(h) = Wanted(rep[h].mask)

\* The handler dispatch_io_events would call is alive and owns the handle: no
\* order of removals, closes and reused descriptors leaves a dead one bound.
NoDangling == \A h \in Handles : rep[h].eh # NoEh => hd[rep[h].eh] = h /\ h \in fds

\* Events left over from one epoll_wait are not thrown away by the next poll:
\* they go only one bit or one handle at a time, by dispatch_io_events.
LeftoversKept ==
    [][events # <<>> => \/ events' \in {events, Tail(events)}
                        \/ at = "io" /\ Len(events') = Len(events)]_vars

\* The assertion of the select reactor's dispatch_io_events: the saved node
\* still belongs to a handle.
NoAbort == ~aborted
=============================================================================

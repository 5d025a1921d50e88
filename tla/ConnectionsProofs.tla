-------------------------- MODULE ConnectionsProofs --------------------------
(***************************************************************************)
(* Theorems about connector, acceptor and svc_handler, for any number of   *)
(* handlers and descriptors.                                               *)
(***************************************************************************)
EXTENDS Connections, DataLemmas

Attempts == {Nbch(s) : s \in Svc}
Services == {Handler(s) : s \in Svc}

TypeOK ==
    /\ sock \in [Fds -> {"closed", "connecting", "up", "down", "refused", "listening"}]
    /\ data \in [Fds -> BOOLEAN]
    /\ sh \in [Svc -> [st : {"none", "new", "waiting", "open"}, fd : Fds \cup {None}]]
    /\ nb \in [Svc -> {"none", "plain", "timed"}]
    /\ reg \in [Fds -> Attempts \cup Services \cup {Acceptor, Nobody}]
    /\ timers \in SUBSET (Attempts \cup Services)
    /\ listener \in Fds \cup {None}

\* A live handler owns one open descriptor of its own, and a connection
\* attempt is under way exactly while the handler waits for it.
HandlersOwn ==
    /\ \A s \in Svc :
          /\ sh[s].st = "none" <=> sh[s].fd = None
          /\ sh[s].fd # None => sock[sh[s].fd] \notin {"closed", "listening"}
          /\ nb[s] # "none" <=> sh[s].st = "waiting"
    /\ \A s, t \in Svc : sh[s].fd = sh[t].fd /\ sh[s].fd # None => s = t

\* Who is registered for the descriptor a handler owns.
Registered ==
    \A s \in Svc :
       /\ sh[s].st = "new" => reg[sh[s].fd] = Nobody
       /\ sh[s].st = "waiting" => reg[sh[s].fd] = Nbch(s)
       /\ sh[s].st = "open" => reg[sh[s].fd] = Handler(s) /\ sock[sh[s].fd] \in {"up", "down"}

\* The listener is open and registered.
ListenerOwns == listener # None => sock[listener] = "listening" /\ reg[listener] = Acceptor

\* An open descriptor has an owner, and nobody is registered for a closed one.
Owned ==
    \A f \in Fds : IF sock[f] = "closed" THEN reg[f] = Nobody
                   ELSE listener = f \/ \E s \in Svc : sh[s].fd = f

\* The timers pending are those of the attempts that have one, and of open
\* handlers.
TimersOwned ==
    \A s \in Svc : /\ Nbch(s) \in timers <=> nb[s] = "timed"
                   /\ Handler(s) \in timers => sh[s].st = "open"

IInv == /\ TypeOK /\ HandlersOwn /\ Registered /\ ListenerOwns /\ Owned /\ TimersOwned
        /\ ~failed
        /\ failed = FALSE

-----------------------------------------------------------------------------
(* The operators.                                                          *)

\* Those the reactor may call are told apart by what they are and whose.
LEMMA OwnersApart ==
    /\ \A s : Nbch(s).who = "nbch" /\ Nbch(s).s = s
    /\ \A s : Handler(s).who = "handler" /\ Handler(s).s = s
    /\ Acceptor.who = "acceptor" /\ Nobody.who = "nobody"
BY DEF Nbch, Handler, Acceptor, Nobody

\* socket() finds the lowest descriptor that is not in use, if there is one.
LEMMA LowestIsFree ==
    ASSUME FreeFds # {} PROVE Lowest(FreeFds) \in FreeFds
<1>1. FreeFds \in SUBSET Nat
  BY ConnectionsAssumption DEF FreeFds
<1> QED BY <1>1, LeastNatural DEF Lowest

-----------------------------------------------------------------------------
(* What the steps have in common.                                          *)

\* Closing a live handler, whether or not an attempt to connect it is under
\* way, takes all that belongs to it and nothing else.
LEMMA ShutdownKeeps ==
    ASSUME IInv, NEW s \in Svc, sh[s].st # "none", NEW tm, shutdown(s, tm),
           nb' = [nb EXCEPT ![s] = "none"], tm \ {Handler(s)} = timers \ {Nbch(s), Handler(s)},
           listener' = listener, failed' = FALSE
    PROVE  IInv'
<1> DEFINE f == sh[s].fd
<1>0. /\ f \in Fds /\ listener # f /\ sock[f] # "closed"
      /\ None \notin Fds
  BY ConnectionsAssumption DEF IInv, TypeOK, HandlersOwn, ListenerOwns
<1>1. /\ sh' = [sh EXCEPT ![s] = Dead] /\ timers' = timers \ {Nbch(s), Handler(s)}
      /\ sock' = [sock EXCEPT ![f] = "closed"] /\ reg' = [reg EXCEPT ![f] = Nobody]
      /\ data' = [data EXCEPT ![f] = FALSE]
      /\ Dead \in [st : {"none", "new", "waiting", "open"}, fd : Fds \cup {None}]
      /\ Dead.st = "none" /\ Dead.fd = None
  BY <1>0 DEF IInv, TypeOK, shutdown, Dead
<1>2. TypeOK'
  BY <1>0, <1>1 DEF IInv, TypeOK
<1>3. \A t \in Svc : t # s => /\ sh'[t] = sh[t] /\ nb'[t] = nb[t] /\ sh[t].fd # f
                              /\ sh[t].fd # None => /\ sock'[sh[t].fd] = sock[sh[t].fd]
                                                    /\ reg'[sh[t].fd] = reg[sh[t].fd]
  BY <1>0, <1>1 DEF IInv, TypeOK, HandlersOwn
<1>4. sh'[s] = Dead /\ nb'[s] = "none"
  BY <1>1 DEF IInv, TypeOK
<1>5. HandlersOwn'
  BY <1>0, <1>1, <1>3, <1>4 DEF IInv, HandlersOwn
<1>6. Registered'
  BY <1>0, <1>1, <1>3, <1>4 DEF IInv, HandlersOwn, Registered
<1>7. ListenerOwns'
  BY <1>0, <1>1 DEF IInv, TypeOK, ListenerOwns
<1>8. Owned'
  BY <1>0, <1>1, <1>3, <1>4 DEF IInv, TypeOK, Owned
<1>9. TimersOwned'
  BY <1>0, <1>1, <1>3, <1>4, OwnersApart DEF IInv, TimersOwned
<1> QED BY <1>2, <1>5, <1>6, <1>7, <1>8, <1>9 DEF IInv

\* Opening a handler: on the descriptor it has waited for, which is connected,
\* or on a new one.
LEMMA OpenKeeps ==
    ASSUME IInv, NEW s \in Svc, NEW f \in Fds,
           \/ /\ sh[s].st = "waiting" /\ sh[s].fd = f
              /\ sock[f] \in {"up", "down"} /\ sock' = sock
           \/ /\ sh[s].st = "none" /\ sock[f] = "closed"
              /\ sock' = [sock EXCEPT ![f] = "up"],
           sh' = [sh EXCEPT ![s] = [st |-> "open", fd |-> f]],
           reg' = [reg EXCEPT ![f] = Handler(s)],
           nb' = [nb EXCEPT ![s] = "none"], timers' = timers \ {Nbch(s)},
           data' = data, listener' = listener, failed' = FALSE
    PROVE  IInv'
<1> DEFINE r == [st |-> "open", fd |-> f]
<1>0. /\ listener # f /\ None \notin Fds
      /\ r \in [st : {"none", "new", "waiting", "open"}, fd : Fds \cup {None}]
      /\ r.st = "open" /\ r.fd = f
      /\ Handler(s) \in Services
  BY ConnectionsAssumption DEF IInv, TypeOK, HandlersOwn, ListenerOwns, Services
<1> HIDE DEF r
<1>1. /\ sh' = [sh EXCEPT ![s] = r] /\ reg' = [reg EXCEPT ![f] = Handler(s)]
      /\ sock'[f] \in {"up", "down"}
      /\ \A g \in Fds : g # f => sock'[g] = sock[g]
      /\ sock' \in [Fds -> {"closed", "connecting", "up", "down", "refused", "listening"}]
  BY DEF IInv, TypeOK, r
<1>2. TypeOK'
  <2>1. /\ reg' \in [Fds -> Attempts \cup Services \cup {Acceptor, Nobody}]
        /\ sh' \in [Svc -> [st : {"none", "new", "waiting", "open"}, fd : Fds \cup {None}]]
    BY <1>0, <1>1 DEF IInv, TypeOK
  <2>2. /\ nb' \in [Svc -> {"none", "plain", "timed"}]
        /\ timers' \in SUBSET (Attempts \cup Services)
        /\ listener' \in Fds \cup {None} /\ data' \in [Fds -> BOOLEAN]
    BY DEF IInv, TypeOK
  <2> QED BY <1>1, <2>1, <2>2 DEF TypeOK
<1>3. \A t \in Svc : t # s => /\ sh'[t] = sh[t] /\ nb'[t] = nb[t] /\ sh[t].fd # f
                              /\ sh[t].fd # None => /\ sock'[sh[t].fd] = sock[sh[t].fd]
                                                    /\ reg'[sh[t].fd] = reg[sh[t].fd]
  BY <1>0, <1>1 DEF IInv, TypeOK, HandlersOwn
<1>4. sh'[s] = r /\ nb'[s] = "none" /\ reg'[f] = Handler(s)
  BY <1>1 DEF IInv, TypeOK
<1>5. HandlersOwn'
  BY <1>0, <1>1, <1>3, <1>4 DEF IInv, HandlersOwn
<1>6. Registered'
  BY <1>0, <1>1, <1>3, <1>4 DEF IInv, HandlersOwn, Registered
<1>7. ListenerOwns'
  BY <1>0, <1>1 DEF IInv, TypeOK, ListenerOwns
<1>8. Owned'
  <2>1. ASSUME NEW g \in Fds, g # f PROVE sh[s].fd # g
    BY <2>1, <1>0 DEF IInv, HandlersOwn
  <2> QED BY <2>1, <1>0, <1>1, <1>3, <1>4 DEF IInv, TypeOK, Owned
<1>9. TimersOwned'
  BY <1>0, <1>1, <1>3, <1>4, OwnersApart DEF IInv, TimersOwned, HandlersOwn
<1> QED BY <1>2, <1>5, <1>6, <1>7, <1>8, <1>9 DEF IInv

\* Nobody owns a descriptor that is registered in vain: what is registered
\* leads to its owner.
LEMMA RegisteredLive ==
    ASSUME IInv, NEW f \in Fds
    PROVE  /\ reg[f] = Acceptor => listener = f
           /\ \A s : reg[f] = Nbch(s) => s \in Svc /\ sh[s].st = "waiting" /\ sh[s].fd = f
           /\ \A s : reg[f] = Handler(s) => s \in Svc /\ sh[s].st = "open" /\ sh[s].fd = f
           /\ reg[f].who = "nbch" => reg[f] = Nbch(reg[f].s)
           /\ reg[f].who = "handler" => reg[f] = Handler(reg[f].s)
<1>1. reg[f] # Nobody => \/ listener = f /\ reg[f] = Acceptor
                         \/ \E s \in Svc : /\ sh[s].fd = f
                                           /\ \/ reg[f] = Nbch(s) /\ sh[s].st = "waiting"
                                              \/ reg[f] = Handler(s) /\ sh[s].st = "open"
  <2>1. f # None
    BY ConnectionsAssumption
  <2> QED BY <2>1 DEF IInv, TypeOK, Owned, Registered, ListenerOwns, HandlersOwn
<1> QED BY <1>1, OwnersApart

\* A step that leaves sockets, objects and registrations alone.
LEMMA IdleKeeps ==
    ASSUME IInv, data' \in [Fds -> BOOLEAN],
           UNCHANGED <<sock, sh, nb, reg, timers, listener, failed>>
    PROVE  IInv'
BY DEF IInv, TypeOK, HandlersOwn, Registered, ListenerOwns, Owned, TimersOwned

-----------------------------------------------------------------------------
(* The inductive invariant.                                                *)

LEMMA InitIInv == Init => IInv
<1> SUFFICES ASSUME Init PROVE IInv
  OBVIOUS
<1>1. /\ sh \in [Svc -> [st : {"none", "new", "waiting", "open"}, fd : Fds \cup {None}]]
      /\ \A s \in Svc : sh[s].st = "none" /\ sh[s].fd = None
  BY DEF Init
<1>2. TypeOK
  BY <1>1 DEF Init, TypeOK
<1> QED BY <1>1, <1>2 DEF Init, IInv, HandlersOwn, Registered, ListenerOwns, Owned, TimersOwned

\* connect makes a socket and opens the handler, hands it to an attempt, or
\* closes the socket again.
LEMMA ConnectStep ==
    ASSUME IInv, NEW s \in Svc, NEW a, NEW ok \in BOOLEAN, Connect(s, a, ok)
    PROVE  IInv'
<1> DEFINE f == Lowest(FreeFds)
           r == [st |-> "new", fd |-> f]
<1>1. f \in Fds /\ sock[f] = "closed" /\ None \notin Fds /\ listener # f
  BY LowestIsFree, ConnectionsAssumption DEF Connect, FreeFds, IInv, ListenerOwns
<1>2. /\ sh[s].st = "none" /\ nb[s] = "none" /\ Nbch(s) \notin timers
      /\ nb = [nb EXCEPT ![s] = "none"] /\ timers = timers \ {Nbch(s)}
      /\ sh[s].fd = None /\ reg[f] = Nobody
  BY <1>1 DEF Connect, IInv, TypeOK, HandlersOwn, TimersOwned, Owned
<1>3. UNCHANGED <<data, nb, timers, listener, failed>>
  BY DEF Connect, history
<1>4. CASE /\ sock' = [sock EXCEPT ![f] = "up"]
           /\ sh' = [sh EXCEPT ![s] = [st |-> "open", fd |-> f]]
           /\ reg' = [reg EXCEPT ![f] = Handler(s)]
  <2> HIDE DEF f
  <2> QED BY <1>1, <1>2, <1>3, <1>4, OpenKeeps DEF IInv
<1>5. CASE /\ sock' = [sock EXCEPT ![f] = "connecting"]
           /\ sh' = [sh EXCEPT ![s] = r] /\ UNCHANGED reg
  <2>0. /\ r \in [st : {"none", "new", "waiting", "open"}, fd : Fds \cup {None}]
        /\ r.st = "new" /\ r.fd = f
    BY <1>1
  <2> HIDE DEF f, r
  <2>1. TypeOK'
    BY <2>0, <1>1, <1>3, <1>5 DEF IInv, TypeOK
  <2>2. sh'[s] = r
    BY <1>5 DEF IInv, TypeOK
  <2>3. \A t \in Svc : t # s => /\ sh'[t] = sh[t] /\ sh[t].fd # f
                                /\ sh[t].fd # None => sock'[sh[t].fd] = sock[sh[t].fd]
    BY <1>1, <1>5 DEF IInv, TypeOK, HandlersOwn
  <2>4. HandlersOwn'
    BY <2>0, <2>2, <2>3, <1>1, <1>2, <1>3, <1>5 DEF IInv, TypeOK, HandlersOwn
  <2>5. Registered'
    BY <2>0, <2>2, <2>3, <1>1, <1>2, <1>3, <1>5 DEF IInv, HandlersOwn, Registered
  <2>6. ListenerOwns'
    BY <1>1, <1>3, <1>5 DEF IInv, TypeOK, ListenerOwns
  <2>7. Owned'
    BY <2>0, <2>2, <2>3, <1>1, <1>2, <1>3, <1>5 DEF IInv, TypeOK, Owned
  <2>8. TimersOwned'
    BY <2>0, <2>2, <2>3, <1>2, <1>3 DEF IInv, TimersOwned
  <2> QED BY <2>1, <2>4, <2>5, <2>6, <2>7, <2>8, <1>3 DEF IInv
<1>6. CASE UNCHANGED <<sock, sh, reg>>
  BY <1>3, <1>6, IdleKeeps DEF IInv, TypeOK
<1> QED BY <1>4, <1>5, <1>6 DEF Connect

\* nonblocking_connect registers the attempt and schedules its timer.
LEMMA NonblockingStep ==
    ASSUME IInv, NEW s \in Svc, NEW timeout \in BOOLEAN, nonblocking_connect(s, timeout)
    PROVE  IInv'
<1> DEFINE f == sh[s].fd
           r == [sh[s] EXCEPT !.st = "waiting"]
<1>1. /\ f \in Fds /\ f # None /\ listener # f /\ sock[f] # "closed" /\ nb[s] = "none"
      /\ sh[s].st = "new"
  BY ConnectionsAssumption DEF nonblocking_connect, IInv, TypeOK, HandlersOwn, ListenerOwns
<1>2. /\ r \in [st : {"none", "new", "waiting", "open"}, fd : Fds \cup {None}]
      /\ r.st = "waiting" /\ r.fd = f
  BY DEF IInv, TypeOK
<1>3. /\ sh' = [sh EXCEPT ![s] = r]
      /\ nb' = [nb EXCEPT ![s] = IF timeout THEN "timed" ELSE "plain"]
      /\ reg' = [reg EXCEPT ![f] = Nbch(s)]
      /\ timers' = IF timeout THEN timers \cup {Nbch(s)} ELSE timers
      /\ UNCHANGED <<sock, data, listener, failed>>
  BY DEF nonblocking_connect, kernel, history, IInv, TypeOK
<1> HIDE DEF r, f
<1>4. TypeOK'
  <2>1. Nbch(s) \in Attempts
    BY DEF Attempts
  <2>2. timers' \in SUBSET (Attempts \cup Services)
    BY <2>1, <1>3 DEF IInv, TypeOK
  <2>3. /\ reg' \in [Fds -> Attempts \cup Services \cup {Acceptor, Nobody}]
        /\ sh' \in [Svc -> [st : {"none", "new", "waiting", "open"}, fd : Fds \cup {None}]]
    BY <2>1, <1>1, <1>2, <1>3 DEF IInv, TypeOK
  <2>4. nb' \in [Svc -> {"none", "plain", "timed"}]
    BY <1>3 DEF IInv, TypeOK
  <2> QED BY <2>2, <2>3, <2>4, <1>3 DEF IInv, TypeOK
<1>5. /\ sh'[s] = r /\ reg'[f] = Nbch(s)
      /\ nb'[s] = IF timeout THEN "timed" ELSE "plain"
  BY <1>1, <1>3 DEF IInv, TypeOK
<1>6. \A t \in Svc : t # s => /\ sh'[t] = sh[t] /\ nb'[t] = nb[t] /\ sh[t].fd # f
                              /\ sh[t].fd # None => reg'[sh[t].fd] = reg[sh[t].fd]
  BY <1>1, <1>3 DEF IInv, TypeOK, HandlersOwn, f
<1>7. HandlersOwn'
  BY <1>1, <1>2, <1>3, <1>5, <1>6 DEF IInv, HandlersOwn, f
<1>8. Registered'
  BY <1>1, <1>2, <1>3, <1>5, <1>6 DEF IInv, HandlersOwn, Registered, f
<1>9. ListenerOwns'
  BY <1>1, <1>3 DEF IInv, TypeOK, ListenerOwns
<1>10. Owned'
  BY <1>1, <1>2, <1>3, <1>5, <1>6 DEF IInv, TypeOK, Owned, f
<1>11. TimersOwned'
  BY <1>1, <1>2, <1>3, <1>5, <1>6, OwnersApart DEF IInv, TimersOwned
<1> QED BY <1>4, <1>7, <1>8, <1>9, <1>10, <1>11, <1>3 DEF IInv

\* The end of an attempt finds its timer and its registration: the assertions
\* on cancel_timer and remove_handler hold.
LEMMA DoneFinds ==
    ASSUME IInv, NEW s \in Svc, sh[s].st = "waiting"
    PROVE  /\ NbchDone(s) => nb' = [nb EXCEPT ![s] = "none"] /\ failed' = FALSE
           /\ \A tm : NbchClose(s, FALSE, tm) => nb' = [nb EXCEPT ![s] = "none"] /\ failed' = FALSE
           /\ LeftTimers(s) \ {Handler(s)} = timers \ {Nbch(s), Handler(s)}
           /\ LeftTimers(s) = timers \ {Nbch(s)}
<1>1. /\ reg[sh[s].fd] = Nbch(s) /\ failed = FALSE
      /\ nb[s] = "timed" => Nbch(s) \in timers
  BY DEF IInv, Registered, TimersOwned
<1> QED BY <1>1 DEF NbchDone, NbchClose, LeftTimers

\* An open handler is closed: by its user, by its own timer, by an event.
LEMMA CloseOpen ==
    ASSUME IInv, NEW s \in Svc, sh[s].st \in {"open", "new"}, NEW tm, shutdown(s, tm),
           tm = timers \/ tm = timers \ {Handler(s)},
           UNCHANGED <<nb, listener, failed>>
    PROVE  IInv'
<1>1. nb[s] = "none" /\ Nbch(s) \notin timers
  BY DEF IInv, TypeOK, HandlersOwn, TimersOwned
<1>2. nb' = [nb EXCEPT ![s] = "none"]
  BY <1>1 DEF IInv, TypeOK
<1>3. failed' = FALSE /\ sh[s].st # "none"
  BY DEF IInv
<1>4. tm \ {Handler(s)} = timers \ {Nbch(s), Handler(s)}
  BY <1>1
<1> QED BY <1>2, <1>3, <1>4, ShutdownKeeps

\* The reactor refuses an attempt or its timer: the handler is closed, and what
\* belongs to it goes.  (A second close follows the refusal of the timer: it is
\* not a step of the specification.)
LEMMA RefusedStep ==
    ASSUME IInv, NEW s \in Svc, NEW what, nonblocking_refused(s, what)
    PROVE  IInv'
BY CloseOpen DEF nonblocking_refused

\* A svc_handler schedules a timer of its own.
LEMMA ScheduleStep ==
    ASSUME IInv, NEW s \in Svc, Schedule(s)
    PROVE  IInv'
<1>1. /\ sh[s].st = "open" /\ timers' = timers \cup {Handler(s)}
      /\ UNCHANGED <<sock, data, sh, nb, reg, listener, failed>>
  BY DEF Schedule, kernel, objects, history
<1>2. TypeOK'
  <2>1. Handler(s) \in Services
    BY DEF Services
  <2> QED BY <2>1, <1>1 DEF IInv, TypeOK
<1>3. TimersOwned'
  BY <1>1, OwnersApart DEF IInv, TimersOwned
<1> QED BY <1>1, <1>2, <1>3 DEF IInv, HandlersOwn, Registered, ListenerOwns, Owned

\* The timer of an attempt, or of a handler, comes due.
LEMMA TimeoutStep ==
    ASSUME IInv, NEW t \in timers, Timeout(t)
    PROVE  IInv'
<1>1. (\E s \in Svc : t = Nbch(s)) \/ (\E s \in Svc : t = Handler(s))
  BY DEF IInv, TypeOK, Attempts, Services
<1>2. ASSUME NEW s \in Svc, t = Nbch(s) PROVE IInv'
  <2>1. nb[s] = "timed" /\ sh[s].st = "waiting" /\ Handler(s) \notin timers
    BY <1>2 DEF IInv, HandlersOwn, TimersOwned
  <2>2. t.who = "nbch" /\ t.s = s
    BY <1>2, OwnersApart
  <2>3. NbchClose(s, FALSE, timers \ {t}) /\ shutdown(s, timers \ {t}) /\ listener' = listener
    BY <2>2 DEF Timeout, nbch_handle_timeout
  <2>4. nb' = [nb EXCEPT ![s] = "none"] /\ failed' = FALSE
    BY <2>1, <2>3, DoneFinds
  <2>5. (timers \ {t}) \ {Handler(s)} = timers \ {Nbch(s), Handler(s)} /\ sh[s].st # "none"
    BY <1>2, <2>1
  <2> QED BY <2>3, <2>4, <2>5, ShutdownKeeps
<1>3. ASSUME NEW s \in Svc, t = Handler(s) PROVE IInv'
  <2>1. sh[s].st = "open"
    BY <1>3 DEF IInv, TimersOwned
  <2>2. t.who = "handler" /\ t.s = s
    BY <1>3, OwnersApart
  <2>3. shutdown(s, timers \ {t}) /\ UNCHANGED <<nb, failed, listener>>
    BY <2>2 DEF Timeout, history
  <2> QED BY <1>3, <2>1, <2>3, CloseOpen
<1> QED BY <1>1, <1>2, <1>3

\* The acceptor makes, and registers, a listening socket.
LEMMA AcceptorOpenStep ==
    ASSUME IInv, NEW ok \in BOOLEAN, AcceptorOpen(ok)
    PROVE  IInv'
<1> DEFINE f == Lowest(FreeFds)
<1>1. f \in Fds /\ sock[f] = "closed" /\ None \notin Fds
  BY LowestIsFree, ConnectionsAssumption DEF AcceptorOpen, FreeFds
<1>2. listener = None /\ UNCHANGED <<data, sh, nb, timers, failed>>
  BY DEF AcceptorOpen, objects, history
<1>3. \A s \in Svc : sh[s].fd # f
  BY <1>1 DEF IInv, HandlersOwn
<1>4. CASE /\ sock' = [sock EXCEPT ![f] = "listening"]
           /\ reg' = [reg EXCEPT ![f] = Acceptor] /\ listener' = f
  <2> HIDE DEF f
  <2>1. TypeOK'
    BY <1>1, <1>2, <1>4 DEF IInv, TypeOK
  <2>2. \A s \in Svc : sh[s].fd # None => /\ sock'[sh[s].fd] = sock[sh[s].fd]
                                          /\ reg'[sh[s].fd] = reg[sh[s].fd]
    BY <1>1, <1>3, <1>4 DEF IInv, TypeOK
  <2>3. HandlersOwn' /\ Registered'
    BY <2>2, <1>2 DEF IInv, HandlersOwn, Registered
  <2>4. ListenerOwns'
    BY <1>1, <1>4 DEF IInv, TypeOK, ListenerOwns
  <2>5. Owned'
    BY <1>1, <1>2, <1>4 DEF IInv, TypeOK, Owned
  <2> QED BY <2>1, <2>3, <2>4, <2>5, <1>2 DEF IInv, TimersOwned
<1>5. CASE UNCHANGED <<sock, reg, listener>>
  BY <1>2, <1>5, IdleKeeps DEF IInv, TypeOK
<1> QED BY <1>4, <1>5 DEF AcceptorOpen

\* The acceptor closes.
LEMMA AcceptorCloseStep ==
    ASSUME IInv, listener # None, acceptor_handle_close, UNCHANGED <<sh, nb, timers, failed>>
    PROVE  IInv'
<1>1. /\ listener \in Fds /\ None \notin Fds
      /\ reg' = [reg EXCEPT ![listener] = Nobody]
      /\ sock' = [sock EXCEPT ![listener] = "closed"] /\ listener' = None /\ data' = data
  BY ConnectionsAssumption DEF acceptor_handle_close, IInv, TypeOK
<1>2. TypeOK'
  BY <1>1 DEF IInv, TypeOK
<1>3. \A s \in Svc : sh[s].fd # None => /\ sh[s].fd # listener
                                        /\ sock'[sh[s].fd] = sock[sh[s].fd]
                                        /\ reg'[sh[s].fd] = reg[sh[s].fd]
  BY <1>1 DEF IInv, TypeOK, HandlersOwn, ListenerOwns
<1>4. HandlersOwn' /\ Registered'
  BY <1>3 DEF IInv, HandlersOwn, Registered
<1>5. ListenerOwns' /\ Owned'
  BY <1>1 DEF IInv, TypeOK, ListenerOwns, Owned
<1> QED BY <1>2, <1>4, <1>5 DEF IInv, TimersOwned

\* An attempt's event: the connection is there, or it is not.
LEMMA DispatchConnectStep ==
    ASSUME IInv, NEW f \in Fds, NEW ok \in BOOLEAN, DispatchConnect(f, ok)
    PROVE  IInv'
<1> DEFINE s == reg[f].s
<1>1. s \in Svc /\ sh[s].st = "waiting" /\ sh[s].fd = f /\ sh[s].st # "none"
  BY RegisteredLive DEF DispatchConnect
<1>2. listener' = listener
  BY DEF DispatchConnect
<1>3. ConnectFailed(s) \/ init_svc_handler(s, ok)
  BY DEF DispatchConnect
<1> HIDE DEF s
<1>4. NbchDone(s)
  BY <1>3 DEF ConnectFailed, init_svc_handler
<1>5. /\ nb' = [nb EXCEPT ![s] = "none"] /\ failed' = FALSE
      /\ LeftTimers(s) \ {Handler(s)} = timers \ {Nbch(s), Handler(s)}
      /\ LeftTimers(s) = timers \ {Nbch(s)}
  BY <1>1, <1>4, DoneFinds
<1>6. CASE shutdown(s, LeftTimers(s))
  BY <1>1, <1>2, <1>5, <1>6, ShutdownKeeps
<1>7. CASE /\ sh' = [sh EXCEPT ![s] = [st |-> "open", fd |-> f]]
           /\ reg' = [reg EXCEPT ![f] = Handler(s)] /\ timers' = LeftTimers(s)
           /\ UNCHANGED <<sock, data>> /\ sock[f] \in {"up", "down"}
  BY <1>1, <1>2, <1>5, <1>7, OpenKeeps
<1> QED BY <1>1, <1>3, <1>6, <1>7 DEF ConnectFailed, init_svc_handler, OpenHook

\* An open handler's event.
LEMMA DispatchHandlerStep ==
    ASSUME IInv, NEW f \in Fds, NEW ok \in BOOLEAN, DispatchHandler(f, ok)
    PROVE  IInv'
<1>1. reg[f].s \in Svc /\ sh[reg[f].s].st = "open"
  BY RegisteredLive DEF DispatchHandler
<1>2. UNCHANGED <<nb, listener, failed>>
  BY DEF DispatchHandler, history
<1>3. \/ data' = [data EXCEPT ![f] = FALSE] /\ UNCHANGED <<sock, sh, reg, timers>>
      \/ shutdown(reg[f].s, timers)
  BY DEF DispatchHandler
<1>4. CASE data' = [data EXCEPT ![f] = FALSE] /\ UNCHANGED <<sock, sh, reg, timers>>
  <2>1. data' \in [Fds -> BOOLEAN]
    BY <1>4 DEF IInv, TypeOK
  <2> QED BY <2>1, <1>2, <1>4, IdleKeeps
<1>5. CASE shutdown(reg[f].s, timers)
  BY <1>1, <1>2, <1>5, CloseOpen
<1> QED BY <1>3, <1>4, <1>5

\* The acceptor's event: a connection is taken, or the acceptor closes.
LEMMA DispatchAcceptorStep ==
    ASSUME IInv, NEW f \in Fds, NEW ok \in BOOLEAN, DispatchAcceptor(f, ok)
    PROVE  IInv'
<1>1. listener = f /\ listener # None
  BY RegisteredLive, ConnectionsAssumption DEF DispatchAcceptor
<1>2. UNCHANGED <<nb, timers, failed>>
  BY DEF DispatchAcceptor, history
<1>3. CASE UNCHANGED <<kernel, sh, reg, listener>>
  BY <1>2, <1>3, IdleKeeps DEF IInv, TypeOK, kernel
<1>4. CASE /\ FreeFds # {} /\ \E s \in Svc : sh[s].st = "none"
           /\ acceptor_handle_input(ok) /\ UNCHANGED listener
  <2> DEFINE g == Lowest(FreeFds)
             s == CHOOSE x \in Svc : sh[x].st = "none"
  <2>1. g \in Fds /\ sock[g] = "closed"
    BY <1>4, LowestIsFree DEF FreeFds
  <2>2. s \in Svc /\ sh[s].st = "none"
    BY <1>4
  <2>3. UNCHANGED <<data, listener>>
    BY <1>4 DEF acceptor_handle_input
  <2>4. \/ /\ sh' = [sh EXCEPT ![s] = [st |-> "open", fd |-> g]]
           /\ reg' = [reg EXCEPT ![g] = Handler(s)] /\ sock' = [sock EXCEPT ![g] = "up"]
        \/ UNCHANGED <<sh, reg, sock>>
    BY <1>4 DEF acceptor_handle_input
  <2> HIDE DEF g, s
  <2>5. /\ nb' = [nb EXCEPT ![s] = "none"] /\ timers' = timers \ {Nbch(s)} /\ failed' = FALSE
    BY <2>2, <1>2 DEF IInv, TypeOK, HandlersOwn, TimersOwned
  <2>6. CASE UNCHANGED <<sh, reg, sock>>
    BY <2>3, <2>6, <1>2, IdleKeeps DEF IInv, TypeOK
  <2>7. CASE /\ sh' = [sh EXCEPT ![s] = [st |-> "open", fd |-> g]]
             /\ reg' = [reg EXCEPT ![g] = Handler(s)] /\ sock' = [sock EXCEPT ![g] = "up"]
    BY <2>1, <2>2, <2>3, <2>5, <2>7, OpenKeeps
  <2> QED BY <2>4, <2>6, <2>7
<1>5. CASE acceptor_handle_close /\ UNCHANGED sh
  BY <1>1, <1>2, <1>5, AcceptorCloseStep
<1> QED BY <1>3, <1>4, <1>5 DEF DispatchAcceptor

\* The peer answers, refuses, sends or hangs up.
LEMMA PeerStep ==
    ASSUME IInv, Peer
    PROVE  IInv'
<1>1. UNCHANGED <<sh, nb, reg, timers, listener, failed>>
  BY DEF Peer, objects, reactor, history
<1>2. ASSUME NEW f \in Fds, NEW x \in {"up", "down", "refused"},
             sock[f] = "connecting" \/ (sock[f] = "up" /\ x = "down"),
             sock' = [sock EXCEPT ![f] = x], data' = data
      PROVE  IInv'
  <2>1. TypeOK'
    BY <1>1, <1>2 DEF IInv, TypeOK
  <2>2. /\ \A g \in Fds : g # f => sock'[g] = sock[g]
        /\ sock'[f] = x
    BY <1>2 DEF IInv, TypeOK
  <2>3. \A s \in Svc : sh[s].fd # None => sh[s].fd \in Fds
    BY DEF IInv, TypeOK
  <2>4. HandlersOwn'
    BY <2>2, <2>3, <1>1, <1>2 DEF IInv, HandlersOwn
  <2>5. Registered'
    BY <2>2, <2>3, <1>1, <1>2 DEF IInv, HandlersOwn, Registered
  <2>6. ListenerOwns' /\ Owned'
    BY <2>2, <1>1, <1>2 DEF IInv, TypeOK, ListenerOwns, Owned
  <2> QED BY <2>1, <2>4, <2>5, <2>6, <1>1 DEF IInv, TimersOwned
<1>3. CASE sock' = sock /\ data' \in [Fds -> BOOLEAN]
  BY <1>1, <1>3, IdleKeeps
<1>4. \A f \in Fds : [data EXCEPT ![f] = TRUE] \in [Fds -> BOOLEAN]
  BY DEF IInv, TypeOK
<1> QED BY <1>2, <1>3, <1>4 DEF Peer, IInv, TypeOK

LEMMA NextIInv ==
    ASSUME IInv, [Next]_vars
    PROVE  IInv'
<1>0. data \in [Fds -> BOOLEAN] /\ \A s : sh[s].st = "open" => sh[s].st \in {"open", "new"}
  BY DEF IInv, TypeOK
<1>1. CASE Reactor
  <2>1. CASE Poll \/ TimersDone \/ Return \/ \E f \in Fds : DispatchNobody(f)
    BY <2>1, <1>0, IdleKeeps DEF Poll, TimersDone, Return, DispatchNobody, kernel, objects,
                             history
  <2> QED BY <1>1, <2>1, TimeoutStep, DispatchConnectStep, DispatchHandlerStep,
             DispatchAcceptorStep DEF Reactor
<1>2. CASE User
  <2>1. ASSUME NEW s \in Svc, Close(s) \/ ConnectPolls(s) PROVE IInv'
    BY <2>1, CloseOpen DEF Close, ConnectPolls, history
  <2>2. CASE AcceptorClose
    BY <2>2, AcceptorCloseStep DEF AcceptorClose, objects, history
  <2>3. ASSUME NEW s \in Svc, NEW what, nonblocking_refused(s, what) PROVE IInv'
    BY <2>3, RefusedStep
  <2> QED BY <1>2, <2>1, <2>2, <2>3, ConnectStep, NonblockingStep, ScheduleStep,
             AcceptorOpenStep DEF User
<1>3. CASE UNCHANGED vars
  BY <1>3, <1>0, IdleKeeps DEF vars, kernel, objects, reactor, history
<1> QED BY <1>1, <1>2, <1>3, PeerStep DEF Next, Ended

\* The life of sockets, handlers, attempts, registrations and timers agrees at
\* every moment, also when the reactor has refused an attempt or its timer: the
\* invariant the results below are read off from.  The behaviours it speaks of
\* end where a handler is closed that has been deleted (nonblocking_connect, the
\* refused timer).
THEOREM ConnectionsInvariant == Spec => []IInv
<1>1. IInv /\ [Next]_vars => IInv'
  BY NextIInv
<1> QED BY <1>1, InitIInv, PTL DEF Spec

-----------------------------------------------------------------------------
(* The results.                                                            *)

\* No descriptor is lost or owned twice, however a connection attempt ends,
\* refused by the peer or by the reactor, for any number of handlers and
\* descriptors (NoLeak); but for the second close of a handler whose timer was
\* refused (ClosedOnce is false of the code).
THEOREM NothingLeaks == Spec => []NoLeak
<1>1. ASSUME IInv, NEW f \in Fds, sock[f] # "closed"
      PROVE  Cardinality({s \in Svc : sh[s].fd = f}) + (IF listener = f THEN 1 ELSE 0) = 1
  <2> DEFINE S == {s \in Svc : sh[s].fd = f}
  <2>0. f # None
    BY ConnectionsAssumption
  <2>1. CASE listener = f
    <3>1. S = {}
      BY <2>0, <2>1, <1>1 DEF IInv, HandlersOwn, ListenerOwns
    <3>2. Cardinality(S) = 0
      BY <3>1, FS_EmptySet
    <3> QED BY <2>1, <3>2
  <2>2. CASE listener # f
    <3>1. PICK s \in Svc : sh[s].fd = f
      BY <2>2, <1>1 DEF IInv, Owned
    <3>2. S = {s}
      BY <3>1, <2>0, <1>1 DEF IInv, HandlersOwn
    <3>3. Cardinality(S) = 1
      BY <3>2, FS_Singleton
    <3> QED BY <2>2, <3>3
  <2> QED BY <2>1, <2>2
<1>2. IInv => NoLeak
  BY <1>1 DEF NoLeak
<1> QED BY <1>2, ConnectionsInvariant, PTL

\* The reactor only calls live objects that own the descriptor, handlers are
\* opened on connections that were made, and the assertions in the callbacks of
\* the connection attempts hold, for any number of handlers (CallbacksSound).
\* What is left out is what follows the second close of a handler whose timer
\* the reactor refused.
THEOREM CallbacksAreSound == Spec => []CallbacksSound
<1>1. ASSUME IInv PROVE CallsTheLiving
  <2>1. ASSUME NEW f \in Fds
        PROVE  /\ reg[f] = Acceptor => listener = f
               /\ reg[f].who = "nbch" => nb[reg[f].s] # "none" /\ sh[reg[f].s].fd = f
               /\ reg[f].who = "handler" => sh[reg[f].s] = [st |-> "open", fd |-> f]
    <3>1. ASSUME reg[f].who = "nbch" PROVE nb[reg[f].s] # "none" /\ sh[reg[f].s].fd = f
      <4>1. reg[f].s \in Svc /\ sh[reg[f].s].st = "waiting" /\ sh[reg[f].s].fd = f
        BY <1>1, <3>1, RegisteredLive
      <4> QED BY <1>1, <4>1 DEF IInv, HandlersOwn
    <3>2. ASSUME reg[f].who = "handler" PROVE sh[reg[f].s] = [st |-> "open", fd |-> f]
      <4>1. reg[f].s \in Svc /\ sh[reg[f].s].st = "open" /\ sh[reg[f].s].fd = f
        BY <1>1, <3>2, RegisteredLive
      <4>2. sh[reg[f].s] \in [st : {"none", "new", "waiting", "open"}, fd : Fds \cup {None}]
        BY <1>1, <4>1 DEF IInv, TypeOK
      <4> QED BY <4>1, <4>2
    <3> QED BY <1>1, <3>1, <3>2, RegisteredLive
  <2>2. ASSUME NEW t \in timers
        PROVE  IF t.who = "nbch" THEN nb[t.s] = "timed" ELSE sh[t.s].st = "open"
    <3>1. \E s \in Svc : t = Nbch(s) \/ t = Handler(s)
      BY <1>1 DEF IInv, TypeOK, Attempts, Services
    <3> QED BY <1>1, <3>1, OwnersApart DEF IInv, TimersOwned
  <2> QED BY <2>1, <2>2 DEF CallsTheLiving
<1>2. IInv => OpenIsConnected /\ NoAbort
  BY DEF IInv, Registered, OpenIsConnected, NoAbort
<1>3. IInv => CallbacksSound
  BY <1>1, <1>2 DEF CallbacksSound
<1> QED BY <1>3, ConnectionsInvariant, PTL
=============================================================================

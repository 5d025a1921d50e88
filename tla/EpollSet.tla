------------------------------ MODULE EpollSet ------------------------------
(***************************************************************************)
(* The interest set of epoll_reactor (ndk/epoll_reactor.cpp) as a value: a *)
(* function from handles to the epoll events asked for, or Absent.         *)
(***************************************************************************)
EXTENDS Naturals

CONSTANT Absent        \* the handle is not in the epoll set

ASSUME AbsentAssumption == \A s \in SUBSET {"IN", "OUT", "PRI"} : Absent # s

\* reactor_mask_to_epoll_event, for a set of reactor masks.
reactor_mask_to_epoll_event(m) ==
    (IF m \cap {"read", "accept", "connect"} # {} THEN {"IN"} ELSE {})
        \cup (IF m \cap {"write", "connect"} # {} THEN {"OUT"} ELSE {})
        \cup (IF "except" \in m THEN {"PRI"} ELSE {})

\* EPOLL_CTL_ADD.  EEXIST counts as success and changes nothing; a closed
\* handle (EBADF) and a kernel that refuses (ENOSPC, ENOMEM) are failures.
ctl_add(es, open, h, m, refused) ==
    IF open /\ es[h] # Absent THEN [set |-> es, ok |-> TRUE]
    ELSE IF ~open \/ refused THEN [set |-> es, ok |-> FALSE]
    ELSE [set |-> [es EXCEPT ![h] = reactor_mask_to_epoll_event(m)], ok |-> TRUE]

\* EPOLL_CTL_MOD.  ENOENT is retried as an add, any other error is ignored.
ctl_mod(es, open, h, m, refused) ==
    IF ~open THEN [set |-> es, ok |-> TRUE]
    ELSE IF es[h] = Absent THEN ctl_add(es, open, h, m, refused)
    ELSE [set |-> [es EXCEPT ![h] = reactor_mask_to_epoll_event(m)], ok |-> TRUE]

\* EPOLL_CTL_DEL.  ENOENT counts as success, EBADF does not.
ctl_del(es, open, h) == [set |-> IF open THEN [es EXCEPT ![h] = Absent] ELSE es, ok |-> open]

\* epoll_reactor_base::handle_opt_i.  open: the descriptor h is open.
epoll_handle_opt_i(es, open, h, m, opt, refused) ==
    CASE opt = "add_mask" -> ctl_add(es, open, h, m, refused)
      [] opt = "set_mask" -> ctl_mod(es, open, h, m, refused)
      [] opt = "clr_mask" -> ctl_del(es, open, h)
============================================================================

----------------------------- MODULE SelectLists -----------------------------
(***************************************************************************)
(* The three lists of handles of select_reactor (ndk/select_reactor.cpp    *)
(* and .inl) as a value, node by node:                                     *)
(*   head    handle_list_rd_, handle_list_wr_, handle_list_ex_             *)
(*   handle  select_handle::handle     next  select_handle::next           *)
(*   free    free_node_                                                    *)
(***************************************************************************)
EXTENDS Integers, Sequences

CONSTANTS
    Nodes       \* 1 .. n: the select_handle objects made by open_i

Null   == 0     \* a null pointer
NoFd   == -1    \* NDK_INVALID_HANDLE
Kinds  == {"rd", "wr", "ex"}

\* open_i: every node is in the free list.
EmptyLists ==
    [head   |-> [k \in Kinds |-> Null],
     handle |-> [n \in Nodes |-> NoFd],
     next   |-> [n \in Nodes |-> IF n + 1 \in Nodes THEN n + 1 ELSE Null],
     free   |-> 1]

\* The nodes from n on, in order.
Chain(l, n) ==
    LET c[m \in Nodes \cup {Null}] == IF m = Null THEN <<>> ELSE <<m>> \o c[l.next[m]]
    IN  c[n]

Members(l, k) == LET c == Chain(l, l.head[k]) IN {l.handle[c[i]] : i \in DOMAIN c}

\* append_handle with alloc_handle: nothing if the handle is in the list, else
\* the first free node goes to the head.
append_handle(l, h, k) ==
    IF h \in Members(l, k) THEN l
    ELSE LET n == l.free
         IN  [head   |-> [l.head EXCEPT ![k] = n],
              handle |-> [l.handle EXCEPT ![n] = h],
              next   |-> [l.next EXCEPT ![n] = l.head[k]],
              free   |-> l.next[n]]

\* release_handle.
release_handle(l, n) ==
    [head   |-> l.head,
     handle |-> [l.handle EXCEPT ![n] = NoFd],
     next   |-> [l.next EXCEPT ![n] = l.free],
     free   |-> n]

\* The place of the first node of the list c with the handle, 0 if none has it.
place_of(l, c, h) ==
    LET at == {j \in DOMAIN c : l.handle[c[j]] = h}
    IN  IF at = {} THEN 0 ELSE CHOOSE j \in at : \A x \in at : j <= x

\* The list c of kind k without its i-th node.
unlink(l, k, c, i) ==
    IF i = 1 THEN [l EXCEPT !.head[k] = l.next[c[i]]]
    ELSE [l EXCEPT !.next[c[i - 1]] = l.next[c[i]]]

\* remove_handle, with the test of the callers for an empty list: the first
\* node with the handle is unlinked and released.
remove_handle(l, h, k) ==
    LET c == Chain(l, l.head[k])
        i == place_of(l, c, h)
    IN  IF i = 0 THEN l ELSE release_handle(unlink(l, k, c, i), c[i])

\* The lists a mask belongs to.
ListsOf(m) ==
    (IF m \cap {"read", "accept", "connect"} # {} THEN {"rd"} ELSE {})
        \cup (IF m \cap {"write", "connect"} # {} THEN {"wr"} ELSE {})
        \cup (IF "except" \in m THEN {"ex"} ELSE {})

\* select_reactor_base::handle_opt_i: an empty mask clears; set_mask takes the
\* handle out of the lists the mask does not name.
select_handle_opt_i(l, h, m, opt) ==
    LET clears == m = {}
        add(x, k) == IF k \in ListsOf(m) THEN append_handle(x, h, k) ELSE x
        del(x, k) == IF clears \/ (opt # "add_mask" /\ k \notin ListsOf(m))
                     THEN remove_handle(x, h, k) ELSE x
    IN  add(add(add(del(del(del(l, "rd"), "wr"), "ex"), "rd"), "wr"), "ex")
============================================================================

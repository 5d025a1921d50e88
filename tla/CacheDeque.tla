----------------------------- MODULE CacheDeque -----------------------------
(***************************************************************************)
(* ndk::cache_deque (ndk/cache_deque.h), the order in which cache_manager  *)
(* evicts: a doubly linked list through the items, with a free list that   *)
(* uses the same next() field.  The callers hold cache_mutex_.             *)
(***************************************************************************)
EXTENDS Integers, Sequences, SequencesExt

CONSTANTS
    Items,        \* cache_deque_items
    Null

VARIABLES
    deque_head,   \* deque_head_
    deque_tail,   \* deque_tail_
    free_queue,   \* free_queue_
    dq_size,      \* size_
    dq_next,      \* dq_next[i]: i->next()
    dq_prev,      \* dq_prev[i]: i->prev()
    made          \* items that new has made

vars == <<deque_head, deque_tail, free_queue, dq_size, dq_next, dq_prev, made>>

Init ==
    /\ deque_head = Null /\ deque_tail = Null /\ free_queue = Null
    /\ dq_size = 0
    /\ dq_next = [i \in Items |-> Null] /\ dq_prev = [i \in Items |-> Null]
    /\ made = {}

\* The list as a value: head, tail and both links.
List == [head |-> deque_head, tail |-> deque_tail, next |-> dq_next, prev |-> dq_prev]
Becomes(l) ==
    /\ deque_head' = l.head /\ deque_tail' = l.tail
    /\ dq_next' = l.next /\ dq_prev' = l.prev

\* insert_i at the tail; the item's own next() is left as it is.
insert_i(l, i) ==
    [head |-> IF l.head = Null THEN i ELSE l.head,
     tail |-> i,
     next |-> IF l.tail = Null THEN l.next ELSE [l.next EXCEPT ![l.tail] = i],
     prev |-> [l.prev EXCEPT ![i] = l.tail]]

\* Mutant: an item at the tail is left out of account.
remove_i_no_tail(l, i) ==
    LET n == l.next[i]
        p == l.prev[i]
    IN  CASE n # Null /\ p # Null -> [l EXCEPT !.next[p] = n, !.prev[n] = p]
          [] n # Null /\ p = Null -> [l EXCEPT !.head = n, !.prev[n] = Null]
          [] n = Null /\ p # Null -> [l EXCEPT !.next[p] = Null]
          [] OTHER -> [l EXCEPT !.head = Null, !.tail = Null]

\* remove_i: the place is told by the item's own links.
remove_i(l, i) ==
    LET n == l.next[i]
        p == l.prev[i]
    IN  CASE n # Null /\ p # Null -> [l EXCEPT !.next[p] = n, !.prev[n] = p]
          [] n # Null /\ p = Null -> [l EXCEPT !.head = n, !.prev[n] = Null]
          [] n = Null /\ p # Null -> [l EXCEPT !.tail = p, !.next[p] = Null]
          [] OTHER -> [l EXCEPT !.head = Null, !.tail = Null]

Chain(from, link) ==
    LET step[k \in 0 .. Cardinality(Items)] ==
            IF k = 0 THEN (IF from = Null THEN <<>> ELSE <<from>>)
            ELSE LET c == step[k - 1]
                 IN  IF c = <<>> \/ link[c[Len(c)]] = Null THEN c ELSE Append(c, link[c[Len(c)]])
    IN  step[Cardinality(Items)]

Order == Chain(deque_head, dq_next)

\* alloc_item: an item of the free list, or a new one.
alloc_item(i) ==
    /\ IF free_queue # Null THEN i = free_queue ELSE i \notin made
    /\ made' = made \cup {i}
    /\ free_queue' = IF free_queue = Null THEN Null ELSE dq_next[i]

release_item(l, i) ==
    /\ Becomes([l EXCEPT !.next[i] = free_queue])
    /\ free_queue' = i
    /\ UNCHANGED made

\* insert: the links of the item are reset.
insert(i) ==
    /\ alloc_item(i)
    /\ Becomes(insert_i([List EXCEPT !.next[i] = Null, !.prev[i] = Null], i))
    /\ dq_size' = dq_size + 1

\* remove, of the first item or of the one an object's proxy names.
remove(i) ==
    /\ Contains(Order, i)
    /\ release_item(remove_i(List, i), i)
    /\ dq_size' = dq_size - 1

\* Mutant: next() still names the item's old successor.
adjust_keeps_next(i) ==
    /\ Contains(Order, i)
    /\ Becomes(insert_i(remove_i(List, i), i))
    /\ UNCHANGED <<free_queue, dq_size, made>>

\* adjust: the item goes to the end.
adjust(i) ==
    /\ Contains(Order, i)
    /\ Becomes(insert_i([remove_i(List, i) EXCEPT !.next[i] = Null], i))
    /\ UNCHANGED <<free_queue, dq_size, made>>

Next == \E i \in Items : insert(i) \/ remove(i) \/ adjust(i)

Spec == Init /\ [][Next]_vars

----------------------------------------------------------------------------
(* Properties.                                                             *)

\* Both directions name the same items, size_ counts them, and every other
\* item that was made waits in the free list: none is lost, none is in both.
LinkedBothWays ==
    /\ Chain(deque_tail, dq_prev) = Reverse(Order)
    /\ dq_size = Len(Order)
    /\ ToSet(Order) \cap ToSet(Chain(free_queue, dq_next)) = {}
    /\ ToSet(Order) \cup ToSet(Chain(free_queue, dq_next)) = made

\* Least recently used first: an item enters or moves to the end, another one
\* never changes its place among the rest.
MovesOne ==
    \E i \in Items : Order' \in {Append(Order, i), RemoveFirst(Order, i), Append(RemoveFirst(Order, i), i)}
KeepsUseOrder == [][MovesOne]_vars
=============================================================================

--------------------------- MODULE BufferManager ----------------------------
(***************************************************************************)
(* buffer_manager, the pool of file blocks the fcache transfers read into. *)
(* Two singly linked lists share their items: buffer_list_ holds items     *)
(* with a free block, free_buffer_list_ items without one.  Each operation *)
(* runs under mutex_ and is one step.                                      *)
(***************************************************************************)
EXTENDS Integers, Sequences, FiniteSets

CONSTANTS
    Blocks,         \* addresses new char[] may return
    MaxItems,       \* bound: buffer_items ever allocated
    Batch           \* items made at a time (64 in the code)

VARIABLES
    next_,          \* the next_ of each item made so far; 0 is null
    buffer_,        \* the buffer_ of each item
    buffer_list_,
    free_buffer_list_,
    n_alloced_,
    held            \* blocks in the hands of transfers

vars == <<next_, buffer_, buffer_list_, free_buffer_list_, n_alloced_, held>>

NoBlock == 0

Init ==
    /\ next_ = <<>>
    /\ buffer_ = <<>>
    /\ buffer_list_ = 0
    /\ free_buffer_list_ = 0
    /\ n_alloced_ = 0
    /\ held = {}

(* The lists as one value, which the private helpers map to a new one. *)
Lists == [next |-> next_, buf |-> buffer_, list |-> buffer_list_, free |-> free_buffer_list_]

Becomes(s) ==
    /\ next_' = s.next
    /\ buffer_' = s.buf
    /\ buffer_list_' = s.list
    /\ free_buffer_list_' = s.free

(* The items reached from p along next_ in s; a list that runs into itself is cut
   at MaxItems + 1. *)
Walk(s, p) ==
    LET step[k \in 0..MaxItems] ==
            IF k = 0 THEN IF p = 0 THEN <<>> ELSE <<p>>
            ELSE LET w == step[k - 1] IN
                 IF w = <<>> \/ s.next[w[Len(w)]] = 0 THEN w ELSE Append(w, s.next[w[Len(w)]])
    IN step[MaxItems]

Made(s) == Len(s.next)

(* alloc_item: a batch of fresh items is chained when the free list is empty;
   then its first item is taken, with a null next_. *)
Refill(s) ==
    IF s.free # 0 THEN s
    ELSE LET m == Made(s) IN
         [s EXCEPT !.next = @ \o [i \in 1..Batch |-> IF i = Batch THEN 0 ELSE m + i + 1],
                   !.buf = @ \o [i \in 1..Batch |-> NoBlock],
                   !.free = m + 1]

alloc_item(s) ==
    LET r == Refill(s) IN
        [item |-> r.free,
         lists |-> [r EXCEPT !.free = r.next[r.free], !.next[r.free] = 0]]

free_item(s, item) == [s EXCEPT !.next[item] = s.free, !.free = item]

MayAlloc == free_buffer_list_ # 0 \/ Len(next_) + Batch <= MaxItems

OnList == {buffer_[i] : i \in {Walk(Lists, buffer_list_)[k] : k \in DOMAIN Walk(Lists, buffer_list_)}}

(* malloc with the list empty: an item is filled with a block from new. *)
Filled(s, b) ==
    LET a == alloc_item(s) IN
        [a.lists EXCEPT !.list = a.item, !.buf[a.item] = b]

(* The head of the list gives its block away and joins the free items. *)
TakeHead(s) ==
    LET item == s.list IN
        free_item([s EXCEPT !.list = s.next[item], !.next[item] = 0], item)

malloc_new(b) ==
    /\ buffer_list_ = 0
    /\ MayAlloc
    /\ b \in Blocks \ held
    /\ n_alloced_' = n_alloced_ + 1
    /\ held' = held \union {b}
    /\ Becomes(TakeHead(Filled(Lists, b)))

malloc ==
    /\ buffer_list_ # 0
    /\ n_alloced_' = n_alloced_ + 1
    /\ held' = held \union {buffer_[buffer_list_]}
    /\ Becomes(TakeHead(Lists))

(* free: the block goes to the front of the list, in an item of its own. *)
free(b) ==
    /\ b \in held
    /\ MayAlloc
    /\ n_alloced_' = n_alloced_ - 1
    /\ held' = held \ {b}
    /\ LET a == alloc_item(Lists) IN
         Becomes([a.lists EXCEPT !.buf[a.item] = b,
                                 !.next[a.item] = a.lists.list,
                                 !.list = a.item])

(* As Flushed, with next_ read after the item has joined the free list. *)
Flushed_reads_late(s) ==
    LET f == free_item(s, s.list) IN [f EXCEPT !.list = f.next[s.list]]

(* One round of flush: the first block is deleted and its item freed. *)
Flushed(s) == [free_item(s, s.list) EXCEPT !.list = s.next[s.list]]

(* flush(blocks): the first blocks of the list are deleted, all of them for 0. *)
flush(blocks) ==
    LET n == Len(Walk(Lists, buffer_list_))
        rounds == IF blocks > 0 /\ blocks < n THEN blocks ELSE n
        after[k \in 0..MaxItems + 1] == IF k = 0 THEN Lists ELSE Flushed(after[k - 1])
    IN /\ Becomes(after[rounds])
       /\ UNCHANGED <<n_alloced_, held>>

Next ==
    \/ \E b \in Blocks : malloc_new(b)
    \/ malloc
    \/ \E b \in Blocks : free(b)
    \/ \E blocks \in 0..1 : flush(blocks)

Spec == Init /\ [][Next]_vars

(***************************************************************************)
(* Properties                                                              *)
(***************************************************************************)

(* Every item is on exactly one of the two lists and on it once; the blocks on
   the list differ from each other and from those transfers hold, so no two
   transfers are ever given one block; n_alloced_ is the number held. *)
BlocksApart ==
    LET full == Walk(Lists, buffer_list_)
        empty == Walk(Lists, free_buffer_list_)
        all == full \o empty
    IN /\ Len(all) = Len(next_)
       /\ {all[k] : k \in DOMAIN all} = DOMAIN next_
       /\ Cardinality(OnList) = Len(full)
       /\ OnList \intersect held = {}
       /\ n_alloced_ = Cardinality(held)

=============================================================================

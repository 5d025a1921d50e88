------------------------------ MODULE CacheHeap ------------------------------
(***************************************************************************)
(* ndk::cache_heap (ndk/cache_heap.h) over ndk::min_heap and ndk::max_heap *)
(* (ndk/heap.h): an intrusive binary heap.  An item knows its own slot     *)
(* (heap_idx_), by which it is erased, and its priority is read from the   *)
(* object it stands for, which may change while the item is in the heap.   *)
(* Slots count from 0.                                                     *)
(***************************************************************************)
EXTENDS Integers, FiniteSets, TLC

CONSTANTS
    Items,          \* cache_heap_items, one per object
    max_size,       \* max_size_
    MaxHits         \* bound: the largest priority

VARIABLES
    min_or_max,     \* 0: min_heap, 1: max_heap
    heap,           \* heap_[0 .. size_ - 1]
    heap_idx,       \* heap_idx[i]: i's heap_idx_
    hit_count       \* hit_count[i]: the priority of i's object, 0 without one

vars == <<min_or_max, heap, heap_idx, hit_count>>

heap_size == Cardinality(DOMAIN heap)

Init ==
    /\ min_or_max \in {0, 1}
    /\ heap = <<>>
    /\ heap_idx = [i \in Items |-> -1]
    /\ hit_count = [i \in Items |-> 0]

\* a belongs below b: the comparisons of both heaps, by cache_heap_item::priority.
Below(pri, a, b) == IF min_or_max = 0 THEN pri[a] > pri[b] ELSE pri[a] < pri[b]

Up(slot) == IF slot = 0 THEN 0 ELSE (slot - 1) \div 2

\* The array and the slots of the items, for steps that change both.
Array == [heap |-> heap, idx |-> heap_idx]
Place(h, slot, i) == [heap |-> (slot :> i) @@ h.heap, idx |-> [h.idx EXCEPT ![i] = slot]]

\* shift_up: the item climbs past every parent that belongs below it.
shift_up(h, pri, pos, i) ==
    LET go[k \in 0 .. pos] ==
            IF k > 0 /\ Below(pri, h.heap[Up(k)], i) THEN go[Up(k)] \cup {k} ELSE {k}
        path == go[pos]
        top == CHOOSE k \in path : \A m \in path : k <= m
        moved == [heap |-> [s \in DOMAIN h.heap \cup {pos} |->
                                IF s \in path \ {top} THEN h.heap[Up(s)] ELSE IF s = pos THEN i ELSE h.heap[s]],
                  idx |-> [j \in Items |-> IF \E s \in path \ {top} : h.heap[Up(s)] = j
                                           THEN CHOOSE s \in path \ {top} : h.heap[Up(s)] = j
                                           ELSE h.idx[j]]]
    IN  Place(moved, top, i)

\* shift_down over the first n slots: the item sinks below the better child as
\* long as that one belongs above it.
shift_down(h, pri, n, pos, i) ==
    LET better(k) == LET l == 2 * k + 1
                     IN  IF l + 1 < n /\ Below(pri, h.heap[l], h.heap[l + 1]) THEN l + 1 ELSE l
        down[d \in 0 .. n] ==
            IF d = 0 THEN pos
            ELSE LET k == down[d - 1]
                 IN  IF 2 * k + 1 < n /\ Below(pri, i, h.heap[better(k)]) THEN better(k) ELSE k
        path == {down[d] : d \in 0 .. n}
        end == down[n]
        moved == [heap |-> [s \in DOMAIN h.heap |-> IF s \in path \ {end} THEN h.heap[better(s)] ELSE h.heap[s]],
                  idx |-> [j \in Items |-> IF \E s \in path \ {end} : h.heap[better(s)] = j
                                           THEN CHOOSE s \in path \ {end} : h.heap[better(s)] = j
                                           ELSE h.idx[j]]]
    IN  Place(moved, end, i)

push(h, pri, i) == shift_up(h, pri, Cardinality(DOMAIN h.heap), i)

\* Mutant: the item that fills the gap keeps its old slot in heap_idx_.
pop_stale_index(h, pri, slot) ==
    LET n == Cardinality(DOMAIN h.heap) - 1
        last == h.heap[n]
        filled == IF Below(pri, h.heap[Up(slot)], last) THEN shift_up(h, pri, slot, last)
                  ELSE shift_down(h, pri, n, slot, last)
    IN  [heap |-> [s \in 0 .. (n - 1) |-> filled.heap[s]], idx |-> [filled.idx EXCEPT ![last] = h.idx[last]]]

\* pop(idx): the last item fills the gap and moves up or down.  At the root it
\* is compared with the item that leaves.
pop(h, pri, slot) ==
    LET n == Cardinality(DOMAIN h.heap) - 1
        last == h.heap[n]
        filled == IF Below(pri, h.heap[Up(slot)], last) THEN shift_up(h, pri, slot, last)
                  ELSE shift_down(h, pri, n, slot, last)
    IN  [filled EXCEPT !.heap = [s \in 0 .. (n - 1) |-> filled.heap[s]]]

\* heap::erase: the item tells its own slot.
erase(h, pri, i) == pop(h, pri, h.idx[i])

Becomes(h) == heap' = h.heap /\ heap_idx' = h.idx
Freed(h, i) == [h EXCEPT !.idx[i] = -1]
InHeap == {heap[s] : s \in DOMAIN heap}

\* cache_heap::insert of an object with so many hits.
insert(i, hits) ==
    /\ heap_size < max_size
    /\ i \notin InHeap
    /\ hit_count' = [hit_count EXCEPT ![i] = hits]
    /\ Becomes(push(Array, hit_count', i))
    /\ UNCHANGED min_or_max

\* cache_heap::remove(key, cobj): the first item, which release_item frees.
remove_first ==
    /\ heap # <<>>
    /\ Becomes(Freed(pop(Array, hit_count, 0), heap[0]))
    /\ hit_count' = [hit_count EXCEPT ![heap[0]] = 0]
    /\ UNCHANGED min_or_max

\* cache_heap::remove(item).
remove(i) ==
    /\ i \in InHeap
    /\ Becomes(Freed(erase(Array, hit_count, i), i))
    /\ hit_count' = [hit_count EXCEPT ![i] = 0]
    /\ UNCHANGED min_or_max

\* cache_heap::adjust: erase, the object's acquire, push.
adjust(i) ==
    /\ i \in InHeap /\ hit_count[i] < MaxHits
    /\ hit_count' = [hit_count EXCEPT ![i] = @ + 1]
    /\ Becomes(push(erase(Array, hit_count, i), hit_count', i))
    /\ UNCHANGED min_or_max

Next ==
    \/ \E i \in Items, hits \in 0 .. MaxHits : insert(i, hits)
    \/ remove_first
    \/ \E i \in Items : remove(i)
    \/ \E i \in Items : adjust(i)

Spec == Init /\ [][Next]_vars

----------------------------------------------------------------------------
(* Properties.                                                             *)

\* What check() asserts: no item belongs above its parent, so that the first
\* item is one to evict next.
HeapOrdered == \A s \in DOMAIN heap : ~Below(hit_count, heap[Up(s)], heap[s])

\* pop's assert: every item in the heap knows its slot, and no other item has
\* one, whatever mixture of erasing, adjusting and re-using items came before.
SlotsKnown ==
    /\ \A s \in DOMAIN heap : heap_idx[heap[s]] = s
    /\ \A i \in Items \ InHeap : heap_idx[i] = -1
=============================================================================

------------------------------- MODULE MemPool -------------------------------
(***************************************************************************)
(* ndk::mem_pool (ndk/mem_pool.h, ndk/mem_pool.cpp): slabs cut into chunks *)
(* that lie one behind the other, each behind its obj_header, in a list of *)
(* slabs kept in the order of the largest chunk each knows to be free.     *)
(* malloc and free hold mutex_ throughout, so each is one action.          *)
(*                                                                         *)
(* A slab is the sequence of its chunks; their addresses follow from their *)
(* sizes.  Sizes count in units of MALLOC_ALIGN.  The header of a chunk    *)
(* that is split off is not initialised: its inuse_ is what the memory     *)
(* happens to hold, so a free chunk may look as if it were in use.         *)
(***************************************************************************)
EXTENDS Integers, Sequences, SequencesExt, FiniteSetsExt

CONSTANTS
    slab_size,          \* slab_size_
    header,             \* sizeof(obj_header)
    prealloc_slab_num,  \* prealloc_slab_num_
    max_slabs,          \* max_slabs_
    RequestSizes,       \* sizes asked for
    Null

VARIABLES
    slabs,              \* the list from slabs_head_: ids of slabs
    slab                \* slab[s]: its chunks, max_seriate_size_ (max), the offset of
                        \* max_seriate_free_head_ (head) and inuse_objs_ (objs)

vars == <<slabs, slab>>

----------------------------------------------------------------------------
(* Chunks.                                                                 *)

\* The offset of the k-th chunk's header in its slab.
Offset(cs, k) == FoldSeq(LAMBDA c, at : at + header + c.size, 0, SubSeq(cs, 1, k - 1))
At(cs, offset) == CHOOSE k \in DOMAIN cs : Offset(cs, k) = offset

\* init_object and slab_header: one chunk that is the whole slab.
NewSlab(junk) ==
    [chunks |-> <<[size |-> slab_size, inuse |-> junk, owned |-> FALSE]>>,
     max |-> slab_size, head |-> 0, objs |-> 0]

\* pop_usable_object: the known free chunk is taken, and its rest split off if
\* it has room for more than a header; a smaller rest goes to the caller.
pop_usable_object(s, size, junk) ==
    LET k == At(s.chunks, s.head)
        rest == s.max - size
        taken == [size |-> IF rest > header THEN size ELSE s.chunks[k].size, inuse |-> TRUE, owned |-> TRUE]
    IN  IF rest > header
        THEN [chunks |-> SubSeq(s.chunks, 1, k - 1)
                             \o <<taken, [size |-> rest - header, inuse |-> junk, owned |-> FALSE]>>
                             \o SubSeq(s.chunks, k + 1, Len(s.chunks)),
              max |-> rest - header, head |-> s.head + header + size, objs |-> s.objs + 1]
        ELSE [chunks |-> [s.chunks EXCEPT ![k] = taken], max |-> 0, head |-> Null, objs |-> s.objs + 1]

\* Chunks k and k + 1 become one.
MergeAt(cs, k) ==
    SubSeq(cs, 1, k - 1) \o <<[cs[k] EXCEPT !.size = @ + header + cs[k + 1].size]>>
        \o SubSeq(cs, k + 2, Len(cs))

\* Mutant: the neighbours are merged without a look at inuse_.
merged_unchecked(cs, k) ==
    LET own == [cs EXCEPT ![k].inuse = FALSE, ![k].owned = FALSE]
        back == k > 1 /\ ~own[k - 1].inuse
        one == IF back THEN MergeAt(own, k - 1) ELSE own
        j == IF back THEN k - 1 ELSE k
    IN  [chunks |-> IF j < Len(one) THEN MergeAt(one, j) ELSE one, at |-> j]

\* free: the chunk, merged with the neighbours that look free.
merged(cs, k) ==
    LET own == [cs EXCEPT ![k].inuse = FALSE, ![k].owned = FALSE]
        back == k > 1 /\ ~own[k - 1].inuse
        one == IF back THEN MergeAt(own, k - 1) ELSE own
        j == IF back THEN k - 1 ELSE k
        forth == j < Len(one) /\ ~one[j + 1].inuse
    IN  [chunks |-> IF forth THEN MergeAt(one, j) ELSE one, at |-> j]

\* Mutant: the slab keeps pointing at the chunk it knew.
give_back_keeps_head(s, k) ==
    LET m == merged(s.chunks, k)
        larger == m.chunks[m.at].size > s.max
    IN  [chunks |-> m.chunks, objs |-> s.objs - 1,
         max |-> IF larger THEN m.chunks[m.at].size ELSE s.max,
         head |-> IF larger /\ s.head = Null THEN Offset(m.chunks, m.at) ELSE s.head]

\* The slab knows the chunk if it is larger than the one it knew.
give_back(s, k) ==
    LET m == merged(s.chunks, k)
        larger == m.chunks[m.at].size > s.max
    IN  [chunks |-> m.chunks, objs |-> s.objs - 1,
         max |-> IF larger THEN m.chunks[m.at].size ELSE s.max,
         head |-> IF larger THEN Offset(m.chunks, m.at) ELSE s.head]

----------------------------------------------------------------------------
(* Slabs.                                                                  *)

\* ajust_slab_order: the slab moves over the neighbours that are out of order,
\* ahead after malloc and back after free.
Stays(order, content, i, dir) ==
    LET j == i + dir
    IN  \/ j \notin DOMAIN order
        \/ dir = -1 /\ content[order[j]].max <= content[order[i]].max
        \/ dir = 1 /\ content[order[j]].max >= content[order[i]].max

ajust_slab_order(order, content, s, dir) ==
    LET swap(o, i, j) == [o EXCEPT ![i] = o[j], ![j] = o[i]]
        where(o) == CHOOSE i \in DOMAIN o : o[i] = s
        roll[n \in 0 .. Len(order)] ==
            IF n = 0 THEN order
            ELSE LET o == roll[n - 1]
                 IN  IF Stays(o, content, where(o), dir) THEN o ELSE swap(o, where(o), where(o) + dir)
    IN  roll[Len(order)]

\* alloc_slabs: count new slabs at the tail, up to max_slabs_.
NewIds(count) == (Len(slabs) + 1) .. Min({Len(slabs) + count, max_slabs})

Init ==
    \E junk \in BOOLEAN :
        /\ slabs = [i \in 1 .. Min({prealloc_slab_num, max_slabs}) |-> i]
        /\ slab = [i \in 1 .. Min({prealloc_slab_num, max_slabs}) |-> NewSlab(junk)]

\* find_usable_slab: the first slab that knows a chunk that large.
Usable(size) == {i \in DOMAIN slabs : slab[slabs[i]].max >= size}

\* malloc: from the first usable slab, else from the first of the new ones; 0
\* when the pool has all its slabs.
malloc(size, junk) ==
    /\ size <= slab_size
    /\ \/ /\ Usable(size) # {}
          /\ LET s == slabs[Min(Usable(size))]
                 content == [slab EXCEPT ![s] = pop_usable_object(@, size, junk)]
             IN  /\ slab' = content
                 /\ slabs' = ajust_slab_order(slabs, content, s, -1)
       \/ /\ Usable(size) = {}
          /\ NewIds(prealloc_slab_num) # {}
          /\ LET s == Min(NewIds(prealloc_slab_num))
                 grown == [i \in DOMAIN slab \cup NewIds(prealloc_slab_num) |->
                              IF i \in DOMAIN slab THEN slab[i] ELSE NewSlab(junk)]
                 content == [grown EXCEPT ![s] = pop_usable_object(@, size, junk)]
             IN  /\ slab' = content
                 /\ slabs' = ajust_slab_order(slabs \o [k \in 1 .. Cardinality(NewIds(prealloc_slab_num)) |-> Len(slabs) + k], content, s, -1)

\* free of memory the caller owns.
free(s, k) ==
    /\ slab[s].chunks[k].owned
    /\ LET content == [slab EXCEPT ![s] = give_back(@, k)]
       IN  /\ slab' = content
           /\ slabs' = ajust_slab_order(slabs, content, s, 1)

Next ==
    \/ \E size \in RequestSizes, junk \in BOOLEAN : malloc(size, junk)
    \/ \E s \in DOMAIN slab : \E k \in DOMAIN slab[s].chunks : free(s, k)

Spec == Init /\ [][Next]_vars

----------------------------------------------------------------------------
(* Properties.                                                             *)

\* The chunks of a slab with their headers fill it exactly, whatever was split
\* and merged, and the chunk it knows to be free is one, of just that size: the
\* next malloc takes it without another look.
SlabsSound ==
    \A s \in DOMAIN slab :
        LET cs == slab[s].chunks
        IN  /\ Offset(cs, Len(cs) + 1) = header + slab_size
            /\ IF slab[s].head = Null THEN slab[s].max = 0
               ELSE \E k \in DOMAIN cs : /\ Offset(cs, k) = slab[s].head
                                         /\ cs[k].size = slab[s].max
                                         /\ ~cs[k].owned

\* Memory a caller owns stays where it is and as large as it is until the caller
\* frees it, whoever else allocates and whichever neighbours are merged.
Owned == UNION {{<<s, Offset(slab[s].chunks, k), slab[s].chunks[k].size>> :
                    k \in {k \in DOMAIN slab[s].chunks : slab[s].chunks[k].owned}} : s \in DOMAIN slab}
OwnersChangeByOne ==
    \/ Owned \subseteq Owned' /\ Cardinality(Owned') = Cardinality(Owned) + 1
    \/ Owned' \subseteq Owned /\ Cardinality(Owned') = Cardinality(Owned) - 1
OwnersUndisturbed == [][OwnersChangeByOne]_vars

\* The list is in the order of the known chunks: the first usable slab is the
\* one whose known chunk fits best.
SlabsOrdered ==
    \A i \in 1 .. (Len(slabs) - 1) : slab[slabs[i]].max <= slab[slabs[i + 1]].max
=============================================================================

-------------------------- MODULE TimerQueueProofs --------------------------
(***************************************************************************)
(* Theorems about ndk::timer_queue, for every number of timers below       *)
(* max_size, any growth of its arrays and any calls from inside upcalls:   *)
(* the id table leads to the nodes, the heap is in order, no assert fails, *)
(* and the whole implements the set of timers of TimerSet.                 *)
(*                                                                         *)
(* The argument has three layers: what reheap_up and reheap_down do to a   *)
(* heap with one slot to fill (by induction on the slot); what insert,     *)
(* remove, discard and grow_heap then do to a queue that is Sound; and     *)
(* what the operations do to the queue of a state.                         *)
(***************************************************************************)
EXTENDS TimerQueue, DataLemmas

\* A function, equal to the function of its values.
IsTable(z) == z = [i \in DOMAIN z |-> z[i]]

\* A queue as a value: its four fields, of which ids is a function.
IsQueue(q) ==
    /\ q = [heap |-> q.heap, size |-> q.size, ids |-> q.ids, min |-> q.min]
    /\ q.ids = [i \in DOMAIN q.ids |-> q.ids[i]]

\* A queue with another heap and other ids.
LEMMA Changed ==
    ASSUME NEW a, NEW b, NEW c, NEW d, NEW y, NEW z, NEW q, NEW r,
           q = [heap |-> a, size |-> b, ids |-> c, min |-> d],
           r = [q EXCEPT !.heap = y, !.ids = z]
    PROVE  r = [heap |-> y, size |-> b, ids |-> z, min |-> d]
OBVIOUS

\* copy: the node is in the slot, and its id leads there; nothing else changes.
LEMMA Copied ==
    ASSUME NEW q, IsQueue(q), NEW s, NEW x, x.id \in DOMAIN q.ids
    PROVE  /\ IsQueue(copy(q, s, x))
           /\ copy(q, s, x).size = q.size /\ copy(q, s, x).min = q.min
           /\ DOMAIN copy(q, s, x).heap = DOMAIN q.heap \cup {s}
           /\ \A t \in DOMAIN q.heap \cup {s} : copy(q, s, x).heap[t] = IF t = s THEN x ELSE q.heap[t]
           /\ DOMAIN copy(q, s, x).ids = DOMAIN q.ids
           /\ \A i \in DOMAIN q.ids : copy(q, s, x).ids[i] = IF i = x.id THEN s ELSE q.ids[i]
<1> DEFINE h == Put(q.heap, s, x)
           d == [q.ids EXCEPT ![x.id] = s]
<1>1. copy(q, s, x) = [heap |-> h, size |-> q.size, ids |-> d, min |-> q.min]
  <2>1. PICK a, b, c, e : q = [heap |-> a, size |-> b, ids |-> c, min |-> e]
    BY DEF IsQueue
  <2>2. q.heap = a /\ q.size = b /\ q.ids = c /\ q.min = e
    BY <2>1
  <2>4. copy(q, s, x) = [q EXCEPT !.heap = Put(q.heap, s, x), !.ids = [q.ids EXCEPT ![x.id] = s]]
    BY DEF copy
  <2> QED BY <2>1, <2>2, <2>4, Changed
<1>2. /\ DOMAIN h = DOMAIN q.heap \cup {s}
      /\ \A t \in DOMAIN q.heap \cup {s} : h[t] = IF t = s THEN x ELSE q.heap[t]
  BY DEF Put
<1>3. d = [i \in DOMAIN q.ids |-> IF i = x.id THEN s ELSE q.ids[i]]
  BY DEF IsQueue
<1>4. d = [i \in DOMAIN d |-> d[i]] /\ DOMAIN d = DOMAIN q.ids
  BY <1>3
<1> HIDE DEF h, d
<1>5. /\ copy(q, s, x).heap = h /\ copy(q, s, x).size = q.size /\ copy(q, s, x).ids = d
      /\ copy(q, s, x).min = q.min
  BY <1>1
<1> QED BY <1>1, <1>2, <1>3, <1>4, <1>5 DEF IsQueue

\* The parent of a slot comes before it, and has two children.
LEMMA ParentLess ==
    ASSUME NEW s \in Nat
    PROVE  /\ Parent(s) \in Nat /\ Parent(s) <= s
           /\ s # 0 => Parent(s) < s
           /\ \A t \in Nat : Parent(t) = s /\ t # 0 <=> t = s + s + 1 \/ t = s + s + 2
BY DEF Parent

\* reheap_up's function: what the walk from each slot makes of q.
IsUp(f, q, x, n) ==
    f = [s \in 0 .. n |->
           IF s > 0 /\ x.time < q.heap[Parent(s)].time
           THEN copy(f[Parent(s)], s, q.heap[Parent(s)])
           ELSE copy(q, s, x)]

\* There is such a function: each value depends on those of earlier slots.
LEMMA UpExists ==
    ASSUME NEW q, NEW x
    PROVE  \A n \in Nat : \E f : IsUp(f, q, x, n)
<1> DEFINE N == {n \in Nat : \E f : IsUp(f, q, x, n)}
<1>1. 0 \in N
  <2> DEFINE f == [s \in 0 .. 0 |-> copy(q, s, x)]
  <2>1. IsUp(f, q, x, 0)
    BY DEF IsUp
  <2> QED BY <2>1
<1>2. ASSUME NEW n \in N PROVE n + 1 \in N
  <2>1. PICK f : IsUp(f, q, x, n)
    OBVIOUS
  <2> DEFINE Val(s) == IF s > 0 /\ x.time < q.heap[Parent(s)].time
                       THEN copy(f[Parent(s)], s, q.heap[Parent(s)])
                       ELSE copy(q, s, x)
             g == [s \in 0 .. (n + 1) |-> IF s = n + 1 THEN Val(s) ELSE f[s]]
  <2>2. \A s \in 0 .. n : f[s] = Val(s)
    BY <2>1 DEF IsUp
  <2>3. \A s \in 0 .. (n + 1) : g[s] = Val(s)
    BY <2>2
  <2>4. ASSUME NEW s \in 0 .. (n + 1), s > 0 PROVE g[Parent(s)] = f[Parent(s)]
    BY <2>4, ParentLess
  <2> HIDE DEF g
  <2>5. DOMAIN g = 0 .. (n + 1) /\ g = [s \in DOMAIN g |-> g[s]]
    BY DEF g
  <2>6. IsUp(g, q, x, n + 1)
    BY <2>3, <2>4, <2>5 DEF IsUp
  <2> QED BY <2>6
<1> HIDE DEF N
<1>3. N = Nat
  <2>1. N \in SUBSET Nat
    BY DEF N
  <2> QED BY <1>1, <1>2, <2>1, SetInduction
<1> QED BY <1>3 DEF N

\* reheap_up is its value at the slot.
LEMMA UpIs ==
    ASSUME NEW q, NEW x, NEW slot \in Nat
    PROVE  \E f : IsUp(f, q, x, slot) /\ reheap_up(q, x, slot) = f[slot]
<1> DEFINE g == CHOOSE f : IsUp(f, q, x, slot)
<1>1. IsUp(g, q, x, slot)
  BY UpExists
<1>2. reheap_up(q, x, slot) = g[slot]
  BY DEF reheap_up, IsUp
<1> QED BY <1>1, <1>2

\* The earlier child of a slot in a heap of n nodes.
Earlier(q, n, s) ==
    LET left == LeftChild(s)
    IN  IF left + 1 < n /\ q.heap[left + 1].time < q.heap[left].time THEN left + 1 ELSE left

\* reheap_down's function, for the slots from m on.
IsDown(f, q, x, n, m) ==
    f = [s \in m .. (n - 1) |->
           IF LeftChild(s) < n /\ q.heap[Earlier(q, n, s)].time < x.time
           THEN copy(f[Earlier(q, n, s)], s, q.heap[Earlier(q, n, s)])
           ELSE copy(q, s, x)]

\* The earlier child is a child, and in the heap.
LEMMA EarlierBelow ==
    ASSUME NEW q, NEW n \in Nat, NEW s \in Nat, LeftChild(s) < n
    PROVE  /\ Earlier(q, n, s) \in {s + s + 1, s + s + 2} /\ Earlier(q, n, s) < n
           /\ Earlier(q, n, s) \in (s + 1) .. (n - 1)
BY DEF Earlier, LeftChild

\* There is such a function: each value depends on those of later slots.
LEMMA DownExists ==
    ASSUME NEW q, NEW x, NEW n \in Nat
    PROVE  \A k \in Nat : k <= n => \E f : IsDown(f, q, x, n, n - k)
<1> DEFINE N == {k \in Nat : k <= n => \E f : IsDown(f, q, x, n, n - k)}
<1>1. 0 \in N
  <2> DEFINE f == [s \in n .. (n - 1) |-> copy(q, s, x)]
  <2>1. IsDown(f, q, x, n, n)
    BY DEF IsDown
  <2> QED BY <2>1
<1>2. ASSUME NEW k \in N, k + 1 <= n PROVE \E f : IsDown(f, q, x, n, n - (k + 1))
  <2>1. PICK f : IsDown(f, q, x, n, n - k)
    BY <1>2
  <2> DEFINE m == n - (k + 1)
             Val(s) == IF LeftChild(s) < n /\ q.heap[Earlier(q, n, s)].time < x.time
                       THEN copy(f[Earlier(q, n, s)], s, q.heap[Earlier(q, n, s)])
                       ELSE copy(q, s, x)
             g == [s \in m .. (n - 1) |-> IF s = m THEN Val(s) ELSE f[s]]
  <2>2. \A s \in (n - k) .. (n - 1) : f[s] = Val(s)
    BY <2>1 DEF IsDown
  <2>3. \A s \in m .. (n - 1) : g[s] = Val(s)
    <3>1. \A s \in m .. (n - 1) : s # m => s \in (n - k) .. (n - 1)
      BY <1>2
    <3> HIDE DEF Val
    <3> QED BY <2>2, <3>1
  <2>4. ASSUME NEW s \in m .. (n - 1), LeftChild(s) < n
        PROVE g[Earlier(q, n, s)] = f[Earlier(q, n, s)]
    <3>1. s \in Nat /\ m \in Nat
      BY <1>2
    <3>2. Earlier(q, n, s) \in (s + 1) .. (n - 1)
      BY <2>4, <3>1, EarlierBelow
    <3> HIDE DEF Val
    <3> QED BY <3>1, <3>2
  <2> HIDE DEF g
  <2>5. DOMAIN g = m .. (n - 1) /\ g = [s \in DOMAIN g |-> g[s]]
    BY DEF g
  <2>6. IsDown(g, q, x, n, m)
    BY <2>3, <2>4, <2>5 DEF IsDown
  <2> QED BY <2>6
<1>3. \A k \in N : k + 1 \in N
  BY <1>2
<1> HIDE DEF N
<1>4. N = Nat
  <2>1. N \in SUBSET Nat
    BY DEF N
  <2> QED BY <1>1, <1>3, <2>1, SetInduction
<1> QED BY <1>4 DEF N

\* reheap_down is its value at the slot.
LEMMA DownIs ==
    ASSUME NEW q, NEW x, curr_size(q) \in Nat, NEW slot
    PROVE  \E f : IsDown(f, q, x, curr_size(q), 0) /\ reheap_down(q, x, slot) = f[slot]
<1> DEFINE n == curr_size(q)
           g == CHOOSE f : IsDown(f, q, x, n, 0)
<1>1. IsDown(g, q, x, n, 0)
  <2>1. n - n = 0 /\ n <= n
    OBVIOUS
  <2>2. \E f : IsDown(f, q, x, n, n - n)
    BY <2>1, DownExists
  <2> QED BY <2>1, <2>2
<1>2. reheap_down(q, x, slot) = g[slot]
  BY DEF reheap_down, IsDown, Earlier
<1> QED BY <1>1, <1>2

\* On the way from the slot to s: the slots whose nodes stay, and all that
\* are filled.
Others(n, slot, s) == (0 .. (n - 1)) \ {slot, s}
Filled(n, slot, s) == ((0 .. (n - 1)) \ {slot}) \cup {s}

\* A heap of n nodes into whose slot, which may hold anything, x is to go.
Ready(q, x, n, slot) ==
    /\ IsQueue(q) /\ n \in Nat /\ slot \in 0 .. n /\ DOMAIN q.heap = 0 .. (n - 1)
    /\ x \in Node /\ x.id \in DOMAIN q.ids
    /\ \A t \in (0 .. (n - 1)) \ {slot} :
          /\ q.heap[t] \in Node
          /\ q.heap[t].id \in DOMAIN q.ids /\ q.heap[t].id # x.id
          /\ q.ids[q.heap[t].id] = t

\* x was placed, on the way from the slot to s.
Placed(q, r, x, n, slot, s) ==
    /\ IsQueue(r) /\ r.size = q.size /\ r.min = q.min /\ DOMAIN r.ids = DOMAIN q.ids
    /\ DOMAIN r.heap = (0 .. (n - 1)) \cup {s}
    /\ \A t \in Filled(n, slot, s) :
          /\ r.heap[t] = x \/ \E u \in Others(n, slot, s) : r.heap[t] = q.heap[u]
          /\ r.ids[r.heap[t].id] = t
    /\ r.ids[x.id] \in Filled(n, slot, s) /\ r.heap[r.ids[x.id]] = x
    /\ \A u \in Others(n, slot, s) :
          r.ids[q.heap[u].id] \in Filled(n, slot, s) /\ r.heap[r.ids[q.heap[u].id]] = q.heap[u]
    /\ \A i \in DOMAIN q.ids :
          i # x.id /\ (\A u \in Others(n, slot, s) : q.heap[u].id # i) => r.ids[i] = q.ids[i]

\* Copying x to where the walk ends places it.
LEMMA PlacedAtOnce ==
    ASSUME NEW q, NEW x, NEW n, NEW slot, Ready(q, x, n, slot), NEW s \in 0 .. n,
           s = slot \/ s < n
    PROVE  Placed(q, copy(q, s, x), x, n, slot, s)
<1> DEFINE r == copy(q, s, x)
<1>1. /\ IsQueue(r)
      /\ r.size = q.size /\ r.min = q.min
      /\ DOMAIN r.heap = DOMAIN q.heap \cup {s}
      /\ \A t \in DOMAIN q.heap \cup {s} : r.heap[t] = IF t = s THEN x ELSE q.heap[t]
      /\ DOMAIN r.ids = DOMAIN q.ids
      /\ \A i \in DOMAIN q.ids : r.ids[i] = IF i = x.id THEN s ELSE q.ids[i]
  BY Copied DEF Ready
<1> HIDE DEF r
<1> SUFFICES Placed(q, r, x, n, slot, s)
  BY DEF r
<1>2. \A t \in Filled(n, slot, s) : t # s => t \in Others(n, slot, s) /\ r.heap[t] = q.heap[t] /\ r.ids[q.heap[t].id] = t
  BY <1>1 DEF Ready, Filled, Others
<1>3. r.heap[s] = x /\ r.ids[x.id] = s /\ s \in Filled(n, slot, s)
  BY <1>1 DEF Ready, Filled
<1>4. \A u \in Others(n, slot, s) : u \in Filled(n, slot, s) /\ u # s
  BY DEF Filled, Others
<1>5. \A i \in DOMAIN q.ids : i # x.id => r.ids[i] = q.ids[i]
  BY <1>1
<1> QED BY <1>1, <1>2, <1>3, <1>4, <1>5 DEF Placed, Ready

\* One step further from the slot: the node at p, past which x went, moves to
\* s.
LEMMA PlacedOneOn ==
    ASSUME NEW q, NEW x, NEW n, NEW slot, Ready(q, x, n, slot), NEW s \in 0 .. n,
           s = slot \/ s < n,
           NEW p \in (0 .. (n - 1)) \ {slot}, p # s, NEW r, Placed(q, r, x, n, slot, p),
           s # slot => r.heap[s] = q.heap[s]
    PROVE  Placed(q, copy(r, s, q.heap[p]), x, n, slot, s)
<1> DEFINE y == q.heap[p]
           w == copy(r, s, y)
<1>0. IsQueue(r) /\ y.id \in DOMAIN r.ids /\ y.id # x.id
  BY DEF Ready, Placed
<1>1. /\ IsQueue(w)
      /\ w.size = r.size /\ w.min = r.min
      /\ DOMAIN w.heap = DOMAIN r.heap \cup {s}
      /\ \A t \in DOMAIN r.heap \cup {s} : w.heap[t] = IF t = s THEN y ELSE r.heap[t]
      /\ DOMAIN w.ids = DOMAIN r.ids
      /\ \A i \in DOMAIN r.ids : w.ids[i] = IF i = y.id THEN s ELSE r.ids[i]
  BY <1>0, Copied
<1> HIDE DEF w
<1> SUFFICES Placed(q, w, x, n, slot, s)
  BY DEF w
<1>2. /\ IsQueue(w) /\ w.size = q.size /\ w.min = q.min /\ DOMAIN w.ids = DOMAIN q.ids
      /\ DOMAIN w.heap = (0 .. (n - 1)) \cup {s}
  BY <1>1 DEF Placed, Ready
<1>3. p \in Others(n, slot, s) /\ \A u \in Others(n, slot, p) : u = s \/ u \in Others(n, slot, s)
  BY DEF Others
<1>4. \A u \in Others(n, slot, s) : u = p \/ u \in Others(n, slot, p)
  BY DEF Others
<1>5. \A t \in Filled(n, slot, s) : t = s \/ t \in Filled(n, slot, p)
  BY DEF Filled
<1>6. \A t \in Filled(n, slot, p) : t \in 0 .. (n - 1)
  BY DEF Filled
<1>7. \A t \in Filled(n, slot, p) : t # s => t \in Filled(n, slot, s)
  BY DEF Filled
<1>8. s \in Filled(n, slot, s)
  BY DEF Filled
<1>9. ASSUME NEW u \in Others(n, slot, p) PROVE q.heap[u].id # y.id
  BY DEF Others, Ready
<1>10. ASSUME NEW u \in Others(n, slot, p), u # s
       PROVE  r.ids[q.heap[u].id] # s
  <2>1. u \in 0 .. (n - 1) /\ u # slot
    BY DEF Others
  <2>2. CASE s = slot
    <3>1. r.ids[q.heap[u].id] \in Filled(n, slot, p)
      BY DEF Placed
    <3> QED BY <2>2, <3>1 DEF Filled
  <2>3. CASE s # slot
    <3>1. r.heap[r.ids[q.heap[u].id]] = q.heap[u] /\ r.heap[s] = q.heap[s]
      BY <2>3 DEF Placed
    <3>2. s \in 0 .. (n - 1)
      BY <2>3 DEF Ready
    <3>3. q.heap[u] # q.heap[s]
      BY <1>10, <2>1, <2>3, <3>2 DEF Ready
    <3> QED BY <3>1, <3>3
  <2> QED BY <2>2, <2>3
<1>11. r.ids[x.id] # s
  <2>2. CASE s = slot
    BY <2>2 DEF Placed, Filled
  <2>3. CASE s # slot
    <3>1. r.heap[r.ids[x.id]] = x /\ r.heap[s] = q.heap[s]
      BY <2>3 DEF Placed
    <3>3. x # q.heap[s]
      BY <2>3 DEF Ready
    <3> QED BY <3>1, <3>3
  <2> QED BY <2>2, <2>3
<1>12. ASSUME NEW t \in Filled(n, slot, s)
       PROVE /\ w.heap[t] = x \/ \E u \in Others(n, slot, s) : w.heap[t] = q.heap[u]
             /\ w.ids[w.heap[t].id] = t
  <2>1. CASE t = s
    BY <2>1, <1>0, <1>1, <1>3
  <2>2. CASE t # s
    <3>1. t \in Filled(n, slot, p) /\ t \in DOMAIN r.heap
      BY <2>2, <1>5, <1>6 DEF Placed
    <3>2. w.heap[t] = r.heap[t]
      BY <3>1, <2>2, <1>1
    <3>3. /\ r.heap[t] = x \/ \E u \in Others(n, slot, p) : r.heap[t] = q.heap[u]
          /\ r.ids[r.heap[t].id] = t
      BY <3>1 DEF Placed
    <3>4. CASE r.heap[t] = x
      BY <3>4, <3>2, <3>3, <1>0, <1>1, <1>2 DEF Ready
    <3>5. CASE \E u \in Others(n, slot, p) : r.heap[t] = q.heap[u]
      <4>1. PICK u \in Others(n, slot, p) : r.heap[t] = q.heap[u]
        BY <3>5
      <4>2. u # s
        <5>1. CASE s = slot
          BY <5>1 DEF Others
        <5>2. CASE s # slot
          <6>1. u \in 0 .. (n - 1) /\ u # slot
            BY DEF Others
          <6>2. SUFFICES ASSUME u = s PROVE FALSE
            OBVIOUS
          <6>3. r.heap[s] = q.heap[s] /\ s \in Filled(n, slot, p)
            BY <5>2, <6>1, <6>2 DEF Filled
          <6>4. r.ids[r.heap[s].id] = s
            BY <6>3 DEF Placed
          <6> QED BY <6>2, <6>3, <6>4, <4>1, <3>3, <2>2
        <5> QED BY <5>1, <5>2
      <4>3. u \in Others(n, slot, s) /\ q.heap[u].id # y.id /\ q.heap[u].id \in DOMAIN r.ids
        <5>1. q.heap[u].id \in DOMAIN r.ids
          BY DEF Others, Ready, Placed
        <5> QED BY <5>1, <1>3, <1>9, <4>2
      <4> QED BY <4>1, <4>3, <3>2, <3>3, <1>1
    <3> QED BY <3>3, <3>4, <3>5
  <2> QED BY <2>1, <2>2
<1>13. w.ids[x.id] \in Filled(n, slot, s) /\ w.heap[w.ids[x.id]] = x
  <2>1. w.ids[x.id] = r.ids[x.id] /\ r.ids[x.id] \in Filled(n, slot, p) /\ r.heap[r.ids[x.id]] = x
    BY <1>0, <1>1, <1>2 DEF Placed, Ready
  <2>2. r.ids[x.id] \in DOMAIN r.heap
    BY <2>1, <1>6 DEF Placed
  <2> QED BY <2>1, <2>2, <1>1, <1>7, <1>11
<1>14. ASSUME NEW u \in Others(n, slot, s)
       PROVE w.ids[q.heap[u].id] \in Filled(n, slot, s) /\ w.heap[w.ids[q.heap[u].id]] = q.heap[u]
  <2>1. CASE u = p
    BY <2>1, <1>0, <1>1, <1>8
  <2>2. CASE u # p
    <3>1. u \in Others(n, slot, p) /\ u # s
      BY <2>2, <1>4 DEF Others
    <3>2. q.heap[u].id \in DOMAIN r.ids
      BY DEF Others, Ready, Placed
    <3>3. /\ w.ids[q.heap[u].id] = r.ids[q.heap[u].id] /\ r.ids[q.heap[u].id] \in Filled(n, slot, p)
          /\ r.heap[r.ids[q.heap[u].id]] = q.heap[u]
      BY <3>1, <3>2, <1>1, <1>9 DEF Placed
    <3>4. r.ids[q.heap[u].id] \in DOMAIN r.heap
      BY <3>3, <1>6 DEF Placed
    <3> QED BY <3>1, <3>3, <3>4, <1>1, <1>7, <1>10
  <2> QED BY <2>1, <2>2
<1>15. ASSUME NEW i \in DOMAIN q.ids, i # x.id, \A u \in Others(n, slot, s) : q.heap[u].id # i
       PROVE  w.ids[i] = q.ids[i]
  <2>1. i # y.id /\ w.ids[i] = r.ids[i]
    BY <1>15, <1>1, <1>2, <1>3
  <2>2. CASE \A u \in Others(n, slot, p) : q.heap[u].id # i
    BY <2>1, <2>2, <1>15 DEF Placed
  <2>3. CASE \E u \in Others(n, slot, p) : q.heap[u].id = i
    <3>1. PICK u \in Others(n, slot, p) : q.heap[u].id = i
      BY <2>3
    <3>2. u = s /\ s # slot /\ s \in 0 .. (n - 1)
      BY <3>1, <1>15, <1>3 DEF Others
    <3>3. r.heap[s] = q.heap[s] /\ s \in Filled(n, slot, p)
      BY <3>2 DEF Filled
    <3>4. r.ids[i] = s
      BY <3>1, <3>2, <3>3 DEF Placed
    <3>5. q.ids[i] = s
      BY <3>1, <3>2 DEF Ready
    <3> QED BY <2>1, <3>4, <3>5
  <2> QED BY <2>2, <2>3
<1> HIDE DEF y
<1> QED BY <1>2, <1>12, <1>13, <1>14, <1>15 DEF Placed

\* In order but for the slot, whose parent is no later than its children.
Bridged(q, n, slot) ==
    /\ \A t \in (0 .. (n - 1)) \ {0, slot} :
          Parent(t) # slot => q.heap[Parent(t)].time <= q.heap[t].time
    /\ slot # 0 => \A t \in (0 .. (n - 1)) \ {0} :
                      Parent(t) = slot => q.heap[Parent(slot)].time <= q.heap[t].time

\* No node of S is earlier than its parent.
InOrder(r, S) == \A t \in S \ {0} : Parent(t) \in S => r.heap[Parent(t)].time <= r.heap[t].time

\* The walk up from s is done: x is placed, and the heap up to s is in order.
UpDone(q, r, x, n, slot, s) ==
    /\ Placed(q, r, x, n, slot, s)
    /\ \A t \in 0 .. (n - 1) : t > s => r.heap[t] = q.heap[t]
    /\ s < slot => r.heap[s].time <= q.heap[s].time
    /\ InOrder(r, Filled(n, slot, s))

\* The walk ends where the parent is no later than x.
LEMMA UpRests ==
    ASSUME NEW q, NEW x, NEW n, NEW slot, Ready(q, x, n, slot), Bridged(q, n, slot),
           \A t \in (0 .. (n - 1)) \ {0} : Parent(t) = slot => x.time <= q.heap[t].time,
           NEW s \in 0 .. slot, s < slot => x.time < q.heap[s].time,
           ~(s > 0 /\ x.time < q.heap[Parent(s)].time)
    PROVE  UpDone(q, copy(q, s, x), x, n, slot, s)
<1> DEFINE r == copy(q, s, x)
<1>0. n \in Nat /\ slot \in Nat /\ slot <= n /\ s \in 0 .. n /\ (s = slot \/ s < n) /\ s \in Nat
  BY DEF Ready
<1>1. Placed(q, r, x, n, slot, s)
  BY <1>0, PlacedAtOnce
<1>2. \A t \in (0 .. (n - 1)) \cup {s} : r.heap[t] = IF t = s THEN x ELSE q.heap[t]
  BY Copied DEF Ready
<1> HIDE DEF r
<1>3. ASSUME NEW t \in Filled(n, slot, s) \ {0}, Parent(t) \in Filled(n, slot, s)
      PROVE  r.heap[Parent(t)].time <= r.heap[t].time
  <2>0. x.time \in Nat
    BY DEF Ready, Node
  <2>1. t \in Nat /\ Parent(t) \in Nat /\ Parent(t) < t
    BY <1>0, ParentLess DEF Filled
  <2>2. /\ t = s \/ t \in (0 .. (n - 1)) \ {slot}
        /\ Parent(t) = s \/ Parent(t) \in (0 .. (n - 1)) \ {slot}
    BY <1>3 DEF Filled
  <2>3. \A k \in (0 .. (n - 1)) \ {slot} : q.heap[k].time \in Nat
    BY DEF Ready, Node
  <2>4. CASE t = s
    BY <2>0, <2>1, <2>2, <2>3, <2>4, <1>2
  <2>5. CASE t # s /\ Parent(t) = s
    <3>1. r.heap[Parent(t)] = x /\ r.heap[t] = q.heap[t]
      BY <2>5, <2>2, <1>2
    <3>2. CASE s = slot
      BY <3>1, <3>2, <2>2, <2>5
    <3>3. CASE s < slot
      <4>1. q.heap[Parent(t)].time <= q.heap[t].time
        BY <3>3, <2>2, <2>5 DEF Bridged
      <4>2. s \in (0 .. (n - 1)) \ {slot}
        BY <3>3, <1>0
      <4> QED BY <4>1, <4>2, <3>1, <3>3, <2>0, <2>1, <2>2, <2>3, <2>5
    <3> QED BY <3>2, <3>3, <1>0
  <2>6. CASE t # s /\ Parent(t) # s
    BY <2>2, <2>6, <1>2, <1>3 DEF Bridged
  <2> QED BY <2>4, <2>5, <2>6
<1>4. s < slot => r.heap[s].time <= q.heap[s].time
  <2>1. s < slot => s \in (0 .. (n - 1)) \ {slot}
    BY <1>0
  <2> QED BY <2>1, <1>2 DEF Ready, Node
<1>5. \A t \in 0 .. (n - 1) : t > s => r.heap[t] = q.heap[t]
  BY <1>0, <1>2
<1> QED BY <1>1, <1>3, <1>4, <1>5 DEF UpDone, InOrder, r

\* Otherwise the parent moves down to s, and the walk goes on from its slot.
LEMMA UpMoves ==
    ASSUME NEW q, NEW x, NEW n, NEW slot, Ready(q, x, n, slot), Bridged(q, n, slot),
           NEW s \in 1 .. slot, NEW r, UpDone(q, r, x, n, slot, Parent(s))
    PROVE  UpDone(q, copy(r, s, q.heap[Parent(s)]), x, n, slot, s)
<1> DEFINE p == Parent(s)
           w == copy(r, s, q.heap[p])
<1>0. /\ n \in Nat /\ slot \in Nat /\ slot <= n /\ s \in 0 .. n /\ (s = slot \/ s < n) /\ s \in Nat
      /\ p \in Nat /\ p < s /\ p \in (0 .. (n - 1)) \ {slot} /\ p # s /\ p < slot
  BY ParentLess DEF Ready
<1>1. Placed(q, w, x, n, slot, s)
  <2>1. Placed(q, r, x, n, slot, p) /\ (s # slot => r.heap[s] = q.heap[s])
    BY <1>0 DEF UpDone
  <2> QED BY <1>0, <2>1, PlacedOneOn
<1>2. \A t \in (0 .. (n - 1)) \cup {s} : w.heap[t] = IF t = s THEN q.heap[p] ELSE r.heap[t]
  <2>1. IsQueue(r) /\ q.heap[p].id \in DOMAIN r.ids /\ DOMAIN r.heap = 0 .. (n - 1)
    BY <1>0 DEF UpDone, Placed, Ready
  <2> DEFINE y == q.heap[p]
  <2>0. IsQueue(r) /\ y.id \in DOMAIN r.ids
    BY <2>1
  <2> HIDE DEF y
  <2>2. \A t \in DOMAIN r.heap \cup {s} : copy(r, s, y).heap[t] = IF t = s THEN y ELSE r.heap[t]
    BY <2>0, Copied
  <2> QED BY <2>1, <2>2 DEF y
<1> HIDE DEF w, p
<1>3. ASSUME NEW t \in Filled(n, slot, s) \ {0}, Parent(t) \in Filled(n, slot, s)
      PROVE  w.heap[Parent(t)].time <= w.heap[t].time
  <2>1. t \in Nat /\ Parent(t) \in Nat /\ Parent(t) < t
    BY <1>0, ParentLess DEF Filled
  <2>2. /\ t = s \/ t \in (0 .. (n - 1)) \ {slot}
        /\ Parent(t) = s \/ Parent(t) \in (0 .. (n - 1)) \ {slot}
    BY <1>3 DEF Filled
  <2>3. \A k \in (0 .. (n - 1)) \ {slot} : q.heap[k].time \in Nat
    BY DEF Ready, Node
  <2>4. CASE t = s
    BY <2>4, <1>0, <1>2 DEF UpDone, p
  <2>5. CASE t # s /\ Parent(t) = s
    <3>1. w.heap[Parent(t)] = q.heap[p] /\ w.heap[t] = q.heap[t]
      BY <2>5, <2>1, <2>2, <1>0, <1>2 DEF UpDone, p
    <3>2. CASE s = slot
      BY <3>1, <3>2, <2>2, <2>5, <1>0 DEF Bridged, p
    <3>3. CASE s < slot
      <4>1. q.heap[Parent(t)].time <= q.heap[t].time
        BY <3>3, <2>2, <2>5 DEF Bridged
      <4>2. s \in (0 .. (n - 1)) \ {0, slot}
        BY <3>3, <1>0
      <4>3. q.heap[p].time <= q.heap[s].time
        BY <4>2, <1>0 DEF Bridged, p
      <4> QED BY <4>1, <4>2, <4>3, <3>1, <2>2, <2>3, <2>5, <1>0
    <3> QED BY <3>2, <3>3, <1>0
  <2>6. CASE t # s /\ Parent(t) # s
    <3>1. t \in Filled(n, slot, p) /\ Parent(t) \in Filled(n, slot, p)
      BY <2>2, <2>6 DEF Filled
    <3> QED BY <3>1, <2>2, <2>6, <1>2, <1>3 DEF UpDone, InOrder, p
  <2> QED BY <2>4, <2>5, <2>6
<1>4. s < slot => w.heap[s].time <= q.heap[s].time
  <2>1. s < slot => s \in (0 .. (n - 1)) \ {0, slot}
    BY <1>0
  <2> QED BY <2>1, <1>0, <1>2 DEF Bridged, p
<1>5. \A t \in 0 .. (n - 1) : t > s => w.heap[t] = q.heap[t]
  BY <1>0, <1>2 DEF UpDone, p
<1> QED BY <1>1, <1>3, <1>4, <1>5 DEF UpDone, InOrder, w, p

\* What reheap_up does.
LEMMA ReheapUp ==
    ASSUME NEW q, NEW x, NEW n, NEW slot, Ready(q, x, n, slot), Bridged(q, n, slot),
           \A t \in (0 .. (n - 1)) \ {0} : Parent(t) = slot => x.time <= q.heap[t].time
    PROVE  UpDone(q, reheap_up(q, x, slot), x, n, slot, slot)
<1>0. n \in Nat /\ slot \in Nat /\ slot <= n
  BY DEF Ready
<1>1. PICK f : IsUp(f, q, x, slot) /\ reheap_up(q, x, slot) = f[slot]
  BY <1>0, UpIs
<1> DEFINE Holds(s) == s \in 0 .. slot /\ (s < slot => x.time < q.heap[s].time)
                       => UpDone(q, f[s], x, n, slot, s)
           N == {k \in Nat : \A s \in 0 .. k : Holds(s)}
<1>2. ASSUME NEW s \in Nat, \A k \in Nat : k < s => Holds(k) PROVE Holds(s)
  <2>1. SUFFICES ASSUME s \in 0 .. slot, s < slot => x.time < q.heap[s].time
                 PROVE  UpDone(q, f[s], x, n, slot, s)
    OBVIOUS
  <2>2. CASE s > 0 /\ x.time < q.heap[Parent(s)].time
    <3>1. Parent(s) \in Nat /\ Parent(s) < s /\ Parent(s) \in 0 .. slot /\ s \in 1 .. slot
      BY <2>1, <2>2, <1>0, ParentLess
    <3>2. UpDone(q, f[Parent(s)], x, n, slot, Parent(s))
      BY <3>1, <2>2, <1>2
    <3>3. f[s] = copy(f[Parent(s)], s, q.heap[Parent(s)])
      BY <1>1, <2>1, <2>2 DEF IsUp
    <3> HIDE DEF Holds
    <3> QED BY <3>1, <3>2, <3>3, UpMoves
  <2>3. CASE ~(s > 0 /\ x.time < q.heap[Parent(s)].time)
    <3>1. f[s] = copy(q, s, x)
      BY <1>1, <2>1, <2>3 DEF IsUp
    <3> HIDE DEF Holds
    <3> QED BY <3>1, <2>1, <2>3, UpRests
  <2> QED BY <2>2, <2>3
<1> HIDE DEF Holds
<1>3. N = Nat
  <2>1. N \in SUBSET Nat
    OBVIOUS
  <2>2. 0 \in N
    BY <1>2
  <2>3. ASSUME NEW k \in N PROVE k + 1 \in N
    <3>1. \A j \in Nat : j < k + 1 => j \in 0 .. k
      OBVIOUS
    <3>2. Holds(k + 1)
      BY <3>1, <1>2
    <3> QED BY <3>2
  <2> HIDE DEF N
  <2> QED BY <2>1, <2>2, <2>3, SetInduction
<1>4. Holds(slot)
  BY <1>0, <1>3
<1> QED BY <1>0, <1>1, <1>4 DEF Holds

\* The walk down from s is done.
DownDone(q, r, x, n, slot, s) ==
    /\ Placed(q, r, x, n, slot, s)
    /\ \A t \in 0 .. (n - 1) : t < s \/ (t = s + 1 /\ s > 0) => r.heap[t] = q.heap[t]
    /\ slot < s => q.heap[s].time <= r.heap[s].time
    /\ InOrder(r, Filled(n, slot, s))

\* The walk ends where no child is earlier than x.
LEMMA DownRests ==
    ASSUME NEW q, NEW x, NEW n, NEW slot, Ready(q, x, n, slot), Bridged(q, n, slot),
           slot < n, slot # 0 => q.heap[Parent(slot)].time <= x.time,
           NEW s \in slot .. (n - 1), slot < s => q.heap[s].time < x.time,
           ~(LeftChild(s) < n /\ q.heap[Earlier(q, n, s)].time < x.time)
    PROVE  DownDone(q, copy(q, s, x), x, n, slot, s)
<1> DEFINE r == copy(q, s, x)
<1>0. n \in Nat /\ slot \in Nat /\ slot < n /\ s \in 0 .. n /\ (s = slot \/ s < n) /\ s \in Nat
  BY DEF Ready
<1>1. Placed(q, r, x, n, slot, s)
  BY <1>0, PlacedAtOnce
<1>2. \A t \in (0 .. (n - 1)) \cup {s} : r.heap[t] = IF t = s THEN x ELSE q.heap[t]
  BY Copied DEF Ready
<1> HIDE DEF r
<1>3. ASSUME NEW t \in Filled(n, slot, s) \ {0}, Parent(t) \in Filled(n, slot, s)
      PROVE  r.heap[Parent(t)].time <= r.heap[t].time
  <2>0. x.time \in Nat
    BY DEF Ready, Node
  <2>1. t \in Nat /\ Parent(t) \in Nat /\ Parent(t) < t
    BY <1>0, ParentLess DEF Filled
  <2>2. /\ t = s \/ t \in (0 .. (n - 1)) \ {slot}
        /\ Parent(t) = s \/ Parent(t) \in (0 .. (n - 1)) \ {slot}
    BY <1>3 DEF Filled
  <2>3. \A k \in (0 .. (n - 1)) \ {slot} : q.heap[k].time \in Nat
    BY DEF Ready, Node
  <2>4. CASE t = s
    <3>1. r.heap[t] = x /\ r.heap[Parent(t)] = q.heap[Parent(t)]
      BY <2>1, <2>2, <2>4, <1>2
    <3>2. CASE s = slot
      BY <3>1, <3>2, <2>4
    <3>3. CASE slot < s
      <4>1. s \in (0 .. (n - 1)) \ {0, slot} /\ Parent(s) \in (0 .. (n - 1)) \ {slot}
        BY <3>3, <1>0, <2>1, <2>2, <2>4
      <4>2. q.heap[Parent(s)].time <= q.heap[s].time
        BY <4>1 DEF Bridged
      <4> QED BY <4>1, <4>2, <3>1, <3>3, <2>0, <2>3, <2>4
    <3> QED BY <3>2, <3>3, <1>0
  <2>5. CASE t # s /\ Parent(t) = s
    <3>1. r.heap[Parent(t)] = x /\ r.heap[t] = q.heap[t] /\ t \in (0 .. (n - 1)) \ {slot}
      BY <2>5, <2>2, <1>2
    <3>2. t = s + s + 1 \/ t = s + s + 2
      BY <2>1, <2>5, <1>0, ParentLess
    <3>3. LeftChild(s) < n /\ LeftChild(s) = s + s + 1
      BY <3>1, <3>2, <1>0 DEF LeftChild
    <3>4. \A c \in {s + s + 1, s + s + 2} : c < n => c \in (0 .. (n - 1)) \ {slot}
      BY <1>0
    <3>5. ~(q.heap[Earlier(q, n, s)].time < x.time) /\ Earlier(q, n, s) \in (0 .. (n - 1)) \ {slot}
      BY <3>3, <3>4, <1>0, EarlierBelow
    <3>6. q.heap[Earlier(q, n, s)].time <= q.heap[t].time
      BY <3>1, <3>2, <3>3, <3>4, <2>3, <1>0 DEF Earlier
    <3> QED BY <3>1, <3>5, <3>6, <2>0, <2>3
  <2>6. CASE t # s /\ Parent(t) # s
    BY <2>2, <2>6, <1>2, <1>3 DEF Bridged
  <2> QED BY <2>4, <2>5, <2>6
<1>4. slot < s => q.heap[s].time <= r.heap[s].time
  <2>1. slot < s => s \in (0 .. (n - 1)) \ {slot}
    BY <1>0
  <2> QED BY <2>1, <1>2 DEF Ready, Node
<1>5. \A t \in 0 .. (n - 1) : t < s \/ (t = s + 1 /\ s > 0) => r.heap[t] = q.heap[t]
  BY <1>0, <1>2
<1> QED BY <1>1, <1>3, <1>4, <1>5 DEF DownDone, InOrder, r

\* Otherwise the earlier child moves up to s, and the walk goes on from its
\* slot.
LEMMA DownMoves ==
    ASSUME NEW q, NEW x, NEW n, NEW slot, Ready(q, x, n, slot), Bridged(q, n, slot),
           slot < n, NEW s \in slot .. (n - 1), LeftChild(s) < n,
           NEW r, DownDone(q, r, x, n, slot, Earlier(q, n, s))
    PROVE  DownDone(q, copy(r, s, q.heap[Earlier(q, n, s)]), x, n, slot, s)
<1> DEFINE p == Earlier(q, n, s)
           y == q.heap[p]
           w == copy(r, s, y)
<1>0. /\ n \in Nat /\ slot \in Nat /\ slot < n /\ s \in 0 .. n /\ (s = slot \/ s < n) /\ s \in Nat
      /\ p \in Nat /\ s < p /\ p \in (0 .. (n - 1)) \ {slot} /\ p # s /\ slot < p
      /\ p \in {s + s + 1, s + s + 2}
  BY EarlierBelow DEF Ready
<1>00. Parent(p) = s /\ p # 0
  BY <1>0, ParentLess
<1> HIDE DEF p
<1>1. Placed(q, w, x, n, slot, s)
  <2>1. Placed(q, r, x, n, slot, p) /\ (s # slot => r.heap[s] = q.heap[s])
    BY <1>0 DEF DownDone, p
  <2> QED BY <1>0, <2>1, PlacedOneOn
<1>2. \A t \in (0 .. (n - 1)) \cup {s} : w.heap[t] = IF t = s THEN y ELSE r.heap[t]
  <2>1. IsQueue(r) /\ y.id \in DOMAIN r.ids /\ DOMAIN r.heap = 0 .. (n - 1)
    BY <1>0 DEF DownDone, Placed, Ready, p
  <2>2. IsQueue(r) /\ y.id \in DOMAIN r.ids
    BY <2>1
  <2> HIDE DEF y
  <2>3. \A t \in DOMAIN r.heap \cup {s} : w.heap[t] = IF t = s THEN y ELSE r.heap[t]
    BY <2>2, Copied
  <2> QED BY <2>1, <2>3
<1> HIDE DEF w
<1>6. \A t \in 0 .. (n - 1) : t < p \/ t = p + 1 => r.heap[t] = q.heap[t]
  BY <1>0 DEF DownDone, p
<1>3. ASSUME NEW t \in Filled(n, slot, s) \ {0}, Parent(t) \in Filled(n, slot, s)
      PROVE  w.heap[Parent(t)].time <= w.heap[t].time
  <2>1. t \in Nat /\ Parent(t) \in Nat /\ Parent(t) < t
    BY <1>0, ParentLess DEF Filled
  <2>2. /\ t = s \/ t \in (0 .. (n - 1)) \ {slot}
        /\ Parent(t) = s \/ Parent(t) \in (0 .. (n - 1)) \ {slot}
    BY <1>3 DEF Filled
  <2>3. \A k \in (0 .. (n - 1)) \ {slot} : q.heap[k].time \in Nat
    BY DEF Ready, Node
  <2>4. CASE t = s
    <3>1. w.heap[t] = y /\ w.heap[Parent(t)] = q.heap[Parent(t)]
      BY <2>1, <2>2, <2>4, <1>0, <1>2, <1>6
    <3>2. CASE s = slot
      BY <3>1, <3>2, <2>4, <1>0, <1>00 DEF Bridged
    <3>3. CASE slot < s
      <4>1. s \in (0 .. (n - 1)) \ {0, slot} /\ Parent(s) \in (0 .. (n - 1)) \ {slot}
        BY <3>3, <1>0, <2>1, <2>2, <2>4
      <4>2. q.heap[Parent(s)].time <= q.heap[s].time
        BY <4>1 DEF Bridged
      <4>3. q.heap[s].time <= y.time
        BY <4>1, <1>0, <1>00 DEF Bridged
      <4> QED BY <4>1, <4>2, <4>3, <3>1, <1>0, <2>3, <2>4
    <3> QED BY <3>2, <3>3, <1>0
  <2>5. CASE t # s /\ Parent(t) = s
    <3>1. w.heap[Parent(t)] = y /\ w.heap[t] = r.heap[t] /\ t \in (0 .. (n - 1)) \ {slot}
      BY <2>5, <2>2, <1>2
    <3>2. CASE t = p
      BY <3>1, <3>2, <1>0 DEF DownDone, p
    <3>3. CASE t # p
      <4>1. t = s + s + 1 \/ t = s + s + 2
        BY <2>1, <2>5, <1>0, ParentLess
      <4>2. r.heap[t] = q.heap[t]
        BY <4>1, <3>1, <3>3, <1>0, <1>6
      <4>3. \A c \in {s + s + 1, s + s + 2} : c < n => c \in (0 .. (n - 1)) \ {slot}
        BY <1>0
      <4>4. y.time <= q.heap[t].time
        BY <3>1, <3>3, <4>1, <4>3, <2>3, <1>0 DEF Earlier, LeftChild, p
      <4> QED BY <3>1, <4>2, <4>4
    <3> QED BY <3>2, <3>3
  <2>6. CASE t # s /\ Parent(t) # s
    <3>1. t \in Filled(n, slot, p) /\ Parent(t) \in Filled(n, slot, p)
      BY <2>2, <2>6 DEF Filled
    <3> QED BY <3>1, <2>2, <2>6, <1>2, <1>3 DEF DownDone, InOrder, p
  <2> QED BY <2>4, <2>5, <2>6
<1>4. slot < s => q.heap[s].time <= w.heap[s].time
  <2>1. slot < s => s \in (0 .. (n - 1)) \ {0, slot}
    BY <1>0
  <2> QED BY <2>1, <1>0, <1>00, <1>2 DEF Bridged
<1>5. \A t \in 0 .. (n - 1) : t < s \/ (t = s + 1 /\ s > 0) => w.heap[t] = q.heap[t]
  BY <1>0, <1>2, <1>6
<1> QED BY <1>1, <1>3, <1>4, <1>5 DEF DownDone, InOrder, w, p

\* What reheap_down does.
LEMMA ReheapDown ==
    ASSUME NEW q, NEW x, NEW n, NEW slot, Ready(q, x, n, slot), Bridged(q, n, slot),
           slot < n, slot # 0 => q.heap[Parent(slot)].time <= x.time, curr_size(q) = n
    PROVE  DownDone(q, reheap_down(q, x, slot), x, n, slot, slot)
<1>0. n \in Nat /\ slot \in Nat /\ slot < n
  BY DEF Ready
<1>1. PICK f : IsDown(f, q, x, n, 0) /\ reheap_down(q, x, slot) = f[slot]
  BY <1>0, DownIs
<1> DEFINE Holds(s) == s \in slot .. (n - 1) /\ (slot < s => q.heap[s].time < x.time)
                       => DownDone(q, f[s], x, n, slot, s)
           N == {k \in Nat : \A s \in (n - k) .. (n - 1) : Holds(s)}
<1>2. ASSUME NEW s \in Int, \A k \in (s + 1) .. (n - 1) : Holds(k) PROVE Holds(s)
  <2>1. SUFFICES ASSUME s \in slot .. (n - 1), slot < s => q.heap[s].time < x.time
                 PROVE  DownDone(q, f[s], x, n, slot, s)
    OBVIOUS
  <2>0. s \in Nat /\ s \in 0 .. (n - 1)
    BY <2>1, <1>0
  <2> DEFINE c == Earlier(q, n, s)
  <2>2. CASE LeftChild(s) < n /\ q.heap[c].time < x.time
    <3>1. c \in (s + 1) .. (n - 1)
      BY <2>0, <2>2, <1>0, EarlierBelow
    <3>2. c \in slot .. (n - 1)
      BY <3>1, <2>1, <1>0
    <3>3. f[s] = copy(f[c], s, q.heap[c])
      BY <1>1, <2>0, <2>2 DEF IsDown
    <3> HIDE DEF c
    <3>4. DownDone(q, f[c], x, n, slot, c)
      BY <3>1, <3>2, <2>2, <1>2
    <3> HIDE DEF Holds
    <3> QED BY <3>3, <3>4, <2>1, <2>2, DownMoves DEF c
  <2>3. CASE ~(LeftChild(s) < n /\ q.heap[c].time < x.time)
    <3>1. f[s] = copy(q, s, x)
      BY <1>1, <2>0, <2>3 DEF IsDown
    <3> HIDE DEF Holds
    <3> QED BY <3>1, <2>1, <2>3, DownRests
  <2> QED BY <2>2, <2>3
<1> HIDE DEF Holds
<1>3. N = Nat
  <2>1. N \in SUBSET Nat
    OBVIOUS
  <2>2. 0 \in N
    BY <1>0
  <2>3. ASSUME NEW k \in N PROVE k + 1 \in N
    <3>1. n - (k + 1) \in Int /\ \A j \in ((n - (k + 1)) + 1) .. (n - 1) : j \in (n - k) .. (n - 1)
      BY <1>0
    <3>2. Holds(n - (k + 1))
      BY <3>1, <1>2
    <3>3. \A j \in (n - (k + 1)) .. (n - 1) : j = n - (k + 1) \/ j \in (n - k) .. (n - 1)
      BY <1>0
    <3> QED BY <3>2, <3>3
  <2> HIDE DEF N
  <2> QED BY <2>1, <2>2, <2>3, SetInduction
<1>4. Holds(slot)
  <2>1. n - slot \in N /\ slot \in (n - (n - slot)) .. (n - 1)
    BY <1>0, <1>3
  <2> QED BY <2>1
<1> QED BY <1>0, <1>1, <1>4 DEF Holds

\* A queue of n timers.  The ids in lost are taken by no node of the heap.
Sound(q, n, lost) ==
    /\ IsQueue(q) /\ n \in Nat /\ DOMAIN q.heap = 0 .. (n - 1)
    /\ q.size \in 3 .. max_size /\ n < q.size /\ DOMAIN q.ids = 0 .. (q.size - 1)
    /\ q.min \in 0 .. q.size
    /\ \A s \in 0 .. (n - 1) :
          /\ q.heap[s] \in Node /\ q.heap[s].id + 1 < q.size /\ q.heap[s].id \notin lost
          /\ q.ids[q.heap[s].id] = s
    /\ \A i \in (DOMAIN q.ids) \ lost :
          (\A s \in 0 .. (n - 1) : q.heap[s].id # i) => q.ids[i] = -1 /\ q.min <= i
    /\ InOrder(q, 0 .. (n - 1))

\* curr_size_ is the number of nodes.
LEMMA SizeIs ==
    ASSUME NEW q, NEW n \in Nat, DOMAIN q.heap = 0 .. (n - 1)
    PROVE  curr_size(q) = n
<1>1. Cardinality(0 .. (n - 1)) = IF 0 > n - 1 THEN 0 ELSE n - 1 - 0 + 1
  BY FS_Interval
<1> QED BY <1>1 DEF curr_size

\* The id of a node is inside timer_ids_, and not its last place.
LEMMA IdsInside ==
    ASSUME NEW q, NEW n, NEW lost, Sound(q, n, lost), NEW s \in 0 .. (n - 1)
    PROVE  /\ q.heap[s].id \in Nat /\ q.heap[s].id \in 0 .. (q.size - 2)
           /\ q.heap[s].id \in DOMAIN q.ids /\ q.heap[s].time \in Nat
<1>1. q.heap[s] \in Node /\ q.heap[s].id + 1 < q.size /\ q.size \in Nat /\ DOMAIN q.ids = 0 .. (q.size - 1)
  BY DEF Sound
<1>2. q.heap[s].id \in Nat /\ q.heap[s].time \in Nat
  BY <1>1 DEF Node
<1> QED BY <1>1, <1>2

\* The first node is an earliest one.
LEMMA AtFront ==
    ASSUME NEW q, NEW n, NEW lost, Sound(q, n, lost), NEW s \in 0 .. (n - 1)
    PROVE  q.heap[0].time <= q.heap[s].time
<1> DEFINE N == {k \in Nat : k \in 0 .. (n - 1) => q.heap[0].time <= q.heap[k].time}
<1>0. \A k \in 0 .. (n - 1) : q.heap[k].time \in Nat
  BY DEF Sound, Node
<1>1. SUFFICES ASSUME Nat \ N # {} PROVE FALSE
  <2>1. s \in Nat
    BY DEF Sound
  <2> QED BY <2>1
<1>2. PICK k \in Nat \ N : \A j \in Nat \ N : k <= j
  <2>1. Nat \ N \in SUBSET Nat
    OBVIOUS
  <2> HIDE DEF N
  <2> QED BY <1>1, <2>1, LeastNatural
<1>3. k # 0 /\ k \in 0 .. (n - 1) /\ n \in Nat /\ ~(q.heap[0].time <= q.heap[k].time)
  <2>1. 0 \in 0 .. (n - 1) => q.heap[0].time <= q.heap[0].time
    BY <1>0
  <2> QED BY <2>1 DEF Sound
<1>4. Parent(k) \in Nat /\ Parent(k) < k
  BY <1>3, ParentLess
<1>5. Parent(k) \in 0 .. (n - 1) /\ Parent(k) \in N
  BY <1>2, <1>3, <1>4
<1>6. q.heap[Parent(k)].time <= q.heap[k].time
  BY <1>3, <1>5 DEF Sound, InOrder
<1>7. 0 \in 0 .. (n - 1)
  BY <1>3
<1> QED BY <1>0, <1>3, <1>5, <1>6, <1>7

\* A node is put in the place after the last and moved up from there.
LEMMA Inserted ==
    ASSUME NEW q, NEW n, NEW x \in Node, Sound(q, n, {x.id}), n + 1 < q.size, x.id + 1 < q.size
    PROVE  /\ Sound(reheap_up(q, x, n), n + 1, {}) /\ reheap_up(q, x, n).size = q.size
           /\ NodesOf(reheap_up(q, x, n)) = NodesOf(q) \cup {x}
<1> DEFINE r == reheap_up(q, x, n)
<1>0. n \in Nat /\ q.size \in Nat /\ x.id \in Nat /\ q.size <= max_size
  BY DEF Sound, Node
<1>1. Ready(q, x, n, n)
  <2>1. x.id \in DOMAIN q.ids
    BY <1>0 DEF Sound
  <2>2. \A t \in 0 .. (n - 1) : q.heap[t].id \in DOMAIN q.ids
    BY IdsInside
  <2> QED BY <1>0, <2>1, <2>2 DEF Sound, Ready
<1>2. Bridged(q, n, n)
  <2>1. \A t \in (0 .. (n - 1)) \ {0} : Parent(t) \in 0 .. (n - 1) /\ Parent(t) # n
    BY <1>0, ParentLess
  <2> QED BY <2>1 DEF Bridged, Sound, InOrder
<1>3. \A t \in (0 .. (n - 1)) \ {0} : Parent(t) # n
  BY <1>0, ParentLess
<1>4. UpDone(q, r, x, n, n, n)
  BY <1>1, <1>2, <1>3, ReheapUp
<1> HIDE DEF r
<1>5. (0 .. (n - 1)) \cup {n} = 0 .. n /\ Filled(n, n, n) = 0 .. n /\ Others(n, n, n) = 0 .. (n - 1)
      /\ (n + 1) - 1 = n
  BY <1>0 DEF Filled, Others
<1>6. /\ IsQueue(r) /\ r.size = q.size /\ r.min = q.min /\ DOMAIN r.ids = DOMAIN q.ids
      /\ DOMAIN r.heap = 0 .. n
      /\ \A t \in 0 .. n :
            /\ r.heap[t] = x \/ \E u \in 0 .. (n - 1) : r.heap[t] = q.heap[u]
            /\ r.ids[r.heap[t].id] = t
      /\ r.ids[x.id] \in 0 .. n /\ r.heap[r.ids[x.id]] = x
      /\ \A u \in 0 .. (n - 1) : r.ids[q.heap[u].id] \in 0 .. n /\ r.heap[r.ids[q.heap[u].id]] = q.heap[u]
      /\ \A i \in DOMAIN q.ids :
            i # x.id /\ (\A u \in 0 .. (n - 1) : q.heap[u].id # i) => r.ids[i] = q.ids[i]
      /\ InOrder(r, 0 .. n)
  <2>1. Placed(q, r, x, n, n, n) /\ InOrder(r, 0 .. n)
    BY <1>4, <1>5 DEF UpDone
  <2>2. /\ IsQueue(r) /\ r.size = q.size /\ r.min = q.min /\ DOMAIN r.ids = DOMAIN q.ids
        /\ DOMAIN r.heap = 0 .. n
    BY <2>1, <1>5 DEF Placed
  <2>3. \A t \in 0 .. n :
            /\ r.heap[t] = x \/ \E u \in 0 .. (n - 1) : r.heap[t] = q.heap[u]
            /\ r.ids[r.heap[t].id] = t
    BY <2>1, <1>5 DEF Placed
  <2>4. r.ids[x.id] \in 0 .. n /\ r.heap[r.ids[x.id]] = x
    BY <2>1, <1>5 DEF Placed
  <2>5. \A u \in 0 .. (n - 1) : r.ids[q.heap[u].id] \in 0 .. n /\ r.heap[r.ids[q.heap[u].id]] = q.heap[u]
    BY <2>1, <1>5 DEF Placed
  <2>6. \A i \in DOMAIN q.ids :
            i # x.id /\ (\A u \in 0 .. (n - 1) : q.heap[u].id # i) => r.ids[i] = q.ids[i]
    BY <2>1, <1>5 DEF Placed
  <2> QED BY <2>1, <2>2, <2>3, <2>4, <2>5, <2>6
<1>7. NodesOf(r) = NodesOf(q) \cup {x}
  <2>1. DOMAIN q.heap = 0 .. (n - 1)
    BY DEF Sound
  <2>2. ASSUME NEW y \in NodesOf(r) PROVE y \in NodesOf(q) \cup {x}
    BY <2>1, <1>6 DEF NodesOf
  <2>3. ASSUME NEW y \in NodesOf(q) \cup {x} PROVE y \in NodesOf(r)
    BY <2>1, <1>6 DEF NodesOf
  <2> QED BY <2>2, <2>3
<1>8. ASSUME NEW s \in 0 .. n
      PROVE  /\ r.heap[s] \in Node /\ r.heap[s].id + 1 < r.size /\ r.heap[s].id \notin {}
             /\ r.ids[r.heap[s].id] = s
  <2>1. CASE r.heap[s] = x
    BY <2>1, <1>6
  <2>2. CASE \E u \in 0 .. (n - 1) : r.heap[s] = q.heap[u]
    BY <2>2, <1>6 DEF Sound
  <2> QED BY <2>1, <2>2, <1>6
<1>9. ASSUME NEW i \in DOMAIN r.ids, \A s \in 0 .. n : r.heap[s].id # i
      PROVE  r.ids[i] = -1 /\ r.min <= i
  <2>1. i # x.id /\ \A u \in 0 .. (n - 1) : q.heap[u].id # i
    BY <1>6, <1>9
  <2>2. i \in (DOMAIN q.ids) \ {x.id} /\ r.ids[i] = q.ids[i] /\ r.min = q.min
    BY <2>1, <1>6
  <2> QED BY <2>1, <2>2 DEF Sound
<1>10. DOMAIN r.ids = 0 .. (r.size - 1) /\ r.size \in 3 .. max_size /\ r.min \in 0 .. r.size /\ n + 1 < r.size
  BY <1>6 DEF Sound
<1>11. Sound(r, n + 1, {})
  BY <1>0, <1>5, <1>6, <1>8, <1>9, <1>10 DEF Sound
<1> QED BY <1>6, <1>7, <1>11 DEF r

\* The queue without its last node.
LEMMA Shortened ==
    ASSUME NEW q, IsQueue(q), NEW h
    PROVE  /\ IsQueue([q EXCEPT !.heap = h])
           /\ [q EXCEPT !.heap = h].heap = h /\ [q EXCEPT !.heap = h].size = q.size
           /\ [q EXCEPT !.heap = h].ids = q.ids /\ [q EXCEPT !.heap = h].min = q.min
<1>1. PICK a, b, c, d : q = [heap |-> a, size |-> b, ids |-> c, min |-> d]
  BY DEF IsQueue
<1>2. q.size = b /\ q.ids = c /\ q.min = d
  BY <1>1
<1>3. ASSUME NEW r, r = [q EXCEPT !.heap = h] PROVE r = [heap |-> h, size |-> b, ids |-> c, min |-> d]
  BY <1>1, <1>3
<1>4. [q EXCEPT !.heap = h] = [heap |-> h, size |-> b, ids |-> c, min |-> d]
  BY <1>3
<1>5. c = [i \in DOMAIN c |-> c[i]]
  BY <1>2 DEF IsQueue
<1> QED BY <1>2, <1>4, <1>5 DEF IsQueue

\* remove: the node is gone from the heap, and its id is the only one lost.
LEMMA Removed ==
    ASSUME NEW q, NEW n, Sound(q, n, {}), NEW slot \in 0 .. (n - 1)
    PROVE  /\ Sound(remove(q, slot), n - 1, {q.heap[slot].id})
           /\ remove(q, slot).size = q.size
           /\ NodesOf(remove(q, slot)) = NodesOf(q) \ {q.heap[slot]}
<1> DEFINE m == n - 1
           h == [s \in 0 .. (m - 1) |-> q.heap[s]]
           rest == [q EXCEPT !.heap = h]
           x == q.heap[m]
           g == q.heap[slot]
<1>0. m \in Nat /\ slot \in Nat /\ slot <= m /\ slot \in 0 .. m
  BY DEF Sound
<1>01. /\ IsQueue(q) /\ DOMAIN q.heap = 0 .. m /\ q.size \in 3 .. max_size /\ m < q.size
       /\ DOMAIN q.ids = 0 .. (q.size - 1) /\ q.min \in 0 .. q.size
  BY DEF Sound
<1>02. curr_size(q) - 1 = m
  BY SizeIs DEF Sound
<1>00. 0 .. (n - 1) = 0 .. m
  OBVIOUS
<1> HIDE DEF m
<1>1. /\ IsQueue(rest) /\ rest.heap = h /\ rest.size = q.size /\ rest.ids = q.ids /\ rest.min = q.min
      /\ DOMAIN h = 0 .. (m - 1) /\ \A s \in 0 .. (m - 1) : h[s] = q.heap[s]
  <2>1. DOMAIN h = 0 .. (m - 1) /\ \A s \in 0 .. (m - 1) : h[s] = q.heap[s]
    OBVIOUS
  <2> HIDE DEF h
  <2>2. IsQueue(q)
    BY <1>01
  <2>3. IsQueue(rest) /\ rest.heap = h /\ rest.size = q.size /\ rest.ids = q.ids /\ rest.min = q.min
    BY <2>2, Shortened
  <2> QED BY <2>1, <2>3
<1>2. \A s \in 0 .. m : /\ q.heap[s] \in Node /\ q.heap[s].id + 1 < q.size /\ q.ids[q.heap[s].id] = s
                        /\ q.heap[s].id \in DOMAIN q.ids /\ q.heap[s].time \in Nat
  <2>1. \A s \in 0 .. m : q.heap[s] \in Node /\ q.heap[s].id + 1 < q.size /\ q.ids[q.heap[s].id] = s
    BY <1>00 DEF Sound
  <2>2. \A s \in 0 .. m : q.heap[s].id \in DOMAIN q.ids /\ q.heap[s].time \in Nat
    BY <1>00, IdsInside
  <2> QED BY <2>1, <2>2
<1>3. \A i \in DOMAIN q.ids : (\A s \in 0 .. m : q.heap[s].id # i) => q.ids[i] = -1 /\ q.min <= i
  BY <1>00 DEF Sound
<1>4. \A t \in (0 .. m) \ {0} : Parent(t) \in 0 .. m /\ Parent(t) < t /\ q.heap[Parent(t)].time <= q.heap[t].time
  <2>1. \A t \in (0 .. m) \ {0} : Parent(t) \in 0 .. m /\ Parent(t) < t
    BY <1>0, ParentLess
  <2> QED BY <1>00, <2>1 DEF Sound, InOrder
<1>5. SUFFICES ASSUME NEW w, w = remove(q, slot)
               PROVE  /\ Sound(w, m, {g.id}) /\ w.size = q.size
                      /\ NodesOf(w) = NodesOf(q) \ {g}
  BY DEF m
<1> HIDE DEF h, rest
<1>6. CASE slot >= m
  <2>1. slot = m /\ w = rest
    BY <1>0, <1>02, <1>5, <1>6 DEF remove, rest, h
  <2>2. \A s \in 0 .. (m - 1) : s \in 0 .. m /\ s # m
    BY <1>0
  <2>3. /\ DOMAIN w.heap = 0 .. (m - 1) /\ \A s \in 0 .. (m - 1) : w.heap[s] = q.heap[s] /\ q.heap[s].id # g.id
    BY <1>1, <1>2, <2>1, <2>2, <1>0
  <2>4. \A i \in (DOMAIN w.ids) \ {g.id} :
          (\A s \in 0 .. (m - 1) : w.heap[s].id # i) => w.ids[i] = -1 /\ w.min <= i
    <3>1. \A s \in 0 .. m : s = m \/ s \in 0 .. (m - 1)
      BY <1>0
    <3> QED BY <1>1, <1>3, <2>1, <2>3, <3>1
  <2>5. InOrder(w, 0 .. (m - 1))
    BY <1>4, <2>2, <2>3 DEF InOrder
  <2>6. NodesOf(w) = NodesOf(q) \ {g}
    <3>1. \A s \in 0 .. m : s = m \/ s \in 0 .. (m - 1)
      BY <1>0
    <3>2. ASSUME NEW y \in NodesOf(w) PROVE y \in NodesOf(q) /\ y # g
      <4>1. PICK t \in 0 .. (m - 1) : y = w.heap[t]
        BY <2>3 DEF NodesOf
      <4> QED BY <4>1, <1>01, <2>2, <2>3 DEF NodesOf
    <3>3. ASSUME NEW y \in NodesOf(q), y # g PROVE y \in NodesOf(w)
      <4>1. PICK u \in 0 .. m : y = q.heap[u]
        BY <1>01 DEF NodesOf
      <4>2. u \in 0 .. (m - 1)
        BY <4>1, <3>1, <3>3, <2>1
      <4> QED BY <4>1, <4>2, <2>3 DEF NodesOf
    <3> QED BY <3>2, <3>3
  <2> HIDE DEF g
  <2> QED BY <1>0, <1>01, <1>1, <1>2, <2>1, <2>2, <2>3, <2>4, <2>5, <2>6 DEF Sound
<1>7. CASE slot < m
  <2> DEFINE f == copy(rest, slot, x)
  <2>0. x \in Node /\ x.id \in DOMAIN rest.ids /\ m \in 0 .. m /\ x = q.heap[m] /\ slot \in 0 .. (m - 1)
    BY <1>0, <1>1, <1>2, <1>7
  <2>1. /\ IsQueue(f) /\ f.size = q.size /\ f.min = q.min
        /\ DOMAIN f.heap = 0 .. (m - 1)
        /\ \A t \in 0 .. (m - 1) : f.heap[t] = IF t = slot THEN x ELSE q.heap[t]
        /\ DOMAIN f.ids = DOMAIN q.ids
        /\ \A i \in DOMAIN q.ids : f.ids[i] = IF i = x.id THEN slot ELSE q.ids[i]
    <3>1. IsQueue(rest) /\ x.id \in DOMAIN rest.ids
      BY <1>1, <2>0
    <3> HIDE DEF x
    <3>2. /\ IsQueue(f)
          /\ f.size = rest.size /\ f.min = rest.min
          /\ DOMAIN f.heap = DOMAIN rest.heap \cup {slot}
          /\ \A t \in DOMAIN rest.heap \cup {slot} : f.heap[t] = IF t = slot THEN x ELSE rest.heap[t]
          /\ DOMAIN f.ids = DOMAIN rest.ids
          /\ \A i \in DOMAIN rest.ids : f.ids[i] = IF i = x.id THEN slot ELSE rest.ids[i]
      BY <3>1, Copied
    <3> HIDE DEF f
    <3>3. DOMAIN rest.heap \cup {slot} = 0 .. (m - 1)
      BY <1>1, <2>0
    <3> QED BY <1>1, <3>2, <3>3
  <2>2. w = IF x.time >= f.heap[Parent(slot)].time THEN reheap_down(f, x, slot) ELSE reheap_up(f, x, slot)
    <3> DEFINE last == curr_size(q) - 1
    <3>1. last = m /\ ~(slot >= last)
      BY <1>02, <1>0, <1>7
    <3>2. rest = [q EXCEPT !.heap = [s \in 0 .. (last - 1) |-> q.heap[s]]] /\ x = q.heap[last]
      BY <3>1 DEF rest, h
    <3> HIDE DEF rest, x
    <3>3. remove(q, slot) = IF x.time >= f.heap[Parent(slot)].time
                            THEN reheap_down(f, x, slot) ELSE reheap_up(f, x, slot)
      BY <3>1, <3>2 DEF remove
    <3> QED BY <3>3, <1>5
  <2> HIDE DEF f, x
  <2>3. \A t \in 0 .. (m - 1) : t \in 0 .. m /\ t # m
    BY <1>0
  <2>4. Ready(f, x, m, slot)
    <3>1. slot \in 0 .. m
      BY <1>0
    <3>2. ASSUME NEW t \in (0 .. (m - 1)) \ {slot}
          PROVE  /\ f.heap[t] \in Node
                 /\ f.heap[t].id \in DOMAIN f.ids /\ f.heap[t].id # x.id
                 /\ f.ids[f.heap[t].id] = t
      <4>1. f.heap[t] = q.heap[t] /\ t \in 0 .. m /\ t # m
        BY <2>1, <2>3
      <4>2. q.heap[t].id # x.id
        BY <4>1, <1>2, <2>0
      <4> QED BY <4>1, <4>2, <1>2, <2>1
    <3> QED BY <3>1, <3>2, <1>0, <1>1, <2>0, <2>1 DEF Ready
  <2>5. Bridged(f, m, slot)
    <3>1. ASSUME NEW t \in (0 .. (m - 1)) \ {0, slot}, Parent(t) # slot
          PROVE  f.heap[Parent(t)].time <= f.heap[t].time
      <4>1. t \in (0 .. m) \ {0} /\ Parent(t) \in 0 .. (m - 1)
        BY <1>0, <1>4, <2>3
      <4> QED BY <4>1, <3>1, <1>4, <2>1
    <3>2. ASSUME slot # 0, NEW t \in (0 .. (m - 1)) \ {0}, Parent(t) = slot
          PROVE  f.heap[Parent(slot)].time <= f.heap[t].time
      <4>1. t \in (0 .. m) \ {0} /\ slot \in (0 .. m) \ {0} /\ t # slot
        BY <3>2, <1>0, <1>4, <2>3
      <4>2. Parent(slot) \in 0 .. (m - 1) /\ Parent(slot) # slot /\ Parent(slot) \in 0 .. m
        BY <4>1, <1>0, <1>4, <1>7
      <4>3. f.heap[Parent(slot)] = q.heap[Parent(slot)] /\ f.heap[t] = q.heap[t]
        BY <4>1, <4>2, <2>1
      <4>4. q.heap[Parent(slot)].time <= q.heap[slot].time /\ q.heap[slot].time <= q.heap[t].time
        BY <4>1, <3>2, <1>4
      <4>5. q.heap[Parent(slot)].time \in Nat /\ q.heap[slot].time \in Nat /\ q.heap[t].time \in Nat
        BY <4>1, <4>2, <1>2
      <4> QED BY <4>3, <4>4, <4>5
    <3> QED BY <3>1, <3>2 DEF Bridged
  <2>6. slot # 0 => Parent(slot) \in (0 .. (m - 1)) \ {slot} /\ f.heap[Parent(slot)].time \in Nat
    <3>1. slot # 0 => Parent(slot) \in (0 .. (m - 1)) \ {slot}
      BY <1>0, <1>4, <1>7
    <3> QED BY <3>1, <1>2, <2>1, <2>3
  <2>7. x.time \in Nat
    BY <2>0 DEF Node
  <2>8. Placed(f, w, x, m, slot, slot) /\ InOrder(w, Filled(m, slot, slot))
    <3>1. CASE x.time >= f.heap[Parent(slot)].time
      <4>1. slot # 0 => f.heap[Parent(slot)].time <= x.time
        BY <3>1, <2>6, <2>7
      <4>2. curr_size(f) = m
        BY <1>0, <2>1, SizeIs
      <4>3. DownDone(f, w, x, m, slot, slot)
        BY <4>1, <4>2, <3>1, <2>2, <2>4, <2>5, <1>7, ReheapDown
      <4> QED BY <4>3 DEF DownDone
    <3>2. CASE ~(x.time >= f.heap[Parent(slot)].time)
      <4>1. slot # 0
        <5>1. Parent(0) = 0
          BY DEF Parent
        <5>2. slot = 0 => f.heap[Parent(slot)] = x
          BY <5>1, <2>0, <2>1
        <5> QED BY <5>2, <3>2, <2>7
      <4>2. ASSUME NEW t \in (0 .. (m - 1)) \ {0}, Parent(t) = slot PROVE x.time <= f.heap[t].time
        <5>1. f.heap[Parent(slot)].time <= f.heap[t].time
          BY <4>1, <4>2, <2>5 DEF Bridged
        <5>2. t # slot /\ t \in 0 .. m
          BY <4>2, <1>4, <2>3
        <5>3. f.heap[t].time \in Nat
          BY <5>2, <1>2, <2>1
        <5> QED BY <5>1, <5>3, <3>2, <4>1, <2>6, <2>7
      <4>3. UpDone(f, w, x, m, slot, slot)
        BY <4>2, <3>2, <2>2, <2>4, <2>5, ReheapUp
      <4> QED BY <4>3 DEF UpDone
    <3> QED BY <3>1, <3>2
  <2>9. Filled(m, slot, slot) = 0 .. (m - 1) /\ (0 .. (m - 1)) \cup {slot} = 0 .. (m - 1)
        /\ Others(m, slot, slot) = (0 .. (m - 1)) \ {slot}
    BY <2>0 DEF Filled, Others
  <2>10. /\ IsQueue(w) /\ w.size = q.size /\ w.min = q.min /\ DOMAIN w.ids = DOMAIN q.ids
         /\ DOMAIN w.heap = 0 .. (m - 1)
         /\ \A t \in 0 .. (m - 1) :
               /\ w.heap[t] = x \/ \E u \in (0 .. (m - 1)) \ {slot} : w.heap[t] = q.heap[u]
               /\ w.ids[w.heap[t].id] = t
         /\ w.ids[x.id] \in 0 .. (m - 1) /\ w.heap[w.ids[x.id]] = x
         /\ \A u \in (0 .. (m - 1)) \ {slot} :
               w.ids[q.heap[u].id] \in 0 .. (m - 1) /\ w.heap[w.ids[q.heap[u].id]] = q.heap[u]
         /\ \A i \in DOMAIN q.ids :
               i # x.id /\ (\A u \in (0 .. (m - 1)) \ {slot} : q.heap[u].id # i) => w.ids[i] = q.ids[i]
    <3>1. \A u \in (0 .. (m - 1)) \ {slot} : f.heap[u] = q.heap[u]
      BY <2>1
    <3>2. /\ IsQueue(w) /\ w.size = q.size /\ w.min = q.min /\ DOMAIN w.ids = DOMAIN q.ids
          /\ DOMAIN w.heap = 0 .. (m - 1)
      BY <2>1, <2>8, <2>9 DEF Placed
    <3>3. \A t \in 0 .. (m - 1) :
            /\ w.heap[t] = x \/ \E u \in (0 .. (m - 1)) \ {slot} : w.heap[t] = f.heap[u]
            /\ w.ids[w.heap[t].id] = t
      BY <2>8, <2>9 DEF Placed
    <3>4. w.ids[x.id] \in 0 .. (m - 1) /\ w.heap[w.ids[x.id]] = x
      BY <2>8, <2>9 DEF Placed
    <3>5. \A u \in (0 .. (m - 1)) \ {slot} :
            w.ids[f.heap[u].id] \in 0 .. (m - 1) /\ w.heap[w.ids[f.heap[u].id]] = f.heap[u]
      BY <2>8, <2>9 DEF Placed
    <3>6. \A i \in DOMAIN f.ids :
            i # x.id /\ (\A u \in (0 .. (m - 1)) \ {slot} : f.heap[u].id # i) => w.ids[i] = f.ids[i]
      BY <2>8, <2>9 DEF Placed
    <3>7. \A i \in DOMAIN q.ids :
            i # x.id /\ (\A u \in (0 .. (m - 1)) \ {slot} : q.heap[u].id # i) => w.ids[i] = q.ids[i]
      BY <2>1, <3>1, <3>6
    <3>8. \A t \in 0 .. (m - 1) :
            /\ w.heap[t] = x \/ \E u \in (0 .. (m - 1)) \ {slot} : w.heap[t] = q.heap[u]
            /\ w.ids[w.heap[t].id] = t
      BY <3>1, <3>3
    <3>9. \A u \in (0 .. (m - 1)) \ {slot} :
            w.ids[q.heap[u].id] \in 0 .. (m - 1) /\ w.heap[w.ids[q.heap[u].id]] = q.heap[u]
      BY <3>1, <3>5
    <3> QED BY <3>2, <3>4, <3>7, <3>8, <3>9
  <2>11. ASSUME NEW t \in 0 .. (m - 1) PROVE \E u \in (0 .. m) \ {slot} : w.heap[t] = q.heap[u]
    <3>1. m \in (0 .. m) \ {slot}
      BY <1>0, <1>7
    <3>2. w.heap[t] = x \/ \E u \in (0 .. (m - 1)) \ {slot} : w.heap[t] = q.heap[u]
      BY <2>10
    <3>3. \A u \in (0 .. (m - 1)) \ {slot} : u \in (0 .. m) \ {slot}
      BY <1>0
    <3> QED BY <3>1, <3>2, <3>3, <2>0
  <2>12. ASSUME NEW u \in (0 .. m) \ {slot} PROVE \E t \in 0 .. (m - 1) : w.heap[t] = q.heap[u]
    <3>1. u = m \/ u \in (0 .. (m - 1)) \ {slot}
      BY <1>0
    <3>2. CASE u = m
      BY <3>2, <2>0, <2>10
    <3>3. CASE u \in (0 .. (m - 1)) \ {slot}
      BY <3>3, <2>10
    <3> QED BY <3>1, <3>2, <3>3
  <2>13. \A u \in (0 .. m) \ {slot} : q.heap[u].id # g.id
    BY <1>0, <1>2
  <2>14. ASSUME NEW t \in 0 .. (m - 1)
         PROVE  /\ w.heap[t] \in Node /\ w.heap[t].id + 1 < w.size /\ w.heap[t].id \notin {g.id}
                /\ w.ids[w.heap[t].id] = t
    BY <1>2, <2>10, <2>11, <2>13
  <2>15. ASSUME NEW i \in (DOMAIN w.ids) \ {g.id}, \A t \in 0 .. (m - 1) : w.heap[t].id # i
         PROVE  w.ids[i] = -1 /\ w.min <= i
    <3>1. \A u \in (0 .. m) \ {slot} : q.heap[u].id # i
      BY <2>12, <2>15
    <3>2. \A u \in 0 .. m : q.heap[u].id # i
      BY <3>1, <2>15
    <3>3. q.ids[i] = -1 /\ q.min <= i
      BY <3>2, <1>3, <2>10, <2>15
    <3>4. i # x.id /\ w.ids[i] = q.ids[i]
      BY <3>2, <2>0, <2>3, <2>10, <2>15
    <3> QED BY <3>3, <3>4, <2>10
  <2>16. NodesOf(w) = NodesOf(q) \ {g}
    <3>1. ASSUME NEW y \in NodesOf(w) PROVE y \in NodesOf(q) /\ y # g
      <4>1. PICK t \in 0 .. (m - 1) : y = w.heap[t]
        BY <2>10 DEF NodesOf
      <4>2. PICK u \in (0 .. m) \ {slot} : y = q.heap[u]
        BY <4>1, <2>11
      <4> QED BY <4>2, <2>13, <1>01 DEF NodesOf
    <3>2. ASSUME NEW y \in NodesOf(q), y # g PROVE y \in NodesOf(w)
      <4>1. PICK u \in 0 .. m : y = q.heap[u]
        BY <1>01 DEF NodesOf
      <4>2. u # slot
        BY <4>1, <3>2
      <4>3. PICK t \in 0 .. (m - 1) : w.heap[t] = y
        BY <4>1, <4>2, <2>12
      <4> QED BY <4>3, <2>10 DEF NodesOf
    <3> QED BY <3>1, <3>2
  <2>17. InOrder(w, 0 .. (m - 1))
    BY <2>8, <2>9
  <2> HIDE DEF g
  <2> QED BY <1>0, <1>01, <2>10, <2>14, <2>15, <2>16, <2>17 DEF Sound
<1> QED BY <1>0, <1>6, <1>7

\* A queue with a new table of ids and a new start of the search.
LEMMA Renumbered ==
    ASSUME NEW a, NEW b, NEW c, NEW d, NEW y, NEW z, NEW q, NEW r,
           q = [heap |-> a, size |-> b, ids |-> c, min |-> d],
           r = [q EXCEPT !.ids = y, !.min = z]
    PROVE  r = [heap |-> a, size |-> b, ids |-> y, min |-> z]
OBVIOUS

\* release_timerid: the id lost is free again, and the search will find it.
LEMMA Released ==
    ASSUME NEW q, NEW n, NEW i, Sound(q, n, {i}), i \in DOMAIN q.ids
    PROVE  /\ Sound(release_timerid(q, i), n, {})
           /\ release_timerid(q, i).heap = q.heap /\ release_timerid(q, i).size = q.size
<1> DEFINE z == [q.ids EXCEPT ![i] = -1]
           k == Lesser(i, q.min)
           r == release_timerid(q, i)
<1>1. IsQueue(q)
  BY DEF Sound
<1>02. IsTable(z)
  BY <1>1 DEF IsQueue, IsTable
<1>2. /\ DOMAIN z = DOMAIN q.ids
      /\ \A j \in DOMAIN q.ids : z[j] = IF j = i THEN -1 ELSE q.ids[j]
  BY <1>1 DEF IsQueue
<1>3. r = [q EXCEPT !.ids = z, !.min = k]
  BY DEF release_timerid
<1> HIDE DEF z, k, r
<1>4. IsQueue(r) /\ r.heap = q.heap /\ r.size = q.size /\ r.ids = z /\ r.min = k
  <2>1. PICK a, b, c, d : q = [heap |-> a, size |-> b, ids |-> c, min |-> d]
    BY <1>1 DEF IsQueue
  <2>2. q.heap = a /\ q.size = b
    BY <2>1
  <2>3. r = [heap |-> a, size |-> b, ids |-> z, min |-> k]
    BY <2>1, <1>3, Renumbered
  <2> QED BY <2>2, <2>3, <1>02 DEF IsQueue, IsTable
<1>5. i \in Nat /\ q.size \in Nat /\ i < q.size /\ q.min \in Nat /\ q.min <= q.size
  BY DEF Sound
<1>6. k \in 0 .. q.size /\ k <= q.min /\ k <= i /\ k \in Nat
  BY <1>5 DEF k, Lesser
<1>7. ASSUME NEW s \in 0 .. (n - 1)
      PROVE  q.heap[s].id \in DOMAIN q.ids /\ q.heap[s].id # i
  BY IdsInside DEF Sound
<1>8. ASSUME NEW j \in DOMAIN q.ids, \A s \in 0 .. (n - 1) : q.heap[s].id # j
      PROVE  z[j] = -1 /\ k <= j
  <2>1. CASE j = i
    BY <2>1, <1>2, <1>6
  <2>2. CASE j # i
    <3>1. q.ids[j] = -1 /\ q.min <= j /\ j \in Int
      BY <2>2, <1>8 DEF Sound
    <3> QED BY <2>2, <3>1, <1>2, <1>5, <1>6
  <2> QED BY <2>1, <2>2
<1>9. InOrder(r, 0 .. (n - 1))
  BY <1>4 DEF Sound, InOrder
<1>10. /\ n \in Nat /\ DOMAIN q.heap = 0 .. (n - 1) /\ q.size \in 3 .. max_size /\ n < q.size
       /\ DOMAIN q.ids = 0 .. (q.size - 1)
       /\ \A s \in 0 .. (n - 1) : q.heap[s] \in Node /\ q.heap[s].id + 1 < q.size /\ q.ids[q.heap[s].id] = s
  BY DEF Sound
<1>11. Sound(r, n, {})
  <2>1. \A s \in 0 .. (n - 1) : z[q.heap[s].id] = s
    BY <1>2, <1>7, <1>10
  <2> QED BY <2>1, <1>2, <1>4, <1>6, <1>8, <1>9, <1>10 DEF Sound
<1> QED BY <1>4, <1>11 DEF r

\* discard: one node goes, and no id is lost.
LEMMA Discarded ==
    ASSUME NEW q, NEW n, Sound(q, n, {}), NEW slot \in 0 .. (n - 1)
    PROVE  /\ Sound(discard(q, slot), n - 1, {})
           /\ NodesOf(discard(q, slot)) = NodesOf(q) \ {q.heap[slot]}
<1> DEFINE r == remove(q, slot)
           i == q.heap[slot].id
<1>1. Sound(r, n - 1, {i}) /\ r.size = q.size /\ NodesOf(r) = NodesOf(q) \ {q.heap[slot]}
  BY Removed
<1>2. i \in DOMAIN q.ids /\ discard(q, slot) = release_timerid(r, i)
  BY IdsInside DEF discard
<1>3. i \in DOMAIN r.ids
  BY <1>1, <1>2 DEF Sound
<1> HIDE DEF r, i
<1>4. Sound(release_timerid(r, i), n - 1, {}) /\ release_timerid(r, i).heap = r.heap
  BY <1>1, <1>3, Released
<1>5. NodesOf(release_timerid(r, i)) = NodesOf(r)
  BY <1>4 DEF NodesOf
<1> QED BY <1>1, <1>2, <1>4, <1>5

\* discard_all, as a function of the number of nodes discarded.
MineSlots(r, h) == {s \in DOMAIN r.heap : r.heap[s].handler = h}
FirstMine(r, h) == CHOOSE s \in MineSlots(r, h) : \A t \in MineSlots(r, h) : s <= t
IsAfter(f, q, h, m) ==
    f = [k \in 0 .. m |-> IF k = 0 THEN q ELSE discard(f[k - 1], FirstMine(f[k - 1], h))]

\* There is such a function.
LEMMA AfterExists ==
    ASSUME NEW q, NEW h
    PROVE  \A m \in Nat : \E f : IsAfter(f, q, h, m)
<1> DEFINE N == {m \in Nat : \E f : IsAfter(f, q, h, m)}
<1>1. 0 \in N
  <2> DEFINE f == [k \in 0 .. 0 |-> q]
  <2>1. IsAfter(f, q, h, 0)
    BY DEF IsAfter
  <2> QED BY <2>1
<1>2. ASSUME NEW m \in N PROVE m + 1 \in N
  <2>1. PICK f : IsAfter(f, q, h, m)
    OBVIOUS
  <2> DEFINE Val(k) == IF k = 0 THEN q ELSE discard(f[k - 1], FirstMine(f[k - 1], h))
             g == [k \in 0 .. (m + 1) |-> IF k = m + 1 THEN Val(k) ELSE f[k]]
  <2>2. \A k \in 0 .. m : f[k] = Val(k)
    BY <2>1 DEF IsAfter
  <2>3. \A k \in 0 .. (m + 1) : g[k] = Val(k)
    BY <2>2
  <2>4. ASSUME NEW k \in 0 .. (m + 1), k # 0 PROVE g[k - 1] = f[k - 1]
    BY <2>4
  <2> HIDE DEF g
  <2>5. DOMAIN g = 0 .. (m + 1) /\ g = [k \in DOMAIN g |-> g[k]]
    BY DEF g
  <2>6. IsAfter(g, q, h, m + 1)
    BY <2>3, <2>4, <2>5 DEF IsAfter
  <2> QED BY <2>6
<1> HIDE DEF N
<1>3. N = Nat
  <2>1. N \in SUBSET Nat
    BY DEF N
  <2> QED BY <1>1, <1>2, <2>1, SetInduction
<1> QED BY <1>3 DEF N

\* discard_all is its last value.
LEMMA AfterIs ==
    ASSUME NEW q, NEW h, Cardinality(MineSlots(q, h)) \in Nat
    PROVE  \E f : /\ IsAfter(f, q, h, Cardinality(MineSlots(q, h)))
                  /\ discard_all(q, h) = f[Cardinality(MineSlots(q, h))]
<1> DEFINE m == Cardinality(MineSlots(q, h))
           g == CHOOSE f : IsAfter(f, q, h, m)
<1>1. IsAfter(g, q, h, m)
  BY AfterExists
<1>2. discard_all(q, h) = g[m]
  BY DEF discard_all, IsAfter, MineSlots, FirstMine
<1> QED BY <1>1, <1>2

\* A handler has as many slots as nodes.
LEMMA MineCounted ==
    ASSUME NEW q, NEW n, Sound(q, n, {}), NEW h
    PROVE  /\ IsFiniteSet(MineSlots(q, h)) /\ Cardinality(MineSlots(q, h)) \in Nat
           /\ IsFiniteSet({y \in NodesOf(q) : y.handler = h})
           /\ Cardinality(MineSlots(q, h)) = Cardinality({y \in NodesOf(q) : y.handler = h})
<1> DEFINE S == MineSlots(q, h)
           Own == {y \in NodesOf(q) : y.handler = h}
           f == [s \in S |-> q.heap[s]]
<1>1. S \in SUBSET (0 .. (n - 1)) /\ n \in Nat /\ DOMAIN q.heap = 0 .. (n - 1)
  BY DEF MineSlots, Sound
<1>2. IsFiniteSet(S)
  <2>1. 0 \in Int /\ n - 1 \in Int
    BY <1>1
  <2>2. IsFiniteSet(0 .. (n - 1))
    BY <2>1, FS_Interval
  <2> HIDE DEF S
  <2> QED BY <1>1, <2>2, FS_Subset
<1>3. \A s, t \in S : q.heap[s] = q.heap[t] => s = t
  BY <1>1 DEF Sound
<1>4. \A s \in S : q.heap[s] \in Own
  BY DEF MineSlots, NodesOf
<1>5. \A y \in Own : \E s \in S : q.heap[s] = y
  BY DEF MineSlots, NodesOf
<1> HIDE DEF S, Own
<1>6. f \in Bijection(S, Own)
  BY <1>3, <1>4, <1>5 DEF Bijection, Injection, Surjection, IsInjective
<1>7. ExistsBijection(S, Own)
  BY <1>6 DEF ExistsBijection
<1>8. IsFiniteSet(Own) /\ Cardinality(Own) = Cardinality(S) /\ Cardinality(S) \in Nat
  BY <1>2, <1>7, FS_Bijection, FS_CardinalityType
<1> QED BY <1>2, <1>8 DEF S, Own

\* discard_all: the handler's nodes go, the others stay.
LEMMA DiscardedAll ==
    ASSUME NEW q, NEW n, Sound(q, n, {}), NEW h
    PROVE  \E m \in Nat : /\ m <= n /\ Sound(discard_all(q, h), m, {})
                          /\ NodesOf(discard_all(q, h)) = {y \in NodesOf(q) : y.handler # h}
<1> DEFINE M == Cardinality(MineSlots(q, h))
<1>0. M \in Nat /\ n \in Nat
  BY MineCounted DEF Sound
<1>1. PICK f : IsAfter(f, q, h, M) /\ discard_all(q, h) = f[M]
  BY <1>0, AfterIs
<1> DEFINE Holds(k) ==
             /\ \E m \in Nat : m <= n /\ Sound(f[k], m, {})
             /\ NodesOf(f[k]) \subseteq NodesOf(q)
             /\ \A y \in NodesOf(q) : y.handler # h => y \in NodesOf(f[k])
             /\ Cardinality(MineSlots(f[k], h)) = M - k
           N == {k \in Nat : k <= M => Holds(k)}
<1> HIDE DEF M
<1>2. 0 \in N
  <2>1. f[0] = q
    BY <1>0, <1>1 DEF IsAfter
  <2> QED BY <2>1, <1>0 DEF M
<1>3. ASSUME NEW k \in N, k + 1 <= M PROVE Holds(k + 1)
  <2> DEFINE r == f[k]
             s == FirstMine(r, h)
             w == f[k + 1]
  <2>0. k \in Nat /\ Holds(k)
    BY <1>0, <1>3
  <2>1. PICK m \in Nat : m <= n /\ Sound(r, m, {})
    BY <2>0
  <2>2. w = discard(r, s)
    <3>1. k + 1 \in 0 .. M /\ k + 1 # 0 /\ (k + 1) - 1 = k
      BY <1>0, <1>3, <2>0
    <3> QED BY <1>1, <3>1 DEF IsAfter
  <2>3. /\ NodesOf(r) \subseteq NodesOf(q) /\ (\A y \in NodesOf(q) : y.handler # h => y \in NodesOf(r))
        /\ Cardinality(MineSlots(r, h)) = M - k
    BY <2>0
  <2> HIDE DEF r, s, w, Holds
  <2>4. MineSlots(r, h) # {} /\ DOMAIN r.heap = 0 .. (m - 1)
    <3>1. M - k # 0
      BY <1>0, <1>3, <2>0
    <3> QED BY <2>1, <2>3, <3>1, FS_EmptySet DEF Sound
  <2>5. s \in MineSlots(r, h)
    <3>1. MineSlots(r, h) \in SUBSET Nat
      BY <2>4 DEF MineSlots
    <3>2. \E t \in MineSlots(r, h) : \A u \in MineSlots(r, h) : t <= u
      BY <2>4, <3>1, LeastNatural
    <3> QED BY <3>2 DEF s, FirstMine
  <2>6. s \in 0 .. (m - 1) /\ r.heap[s].handler = h /\ r.heap[s] \in NodesOf(r)
    BY <2>4, <2>5 DEF MineSlots, NodesOf
  <2>7. Sound(w, m - 1, {}) /\ NodesOf(w) = NodesOf(r) \ {r.heap[s]} /\ m - 1 \in Nat /\ m - 1 <= n
    BY <1>0, <2>1, <2>2, <2>6, Discarded
  <2>8. Cardinality(MineSlots(w, h)) = M - (k + 1)
    <3> DEFINE Y == {y \in NodesOf(r) : y.handler = h}
               Z == {y \in NodesOf(w) : y.handler = h}
    <3>1. /\ IsFiniteSet(Y) /\ Cardinality(Y) = M - k
          /\ Cardinality(MineSlots(w, h)) = Cardinality(Z)
      BY <2>1, <2>3, <2>7, MineCounted
    <3>2. Z = Y \ {r.heap[s]} /\ r.heap[s] \in Y
      BY <2>6, <2>7
    <3> HIDE DEF Y, Z
    <3>3. Cardinality(Z) = (M - k) - 1
      BY <3>1, <3>2, FS_RemoveElement
    <3> QED BY <3>1, <3>3, <1>0, <2>0
  <2>9. /\ \E j \in Nat : j <= n /\ Sound(w, j, {})
        /\ NodesOf(w) \subseteq NodesOf(q)
        /\ \A y \in NodesOf(q) : y.handler # h => y \in NodesOf(w)
    BY <2>3, <2>6, <2>7
  <2> QED BY <2>8, <2>9 DEF Holds, w
<1>4. \A k \in N : k + 1 \in N
  <2> HIDE DEF Holds
  <2> QED BY <1>3
<1>5. Holds(M)
  <2> HIDE DEF Holds
  <2>1. N \in SUBSET Nat
    OBVIOUS
  <2>2. N = Nat
    <3> HIDE DEF N
    <3> QED BY <1>2, <1>4, <2>1, SetInduction
  <2> QED BY <1>0, <2>2
<1> DEFINE r == f[M]
<1>6. PICK m \in Nat : m <= n /\ Sound(r, m, {})
  BY <1>5
<1>7. /\ NodesOf(r) \subseteq NodesOf(q) /\ (\A y \in NodesOf(q) : y.handler # h => y \in NodesOf(r))
      /\ Cardinality(MineSlots(r, h)) = 0
  BY <1>0, <1>5
<1> HIDE DEF r
<1>8. MineSlots(r, h) = {}
  BY <1>6, <1>7, MineCounted, FS_EmptySet
<1>9. \A y \in NodesOf(r) : y.handler # h
  BY <1>8 DEF MineSlots, NodesOf
<1>10. NodesOf(r) = {y \in NodesOf(q) : y.handler # h}
  BY <1>7, <1>9
<1> QED BY <1>1, <1>6, <1>10 DEF r

\* A queue with new sizes, ids and start of the search.
LEMMA Resized ==
    ASSUME NEW a, NEW b, NEW c, NEW d, NEW x, NEW y, NEW z, NEW q, NEW r,
           q = [heap |-> a, size |-> b, ids |-> c, min |-> d],
           r = [q EXCEPT !.size = x, !.ids = y, !.min = z]
    PROVE  r = [heap |-> a, size |-> x, ids |-> y, min |-> z]
OBVIOUS

\* A queue whose search for an id starts elsewhere.
LEMMA Restarted ==
    ASSUME NEW a, NEW b, NEW c, NEW d, NEW z, NEW q, NEW r,
           q = [heap |-> a, size |-> b, ids |-> c, min |-> d],
           r = [q EXCEPT !.min = z]
    PROVE  r = [heap |-> a, size |-> b, ids |-> c, min |-> z]
OBVIOUS

\* n timers leave one of the ids 0 .. n free.
LEMMA OneIsFree ==
    ASSUME NEW q, NEW n, Sound(q, n, {})
    PROVE  \E i \in 0 .. n : \A s \in 0 .. (n - 1) : q.heap[s].id # i
<1>0. n \in Nat /\ q.size \in Nat /\ n < q.size /\ DOMAIN q.ids = 0 .. (q.size - 1)
  BY DEF Sound
<1>1. SUFFICES ASSUME \A i \in 0 .. n : \E s \in 0 .. (n - 1) : q.heap[s].id = i
               PROVE  FALSE
  OBVIOUS
<1> DEFINE f == [i \in 0 .. n |-> q.ids[i]]
<1>2. ASSUME NEW i \in 0 .. n PROVE f[i] \in 0 .. (n - 1) /\ q.heap[f[i]].id = i
  <2>1. PICK s \in 0 .. (n - 1) : q.heap[s].id = i
    BY <1>1
  <2>2. q.ids[i] = s
    BY <2>1 DEF Sound
  <2> QED BY <2>1, <2>2
<1>3. f \in [0 .. n -> 0 .. (n - 1)]
  BY <1>2
<1>4. /\ IsFiniteSet(0 .. n) /\ IsFiniteSet(0 .. (n - 1))
      /\ Cardinality(0 .. (n - 1)) < Cardinality(0 .. n)
  <2>1. IsFiniteSet(0 .. n) /\ Cardinality(0 .. n) = IF 0 > n THEN 0 ELSE n - 0 + 1
    BY <1>0, FS_Interval
  <2>2. n - 1 \in Int /\ 0 \in Int
    BY <1>0
  <2>3. IsFiniteSet(0 .. (n - 1)) /\ Cardinality(0 .. (n - 1)) = IF 0 > n - 1 THEN 0 ELSE n - 1 - 0 + 1
    BY <2>2, FS_Interval
  <2> QED BY <1>0, <2>1, <2>3
<1> HIDE DEF f
<1>5. \E i, j \in 0 .. n : i # j /\ f[i] = f[j]
  BY <1>3, <1>4, FS_PigeonHole
<1> QED BY <1>2, <1>5

\* n timers whose ids are below n have all of them.
LEMMA AllTaken ==
    ASSUME NEW q, NEW n, Sound(q, n, {}), \A s \in 0 .. (n - 1) : q.heap[s].id < n, NEW i \in 0 .. (n - 1)
    PROVE  \E s \in 0 .. (n - 1) : q.heap[s].id = i
<1>0. n \in Nat
  BY DEF Sound
<1>1. SUFFICES ASSUME \A s \in 0 .. (n - 1) : q.heap[s].id # i
               PROVE  FALSE
  OBVIOUS
<1> DEFINE f == [s \in 0 .. (n - 1) |-> q.heap[s].id]
           Own == (0 .. (n - 1)) \ {i}
<1>2. ASSUME NEW s \in 0 .. (n - 1) PROVE f[s] \in Own /\ q.ids[f[s]] = s
  <2>1. q.heap[s].id \in Nat /\ q.heap[s].id < n /\ q.heap[s].id # i /\ q.ids[q.heap[s].id] = s
    <3>1. q.heap[s].id \in Nat /\ q.heap[s].id < n /\ q.heap[s].id # i
      BY <1>1, IdsInside
    <3> QED BY <3>1 DEF Sound
  <2> QED BY <1>0, <2>1
<1>3. f \in [0 .. (n - 1) -> Own]
  BY <1>2
<1>4. /\ IsFiniteSet(0 .. (n - 1)) /\ IsFiniteSet(Own)
      /\ Cardinality(Own) < Cardinality(0 .. (n - 1))
  <2>2. n - 1 \in Int /\ 0 \in Int
    BY <1>0
  <2>3. IsFiniteSet(0 .. (n - 1)) /\ Cardinality(0 .. (n - 1)) = IF 0 > n - 1 THEN 0 ELSE n - 1 - 0 + 1
    BY <2>2, FS_Interval
  <2>4. Cardinality(0 .. (n - 1)) \in Nat
    BY <1>0, <2>3
  <2>5. IsFiniteSet(Own) /\ Cardinality(Own) = Cardinality(0 .. (n - 1)) - 1
    BY <2>3, FS_RemoveElement
  <2> QED BY <2>3, <2>4, <2>5
<1> HIDE DEF f, Own
<1>5. \E s, u \in 0 .. (n - 1) : s # u /\ f[s] = f[u]
  BY <1>3, <1>4, FS_PigeonHole
<1> QED BY <1>2, <1>5

\* alloc_timerid finds the least id that is not taken, and at most n.
LEMMA Allocated ==
    ASSUME NEW q, NEW n, Sound(q, n, {})
    PROVE  /\ FreeIds(q) # {} /\ alloc_timerid(q) \in 0 .. n
           /\ \A s \in 0 .. (n - 1) : q.heap[s].id # alloc_timerid(q)
           /\ q.min <= alloc_timerid(q)
           /\ \A i \in DOMAIN q.ids : (\A s \in 0 .. (n - 1) : q.heap[s].id # i) => alloc_timerid(q) <= i
<1>0. n \in Nat /\ q.size \in Nat /\ n < q.size /\ DOMAIN q.ids = 0 .. (q.size - 1) /\ q.min \in Nat
  BY DEF Sound
<1>1. ASSUME NEW i \in DOMAIN q.ids, \A s \in 0 .. (n - 1) : q.heap[s].id # i
      PROVE  i \in FreeIds(q)
  <2>1. q.ids[i] = -1 /\ q.min <= i
    BY <1>1 DEF Sound
  <2> QED BY <1>0, <2>1 DEF FreeIds
<1>2. PICK i \in 0 .. n : \A s \in 0 .. (n - 1) : q.heap[s].id # i
  BY OneIsFree
<1>3. i \in FreeIds(q) /\ i \in Nat /\ i <= n
  BY <1>0, <1>1, <1>2
<1>4. FreeIds(q) \in SUBSET Nat
  BY <1>0 DEF FreeIds
<1>5. \E j \in FreeIds(q) : \A k \in FreeIds(q) : j <= k
  BY <1>3, <1>4, LeastNatural
<1>6. alloc_timerid(q) \in FreeIds(q) /\ \A k \in FreeIds(q) : alloc_timerid(q) <= k
  BY <1>5 DEF alloc_timerid
<1>7. alloc_timerid(q) \in 0 .. n /\ q.min <= alloc_timerid(q) /\ q.ids[alloc_timerid(q)] = -1
  BY <1>0, <1>3, <1>4, <1>6 DEF FreeIds
<1>8. ASSUME NEW s \in 0 .. (n - 1) PROVE q.heap[s].id # alloc_timerid(q)
  <2>1. q.ids[q.heap[s].id] = s /\ s # -1
    BY DEF Sound
  <2> QED BY <2>1, <1>7
<1> QED BY <1>1, <1>3, <1>6, <1>7, <1>8

\* schedule, from the search for an id to the end of insert.
LEMMA Scheduled ==
    ASSUME NEW q, NEW n, Sound(q, n, {}), max_size \in Nat, n + 1 < max_size,
           NEW x \in Node, x.id = alloc_timerid(q)
    PROVE  /\ Sound(insert([q EXCEPT !.min = @ + 1], x), n + 1, {})
           /\ NodesOf(insert([q EXCEPT !.min = @ + 1], x)) = NodesOf(q) \cup {x}
<1> DEFINE i == alloc_timerid(q)
<1>0. n \in Nat /\ q.size \in Nat /\ n < q.size /\ DOMAIN q.ids = 0 .. (q.size - 1) /\ q.size >= 3 /\ q.size <= max_size
  BY DEF Sound
<1>1. i \in Nat /\ i <= n /\ q.min \in Nat /\ q.min <= i
  <2>1. q.min \in Nat
    BY DEF Sound
  <2>2. i \in 0 .. n /\ q.min <= i
    BY Allocated
  <2> QED BY <1>0, <2>1, <2>2
<1>2. PICK a, b, c, d : q = [heap |-> a, size |-> b, ids |-> c, min |-> d]
  BY DEF Sound, IsQueue
<1>3. q.heap = a /\ q.size = b /\ q.ids = c /\ q.min = d
  BY <1>2
<1>4. PICK p : p = [q EXCEPT !.min = @ + 1]
  OBVIOUS
<1>5. IsQueue(p) /\ p.heap = q.heap /\ p.size = q.size /\ p.ids = q.ids /\ p.min = q.min + 1
  <2>1. PICK z : z = q.min + 1
    OBVIOUS
  <2>2. p = [q EXCEPT !.min = z]
    BY <1>4, <2>1
  <2>3. p = [heap |-> a, size |-> b, ids |-> c, min |-> z]
    BY <1>2, <2>2, Restarted
  <2>4. IsTable(c)
    BY <1>3 DEF Sound, IsQueue, IsTable
  <2> QED BY <2>1, <2>3, <2>4, <1>3 DEF IsQueue, IsTable
<1>6. Sound(p, n, {i}) /\ NodesOf(p) = NodesOf(q)
  <2>1. ASSUME NEW j \in (DOMAIN p.ids) \ {i}, \A s \in 0 .. (n - 1) : p.heap[s].id # j
        PROVE  p.ids[j] = -1 /\ p.min <= j
    <3>1. j \in DOMAIN q.ids /\ \A s \in 0 .. (n - 1) : q.heap[s].id # j
      BY <2>1, <1>5
    <3>2. i <= j /\ j \in Nat /\ q.ids[j] = -1
      <4>1. i <= j
        BY <3>1, Allocated
      <4>2. q.ids[j] = -1
        BY <3>1 DEF Sound
      <4> QED BY <4>1, <4>2, <3>1, <1>0
    <3> QED BY <3>2, <2>1, <1>1, <1>5
  <2>2. p.min \in 0 .. p.size
    BY <1>0, <1>1, <1>5
  <2>3. \A s \in 0 .. (n - 1) : p.heap[s].id \notin {i}
    BY <1>5, Allocated
  <2>4. InOrder(p, 0 .. (n - 1))
    BY <1>5 DEF Sound, InOrder
  <2>5. /\ n \in Nat /\ DOMAIN q.heap = 0 .. (n - 1) /\ q.size \in 3 .. max_size /\ n < q.size
        /\ DOMAIN q.ids = 0 .. (q.size - 1)
        /\ \A s \in 0 .. (n - 1) : q.heap[s] \in Node /\ q.heap[s].id + 1 < q.size /\ q.ids[q.heap[s].id] = s
    BY DEF Sound
  <2> HIDE DEF i
  <2>6. Sound(p, n, {i})
    BY <2>1, <2>2, <2>3, <2>4, <2>5, <1>5 DEF Sound
  <2> QED BY <2>6, <1>5 DEF NodesOf
<1>7. curr_size(p) = n
  BY <1>0, <1>6, SizeIs DEF Sound
<1>8. CASE ~(n + 1 >= p.size)
  <2>1. n + 1 < p.size /\ x.id + 1 < p.size
    BY <1>0, <1>1, <1>5, <1>8
  <2>2. insert(p, x) = reheap_up(p, x, n)
    BY <1>7, <1>8 DEF insert
  <2> HIDE DEF i
  <2>3. Sound(p, n, {x.id})
    BY <1>6 DEF i
  <2>4. Sound(insert(p, x), n + 1, {}) /\ NodesOf(insert(p, x)) = NodesOf(p) \cup {x}
    BY <2>1, <2>2, <2>3, Inserted
  <2> QED BY <2>4, <1>4, <1>6
<1>9. CASE n + 1 >= p.size
  <2> DEFINE g == grow_heap(p)
             size == Lesser(n * 2, max_size)
             z == [j \in 0 .. (size - 1) |-> IF j < n THEN p.ids[j] ELSE -1]
  <2>1. n + 1 = q.size /\ n >= 2
    BY <1>0, <1>5, <1>9
  <2>2. \A s \in 0 .. (n - 1) : q.heap[s].id \in Nat /\ q.heap[s].id < n
    <3>1. ASSUME NEW s \in 0 .. (n - 1) PROVE q.heap[s].id \in Nat /\ q.heap[s].id < n
      <4>1. q.heap[s].id \in 0 .. (q.size - 2)
        BY IdsInside
      <4> QED BY <4>1, <2>1, <1>0
    <3> QED BY <3>1
  <2>3. i = n
    <3>1. CASE i < n
      <4>1. i \in 0 .. (n - 1)
        BY <3>1, <1>0, <1>1
      <4>2. \E s \in 0 .. (n - 1) : q.heap[s].id = i
        BY <4>1, <2>2, AllTaken
      <4> QED BY <4>2, Allocated
    <3> QED BY <3>1, <1>0, <1>1
  <2>4. size \in Nat /\ n + 1 < size /\ size <= max_size /\ size >= 3
    BY <2>1, <1>0 DEF Lesser
  <2>5. g = [p EXCEPT !.size = size, !.ids = z, !.min = n]
    BY <1>7 DEF grow_heap
  <2>6. /\ IsTable(z) /\ DOMAIN z = 0 .. (size - 1)
        /\ \A j \in 0 .. (size - 1) : z[j] = IF j < n THEN q.ids[j] ELSE -1
    BY <1>5 DEF IsTable
  <2> HIDE DEF g, size, z
  <2>7. IsQueue(g) /\ g.heap = q.heap /\ g.size = size /\ g.ids = z /\ g.min = n
    <3>1. PICK a1, b1, c1, d1 : p = [heap |-> a1, size |-> b1, ids |-> c1, min |-> d1]
      BY <1>5 DEF IsQueue
    <3>2. p.heap = a1
      BY <3>1
    <3>3. g = [heap |-> a1, size |-> size, ids |-> z, min |-> n]
      BY <3>1, <2>5, Resized
    <3> QED BY <3>2, <3>3, <2>6, <1>5 DEF IsQueue, IsTable
  <2>8. Sound(g, n, {n})
    <3>1. ASSUME NEW s \in 0 .. (n - 1)
          PROVE  /\ g.heap[s] \in Node /\ g.heap[s].id + 1 < g.size /\ g.heap[s].id \notin {n}
                 /\ g.ids[g.heap[s].id] = s
      <4>1. q.heap[s] \in Node /\ q.ids[q.heap[s].id] = s
        BY DEF Sound
      <4>2. q.heap[s].id \in 0 .. (size - 1) /\ q.heap[s].id < n /\ q.heap[s].id \in Nat
        BY <2>2, <2>4, <1>0
      <4>3. g.heap[s] = q.heap[s] /\ g.heap[s].id + 1 < g.size /\ g.heap[s].id # n
        BY <4>2, <2>4, <2>7, <1>0
      <4>4. g.ids[g.heap[s].id] = s
        BY <4>1, <4>2, <4>3, <2>6, <2>7
      <4> QED BY <4>1, <4>3, <4>4
    <3>2. ASSUME NEW j \in (DOMAIN g.ids) \ {n}, \A s \in 0 .. (n - 1) : g.heap[s].id # j
          PROVE  g.ids[j] = -1 /\ g.min <= j
      <4>1. j \in 0 .. (size - 1) /\ j # n /\ j \in Nat
        BY <2>4, <2>6, <2>7
      <4>2. ~(j < n)
        <5>1. SUFFICES ASSUME j < n PROVE FALSE
          OBVIOUS
        <5>2. j \in 0 .. (n - 1)
          BY <4>1, <5>1, <1>0
        <5>3. \E s \in 0 .. (n - 1) : q.heap[s].id = j
          BY <5>2, <2>2, AllTaken
        <5> QED BY <5>3, <3>2, <2>7
      <4> QED BY <4>1, <4>2, <2>6, <2>7, <1>0
    <3>3. InOrder(g, 0 .. (n - 1))
      BY <2>7 DEF Sound, InOrder
    <3>4. DOMAIN g.heap = 0 .. (n - 1) /\ DOMAIN g.ids = 0 .. (g.size - 1)
      BY <2>6, <2>7 DEF Sound
    <3>5. g.size \in 3 .. max_size /\ n < g.size /\ g.min \in 0 .. g.size
      BY <2>4, <2>7, <1>0
    <3> QED BY <3>1, <3>2, <3>3, <3>4, <3>5, <2>7, <1>0 DEF Sound
  <2>9. curr_size(g) = n /\ NodesOf(g) = NodesOf(q)
    <3>1. DOMAIN g.heap = 0 .. (n - 1)
      BY <2>8 DEF Sound
    <3>2. curr_size(g) = n
      BY <3>1, <1>0, SizeIs
    <3> QED BY <3>2, <2>7 DEF NodesOf
  <2>10. insert(p, x) = reheap_up(g, x, n)
    BY <2>9, <1>7, <1>9 DEF insert, g
  <2>11. x.id = n
    BY <2>3
  <2>12. Sound(g, n, {x.id}) /\ n + 1 < g.size /\ x.id + 1 < g.size
    BY <2>4, <2>7, <2>8, <2>11
  <2> HIDE DEF i
  <2>13. Sound(insert(p, x), n + 1, {}) /\ NodesOf(insert(p, x)) = NodesOf(g) \cup {x}
    BY <2>10, <2>12, Inserted
  <2> QED BY <2>9, <2>13, <1>4
<1> QED BY <1>8, <1>9

\* NodesOf under different ids.
Distinct(N) == \A x \in N, y \in N : x.id = y.id => x = y

\* What the abstract set of timers keeps of a node.
Timer(y) == [handler |-> y.handler, time |-> y.time, interval |-> y.interval]

\* The nodes of a queue that is in order have different ids.
LEMMA NodesDistinct ==
    ASSUME NEW q, NEW n, NEW lost, Sound(q, n, lost)
    PROVE  /\ Distinct(NodesOf(q))
           /\ \A y \in NodesOf(q) : y \in Node /\ y.id \in 0 .. (q.size - 2) /\ y.id \notin lost
<1>1. DOMAIN q.heap = 0 .. (n - 1)
  BY DEF Sound
<1>2. ASSUME NEW x \in NodesOf(q), NEW y \in NodesOf(q), x.id = y.id PROVE x = y
  <2>1. PICK s \in 0 .. (n - 1) : x = q.heap[s]
    BY <1>1 DEF NodesOf
  <2>2. PICK t \in 0 .. (n - 1) : y = q.heap[t]
    BY <1>1 DEF NodesOf
  <2>3. q.ids[x.id] = s /\ q.ids[y.id] = t
    BY <2>1, <2>2 DEF Sound
  <2> QED BY <2>1, <2>2, <2>3, <1>2
<1>3. ASSUME NEW y \in NodesOf(q) PROVE y \in Node /\ y.id \in 0 .. (q.size - 2) /\ y.id \notin lost
  <2>1. PICK s \in 0 .. (n - 1) : y = q.heap[s]
    BY <1>1 DEF NodesOf
  <2>2. y.id \in 0 .. (q.size - 2)
    BY <2>1, IdsInside
  <2> QED BY <2>1, <2>2 DEF Sound
<1> QED BY <1>2, <1>3 DEF Distinct

\* The view has each node's timer under the node's id, and nothing else.
LEMMA ViewIs ==
    ASSUME NEW N, Distinct(N)
    PROVE  /\ IsTable(View(N)) /\ DOMAIN View(N) = {y.id : y \in N}
           /\ \A y \in N : View(N)[y.id] = Timer(y)
<1>1. IsTable(View(N)) /\ DOMAIN View(N) = {y.id : y \in N}
  BY DEF View, IsTable
<1>2. ASSUME NEW y \in N PROVE View(N)[y.id] = Timer(y)
  <2> DEFINE z == CHOOSE u \in N : u.id = y.id
  <2>1. z \in N /\ z.id = y.id
    OBVIOUS
  <2>2. z = y
    BY <2>1 DEF Distinct
  <2>3. View(N)[y.id] = [handler |-> z.handler, time |-> z.time, interval |-> z.interval]
    BY DEF View
  <2> QED BY <2>2, <2>3 DEF Timer
<1> QED BY <1>1, <1>2

\* A function that does so is the view.
LEMMA ViewMade ==
    ASSUME NEW N, Distinct(N), NEW f, IsTable(f), DOMAIN f = {y.id : y \in N},
           \A y \in N : f[y.id] = Timer(y)
    PROVE  f = View(N)
<1>1. /\ IsTable(View(N)) /\ DOMAIN View(N) = {y.id : y \in N}
      /\ \A y \in N : View(N)[y.id] = Timer(y)
  BY ViewIs
<1>2. \A i \in DOMAIN f : f[i] = View(N)[i]
  BY <1>1
<1> QED BY <1>1, <1>2 DEF IsTable

----------------------------------------------------------------------------
(* What each operation does to the queue of a state.                       *)

\* The callers keep below the queue's limit, and no handler returns -1 for a
\* timer that it cancelled itself.
Careful == MaxTimers < max_size /\ CancelsOwn = FALSE

\* The ids of a queue's nodes.
IdsOf(q) == {y.id : y \in NodesOf(q)}

\* The ids of the scheduled timers are those of the queue's nodes.
LEMMA LiveIs == Live = IdsOf(Queue)
BY DEF Live, IdsOf, NodesOf, Queue

\* A step that makes the queue q leaves q in the variables.
LEMMA BecomesIs ==
    ASSUME NEW q, IsQueue(q), Becomes(q)
    PROVE  Queue' = q
<1>1. /\ timer_heap' = q.heap /\ timer_heap_size' = q.size
      /\ timer_ids' = q.ids /\ min_timer_id' = q.min
  BY DEF Becomes
<1>2. q = [heap |-> q.heap, size |-> q.size, ids |-> q.ids, min |-> q.min]
  BY DEF IsQueue
<1> QED BY <1>1, <1>2 DEF Queue

\* The fields of the queue are the variables.
LEMMA QueueIs ==
    /\ Queue.heap = timer_heap /\ Queue.size = timer_heap_size
    /\ Queue.ids = timer_ids /\ Queue.min = min_timer_id
BY DEF Queue

\* As many timers are scheduled as there are nodes.
LEMMA LiveCounted ==
    ASSUME NEW n, Sound(Queue, n, {})
    PROVE  Cardinality(Live) = n
<1> DEFINE f == [s \in 0 .. (n - 1) |-> timer_heap[s].id]
<1>1. n \in Nat /\ DOMAIN timer_heap = 0 .. (n - 1)
  BY QueueIs DEF Sound
<1>2. \A s \in 0 .. (n - 1) : timer_ids[timer_heap[s].id] = s
  BY QueueIs DEF Sound
<1>3. f \in Bijection(0 .. (n - 1), Live)
  <2>1. f \in [0 .. (n - 1) -> Live]
    BY <1>1 DEF Live
  <2>2. \A s, t \in 0 .. (n - 1) : f[s] = f[t] => s = t
    <3>1. ASSUME NEW s \in 0 .. (n - 1), NEW t \in 0 .. (n - 1), f[s] = f[t] PROVE s = t
      <4>1. timer_ids[f[s]] = s /\ timer_ids[f[t]] = t
        BY <1>2
      <4> QED BY <4>1, <3>1
    <3> QED BY <3>1
  <2>3. \A i \in Live : \E s \in 0 .. (n - 1) : f[s] = i
    BY <1>1 DEF Live
  <2> QED BY <2>1, <2>2, <2>3 DEF Bijection, Injection, Surjection, IsInjective
<1>4. IsFiniteSet(0 .. (n - 1)) /\ Cardinality(0 .. (n - 1)) = n
  BY <1>1, FS_Interval
<1>5. ExistsBijection(0 .. (n - 1), Live)
  BY <1>3 DEF ExistsBijection
<1> QED BY <1>4, <1>5, FS_Bijection

\* The slot of a scheduled timer's id is that of its node: cancel's asserts
\* hold for it.
LEMMA SlotOf ==
    ASSUME NEW n, Sound(Queue, n, {}), NEW id \in Live
    PROVE  /\ timer_ids[id] \in 0 .. (n - 1) /\ timer_ids[id] \in DOMAIN timer_heap
           /\ timer_ids[id] >= 0
           /\ timer_heap[timer_ids[id]].id = id
<1>1. n \in Nat /\ DOMAIN timer_heap = 0 .. (n - 1)
  BY QueueIs DEF Sound
<1>2. PICK s \in 0 .. (n - 1) : id = timer_heap[s].id
  BY <1>1 DEF Live
<1>3. timer_ids[id] = s
  BY <1>2, QueueIs DEF Sound
<1> QED BY <1>1, <1>2, <1>3

\* schedule adds a node under an id nobody has.
LEMMA ScheduleStep ==
    ASSUME Careful, NEW n, Sound(Queue, n, {}), now \in Nat,
           NEW h \in Handlers, NEW d \in Delays, NEW i \in Intervals, schedule(h, d, i)
    PROVE  /\ Sound(Queue', n + 1, {}) /\ UNCHANGED <<now, upcall, aborted>>
           /\ \E x \in Node : /\ x.id \notin Live /\ x.id \in 0 .. (max_size - 1)
                              /\ Timer(x) = [handler |-> h, time |-> now + d, interval |-> i]
                              /\ NodesOf(Queue') = NodesOf(Queue) \cup {x}
<1> DEFINE id == alloc_timerid(Queue)
           x == [id |-> id, handler |-> h, time |-> now + d, interval |-> i]
           r == insert([Queue EXCEPT !.min = @ + 1], x)
<1>1. n \in Nat /\ n < Queue.size /\ Queue.size \in 3 .. max_size /\ max_size \in Nat /\ MaxTimers \in Nat
  BY TimerQueueAssumption DEF Sound
<1>2. n + 1 < max_size
  <2>1. n < MaxTimers
    BY LiveCounted DEF schedule
  <2> QED BY <1>1, <2>1 DEF Careful
<1>3. /\ FreeIds(Queue) # {} /\ id \in 0 .. n
      /\ \A s \in 0 .. (n - 1) : Queue.heap[s].id # id
  BY Allocated
<1>4. Becomes(r) /\ UNCHANGED <<now, upcall, aborted>>
  BY <1>3 DEF schedule
<1> HIDE DEF id
<1>5. d \in Nat /\ i \in Nat /\ id \in Nat
  BY <1>1, <1>3, TimerQueueAssumption
<1>6. x \in Node /\ x.id = id /\ Timer(x) = [handler |-> h, time |-> now + d, interval |-> i]
  BY <1>5 DEF Node, Timer
<1>7. x.id = alloc_timerid(Queue)
  BY <1>6 DEF id
<1>8. x.id \notin Live /\ x.id \in 0 .. (max_size - 1)
  <2>1. Live = {timer_heap[s].id : s \in 0 .. (n - 1)}
    BY QueueIs DEF Live, Sound
  <2>2. x.id \notin Live
    BY <2>1, <1>3, <1>6, QueueIs
  <2> QED BY <2>2, <1>1, <1>2, <1>3, <1>5, <1>6
<1> HIDE DEF x, r
<1>9. Sound(r, n + 1, {}) /\ NodesOf(r) = NodesOf(Queue) \cup {x}
  BY <1>1, <1>2, <1>6, <1>7, Scheduled DEF r
<1>10. Queue' = r
  BY <1>4, <1>9, BecomesIs DEF Sound
<1> QED BY <1>4, <1>6, <1>8, <1>9, <1>10

\* cancel by id, and the failure of a periodic timer's handler: the node of
\* the id goes.
LEMMA DiscardStep ==
    ASSUME NEW n, Sound(Queue, n, {}), NEW id \in Live, Becomes(discard(Queue, timer_ids[id]))
    PROVE  /\ n \in Nat /\ n > 0 /\ Sound(Queue', n - 1, {})
           /\ \E y \in NodesOf(Queue) : y.id = id /\ NodesOf(Queue') = NodesOf(Queue) \ {y}
<1> DEFINE slot == timer_ids[id]
           r == discard(Queue, slot)
<1>1. slot \in 0 .. (n - 1) /\ slot \in DOMAIN timer_heap /\ timer_heap[slot].id = id
  BY SlotOf
<1>2. n \in Nat
  BY DEF Sound
<1> HIDE DEF slot, r
<1>3. Sound(r, n - 1, {}) /\ NodesOf(r) = NodesOf(Queue) \ {Queue.heap[slot]}
  BY <1>1, Discarded DEF r
<1>4. Queue' = r
  BY <1>3, BecomesIs DEF Sound, r, slot
<1>5. Queue.heap[slot] \in NodesOf(Queue) /\ Queue.heap[slot].id = id
  BY <1>1, QueueIs DEF NodesOf
<1> QED BY <1>1, <1>2, <1>3, <1>4, <1>5

\* cancel by handler: the nodes of the handler go.
LEMMA HandlerStep ==
    ASSUME NEW n, Sound(Queue, n, {}), NEW h, Becomes(discard_all(Queue, h))
    PROVE  /\ \E m \in Nat : Sound(Queue', m, {})
           /\ NodesOf(Queue') = {y \in NodesOf(Queue) : y.handler # h}
<1>1. PICK m \in Nat : /\ Sound(discard_all(Queue, h), m, {})
                       /\ NodesOf(discard_all(Queue, h)) = {y \in NodesOf(Queue) : y.handler # h}
  BY DiscardedAll
<1>2. Queue' = discard_all(Queue, h)
  BY <1>1, BecomesIs DEF Sound
<1> QED BY <1>1, <1>2

\* reset_interval gives one node another interval.
LEMMA ResetStep ==
    ASSUME NEW n, Sound(Queue, n, {}), NEW id \in Live, NEW i \in Nat, reset_interval(id, i)
    PROVE  /\ Sound(Queue', n, {})
           /\ \E y \in NodesOf(Queue), x \in Node :
                 /\ y.id = id /\ x.id = id
                 /\ Timer(x) = [handler |-> y.handler, time |-> y.time, interval |-> i]
                 /\ NodesOf(Queue') = (NodesOf(Queue) \ {y}) \cup {x}
<1> DEFINE slot == timer_ids[id]
           y == timer_heap[slot]
           x == [y EXCEPT !.interval = i]
<1>1. slot \in 0 .. (n - 1) /\ slot \in DOMAIN timer_heap /\ y.id = id
  BY SlotOf
<1>2. n \in Nat /\ DOMAIN timer_heap = 0 .. (n - 1)
  BY QueueIs DEF Sound
<1>3. y \in Node
  BY <1>1, QueueIs DEF Sound
<1>4. /\ x \in Node /\ x.id = y.id /\ x.time = y.time
      /\ Timer(x) = [handler |-> y.handler, time |-> y.time, interval |-> i]
  BY <1>3 DEF Node, Timer
<1>5. timer_heap' = [timer_heap EXCEPT ![slot] = x]
  BY DEF reset_interval
<1> HIDE DEF slot, y, x
<1>6. /\ DOMAIN timer_heap' = 0 .. (n - 1)
      /\ \A s \in 0 .. (n - 1) : timer_heap'[s] = IF s = slot THEN x ELSE timer_heap[s]
  BY <1>1, <1>2, <1>5
<1>7. timer_heap_size' = timer_heap_size /\ timer_ids' = timer_ids /\ min_timer_id' = min_timer_id
  BY DEF reset_interval
<1>8. PICK q : q = Queue'
  OBVIOUS
<1>9. /\ q = [heap |-> timer_heap', size |-> timer_heap_size, ids |-> timer_ids, min |-> min_timer_id]
  BY <1>7, <1>8 DEF Queue
<1>10. /\ q.heap = timer_heap' /\ q.size = Queue.size /\ q.ids = Queue.ids /\ q.min = Queue.min
  BY <1>9, QueueIs
<1>11. \A s \in 0 .. (n - 1) : q.heap[s].id = Queue.heap[s].id /\ q.heap[s].time = Queue.heap[s].time
                               /\ q.heap[s] \in Node
  <2>1. ASSUME NEW s \in 0 .. (n - 1)
        PROVE  q.heap[s].id = timer_heap[s].id /\ q.heap[s].time = timer_heap[s].time /\ q.heap[s] \in Node
    <3>1. CASE s = slot
      BY <3>1, <1>4, <1>6, <1>10 DEF y
    <3>2. CASE s # slot
      <4>1. timer_heap[s] \in Node
        BY QueueIs DEF Sound
      <4> QED BY <3>2, <4>1, <1>6, <1>10
    <3> QED BY <3>1, <3>2
  <2> QED BY <2>1, QueueIs
<1>12. Sound(q, n, {})
  <2>1. IsQueue(q)
    <3>1. q = [heap |-> q.heap, size |-> q.size, ids |-> q.ids, min |-> q.min]
      BY <1>9
    <3>2. Queue.ids = [j \in DOMAIN Queue.ids |-> Queue.ids[j]]
      BY DEF Sound, IsQueue
    <3> QED BY <3>1, <3>2, <1>10 DEF IsQueue
  <2>2. InOrder(q, 0 .. (n - 1))
    <3>1. InOrder(Queue, 0 .. (n - 1))
      BY DEF Sound
    <3> QED BY <3>1, <1>11 DEF InOrder
  <2>3. /\ Queue.size \in 3 .. max_size /\ n < Queue.size /\ DOMAIN Queue.ids = 0 .. (Queue.size - 1)
        /\ Queue.min \in 0 .. Queue.size
        /\ \A s \in 0 .. (n - 1) : Queue.heap[s].id + 1 < Queue.size /\ Queue.ids[Queue.heap[s].id] = s
        /\ \A j \in DOMAIN Queue.ids :
              (\A s \in 0 .. (n - 1) : Queue.heap[s].id # j) => Queue.ids[j] = -1 /\ Queue.min <= j
    BY DEF Sound
  <2>4. \A j \in (DOMAIN q.ids) \ {} : (\A s \in 0 .. (n - 1) : q.heap[s].id # j) => q.ids[j] = -1 /\ q.min <= j
    BY <2>3, <1>10, <1>11
  <2>5. \A s \in 0 .. (n - 1) : /\ q.heap[s] \in Node /\ q.heap[s].id + 1 < q.size /\ q.heap[s].id \notin {}
                                /\ q.ids[q.heap[s].id] = s
    BY <2>3, <1>10, <1>11
  <2> QED BY <2>1, <2>2, <2>3, <2>4, <2>5, <1>2, <1>6, <1>10 DEF Sound
<1>13. NodesOf(q) = (NodesOf(Queue) \ {y}) \cup {x}
  <2>1. NodesOf(q) = {timer_heap'[s] : s \in 0 .. (n - 1)} /\ NodesOf(Queue) = {timer_heap[s] : s \in 0 .. (n - 1)}
    BY <1>2, <1>6, <1>10, QueueIs DEF NodesOf
  <2>2. \A s \in 0 .. (n - 1) : s # slot => timer_heap[s] # y
    <3>1. \A s \in 0 .. (n - 1) : timer_ids[timer_heap[s].id] = s
      BY QueueIs DEF Sound
    <3> QED BY <3>1, <1>1 DEF y
  <2>3. ASSUME NEW z \in NodesOf(q) PROVE z \in (NodesOf(Queue) \ {y}) \cup {x}
    <3>1. PICK s \in 0 .. (n - 1) : z = timer_heap'[s]
      BY <2>1
    <3> QED BY <3>1, <2>1, <2>2, <1>6
  <2>4. ASSUME NEW z \in NodesOf(Queue), z # y PROVE z \in NodesOf(q)
    <3>1. PICK s \in 0 .. (n - 1) : z = timer_heap[s]
      BY <2>1
    <3>2. s # slot
      BY <3>1, <2>4 DEF y
    <3>3. z = timer_heap'[s]
      BY <3>1, <3>2, <1>6
    <3> QED BY <3>3, <2>1
  <2>5. x \in NodesOf(q)
    <3>1. x = timer_heap'[slot]
      BY <1>1, <1>6
    <3> QED BY <3>1, <2>1, <1>1
  <2> QED BY <2>3, <2>4, <2>5
<1>14. y \in NodesOf(Queue)
  BY <1>1, QueueIs DEF NodesOf, y
<1> QED BY <1>1, <1>4, <1>8, <1>12, <1>13, <1>14

\* Whole intervals that fit into the time a timer is late.
LEMMA Quotient ==
    ASSUME NEW a \in Nat, NEW b \in Nat, b > 0
    PROVE  /\ a \div b \in Nat /\ a \div b <= a
           /\ (a \div b) * b <= a /\ a < (a \div b + 1) * b
<1>1. a \div b \in Nat /\ (a \div b) * b <= a /\ a < (a \div b + 1) * b
  OBVIOUS
<1>2. a \div b <= (a \div b) * b
  BY <1>1
<1> QED BY <1>1, <1>2

\* One interval more.
LEMMA OneMore ==
    ASSUME NEW k \in Nat, NEW b \in Nat
    PROVE  (k + 1) * b = k * b + b /\ k * b \in Nat
OBVIOUS

\* The next time of a periodic timer that is due is a whole number of
\* intervals later, and the first such time after now.
LEMMA NextTimeIs ==
    ASSUME now \in Nat, NEW y \in Node, y.time <= now, y.interval > 0
    PROVE  /\ NextTime(y) \in Nat /\ NextTime(y) > now /\ NextTime(y) - y.interval <= now
           /\ \E k \in 1 .. (now + 1) : NextTime(y) = y.time + k * y.interval
<1> DEFINE a == now - y.time
           k == a \div y.interval
<1>1. y.time \in Nat /\ y.interval \in Nat /\ a \in Nat /\ a <= now
  BY DEF Node
<1>2. k \in Nat /\ k <= a /\ k * y.interval <= a /\ a < (k + 1) * y.interval
  BY <1>1, Quotient
<1>3. NextTime(y) = y.time + (k + 1) * y.interval
  BY DEF NextTime
<1> HIDE DEF k
<1>4. (k + 1) * y.interval = k * y.interval + y.interval /\ k * y.interval \in Nat
  BY <1>1, <1>2, OneMore
<1>5. k + 1 \in 1 .. (now + 1)
  BY <1>1, <1>2
<1> QED BY <1>1, <1>2, <1>3, <1>4, <1>5

\* Expire takes an earliest node out, and puts a periodic one back at its
\* next time.
LEMMA ExpireStep ==
    ASSUME NEW n, Sound(Queue, n, {}), now \in Nat, Expire
    PROVE  \E m \in Nat, y \in NodesOf(Queue) :
              /\ Sound(Queue', m, {})
              /\ y.time <= now /\ \A z \in NodesOf(Queue) : y.time <= z.time
              /\ upcall' = [id |-> y.id, periodic |-> y.interval > 0, mine |-> y.interval > 0]
              /\ y.interval = 0 => NodesOf(Queue') = NodesOf(Queue) \ {y}
              /\ y.interval > 0 =>
                    \E x \in Node :
                       /\ x.id = y.id
                       /\ Timer(x) = [handler |-> y.handler, time |-> NextTime(y), interval |-> y.interval]
                       /\ NodesOf(Queue') = (NodesOf(Queue) \ {y}) \cup {x}
<1> DEFINE y == timer_heap[0]
           rest == remove(Queue, 0)
           x == [y EXCEPT !.time = NextTime(y)]
<1>1. n \in Nat /\ DOMAIN timer_heap = 0 .. (n - 1)
  BY QueueIs DEF Sound
<1>2. 0 \in 0 .. (n - 1)
  <2>1. curr_size(Queue) = n
    BY <1>1, SizeIs, QueueIs
  <2> QED BY <2>1, <1>1 DEF Expire
<1>3. y \in Node /\ y \in NodesOf(Queue) /\ Queue.heap[0] = y
  BY <1>1, <1>2, QueueIs DEF Sound, NodesOf
<1>4. y.time <= now
  BY DEF Expire, is_due
<1>5. \A z \in NodesOf(Queue) : y.time <= z.time
  <2>1. ASSUME NEW z \in NodesOf(Queue) PROVE y.time <= z.time
    <3>1. PICK s \in 0 .. (n - 1) : z = Queue.heap[s]
      BY <1>1, QueueIs DEF NodesOf
    <3>2. Queue.heap[0].time <= Queue.heap[s].time
      BY AtFront
    <3> QED BY <3>1, <3>2, <1>3
  <2> QED BY <2>1
<1>6. /\ upcall' = [id |-> y.id, periodic |-> y.interval > 0, mine |-> y.interval > 0]
      /\ y.interval > 0 => Becomes(insert(rest, x))
      /\ ~(y.interval > 0) => Becomes(release_timerid(rest, y.id))
  BY DEF Expire
<1> HIDE DEF y, rest
<1>7. Sound(rest, n - 1, {y.id}) /\ rest.size = Queue.size /\ NodesOf(rest) = NodesOf(Queue) \ {y}
  BY <1>2, <1>3, Removed DEF rest
<1>8. n < rest.size /\ y.id + 1 < rest.size /\ y.id \in DOMAIN rest.ids
  <2>1. n < Queue.size /\ y.id + 1 < Queue.size /\ y.id \in Nat /\ Queue.size \in Nat
    <3>1. n < Queue.size /\ Queue.size \in Nat /\ Queue.heap[0].id + 1 < Queue.size
      BY <1>2 DEF Sound
    <3>2. y.id \in Nat
      BY <1>3 DEF Node
    <3> QED BY <3>1, <3>2, <1>3
  <2>2. DOMAIN rest.ids = 0 .. (rest.size - 1)
    BY <1>7 DEF Sound
  <2> QED BY <2>1, <2>2, <1>7
<1>9. CASE y.interval > 0
  <2>1. x \in Node /\ x.id = y.id /\ Timer(x) = [handler |-> y.handler, time |-> NextTime(y), interval |-> y.interval]
    <3>1. NextTime(y) \in Nat
      BY <1>3, <1>4, <1>9, NextTimeIs
    <3> QED BY <3>1, <1>3 DEF Node, Timer
  <2> HIDE DEF x
  <2>2. curr_size(rest) = n - 1 /\ n - 1 \in Nat
    <3>1. n - 1 \in Nat /\ DOMAIN rest.heap = 0 .. ((n - 1) - 1)
      BY <1>7 DEF Sound
    <3> QED BY <3>1, SizeIs
  <2>3. insert(rest, x) = reheap_up(rest, x, n - 1)
    <3>1. rest.size \in Nat
      BY <1>7 DEF Sound
    <3>2. ~(curr_size(rest) + 1 >= rest.size)
      BY <3>1, <2>2, <1>1, <1>8
    <3> QED BY <3>2, <2>2 DEF insert
  <2>4. Sound(rest, n - 1, {x.id}) /\ (n - 1) + 1 < rest.size /\ x.id + 1 < rest.size
    BY <1>1, <1>7, <1>8, <2>1
  <2>5. Sound(insert(rest, x), (n - 1) + 1, {}) /\ NodesOf(insert(rest, x)) = NodesOf(rest) \cup {x}
    BY <2>1, <2>3, <2>4, Inserted
  <2>6. (n - 1) + 1 = n
    BY <1>1
  <2>7. Queue' = insert(rest, x)
    BY <2>5, <1>6, <1>9, BecomesIs DEF Sound
  <2>8. y.interval # 0
    BY <1>3, <1>9
  <2> QED BY <1>1, <1>3, <1>4, <1>5, <1>6, <1>7, <2>1, <2>5, <2>6, <2>7, <2>8
<1>10. CASE ~(y.interval > 0)
  <2>1. Sound(release_timerid(rest, y.id), n - 1, {}) /\ release_timerid(rest, y.id).heap = rest.heap
    BY <1>7, <1>8, Released
  <2>2. Queue' = release_timerid(rest, y.id)
    BY <2>1, <1>6, <1>10, BecomesIs DEF Sound
  <2>3. NodesOf(Queue') = NodesOf(rest)
    BY <2>1, <2>2 DEF NodesOf
  <2>4. n - 1 \in Nat
    BY <1>7 DEF Sound
  <2> QED BY <1>3, <1>4, <1>5, <1>6, <1>7, <1>10, <2>1, <2>2, <2>3, <2>4
<1> QED BY <1>9, <1>10

----------------------------------------------------------------------------
(* The invariant.                                                          *)

\* The timer being dispatched: it counts as the handler's own only while its
\* id is scheduled.
UpcallSound ==
    upcall # None =>
       /\ upcall = [id |-> upcall.id, periodic |-> upcall.periodic, mine |-> upcall.mine]
       /\ upcall.mine \in BOOLEAN /\ upcall.periodic \in BOOLEAN
       /\ upcall.mine => upcall.id \in Live

\* The queue is sound with no id lost, the dispatched timer is, and no assert
\* has failed.
TimerInv ==
    /\ \E n \in Nat : Sound(Queue, n, {})
    /\ now \in Nat
    /\ aborted = FALSE
    /\ UpcallSound

\* What Disown does to the dispatched timer.
LEMMA DisownIs ==
    ASSUME NEW S, Disown(S), UpcallSound
    PROVE  \/ upcall' = upcall /\ (upcall # None => upcall.id \notin S)
           \/ /\ upcall # None /\ upcall.id \in S
              /\ upcall' = [id |-> upcall.id, periodic |-> upcall.periodic, mine |-> FALSE]
<1>1. CASE upcall # None /\ upcall.id \in S
  <2>1. PICK a, b, c : upcall = [id |-> a, periodic |-> b, mine |-> c]
    BY <1>1 DEF UpcallSound
  <2>2. upcall' = [upcall EXCEPT !.mine = FALSE]
    BY <1>1 DEF Disown
  <2> QED BY <1>1, <2>1, <2>2
<1>2. CASE ~(upcall # None /\ upcall.id \in S)
  BY <1>2 DEF Disown
<1> QED BY <1>1, <1>2

\* The dispatched timer stays sound when only ids of S go.
LEMMA DisownSound ==
    ASSUME NEW S, Disown(S), UpcallSound, Live \ S \subseteq Live'
    PROVE  UpcallSound'
<1>1. CASE upcall' = upcall /\ (upcall # None => upcall.id \notin S)
  BY <1>1 DEF UpcallSound
<1>2. CASE /\ upcall # None /\ upcall.id \in S
           /\ upcall' = [id |-> upcall.id, periodic |-> upcall.periodic, mine |-> FALSE]
  <2>1. upcall.periodic \in BOOLEAN
    BY <1>2 DEF UpcallSound
  <2>2. upcall'.mine = FALSE /\ upcall'.id = upcall.id /\ upcall'.periodic = upcall.periodic
    BY <1>2
  <2> QED BY <1>2, <2>1, <2>2 DEF UpcallSound
<1> QED BY <1>1, <1>2, DisownIs

\* The queue is empty at the start.
LEMMA InitTimerInv == Init => TimerInv
<1> SUFFICES ASSUME Init PROVE TimerInv
  OBVIOUS
<1>1. /\ Queue.heap = <<>> /\ Queue.size = PreAlloc /\ Queue.min = 0
      /\ Queue.ids = [i \in 0 .. (PreAlloc - 1) |-> -1]
  BY QueueIs DEF Init
<1>2. PreAlloc \in 3 .. max_size /\ max_size \in Nat
  BY TimerQueueAssumption
<1>3. Sound(Queue, 0, {})
  <2>1. IsQueue(Queue)
    <3>1. Queue = [heap |-> Queue.heap, size |-> Queue.size, ids |-> Queue.ids, min |-> Queue.min]
      BY DEF Queue
    <3> QED BY <3>1, <1>1 DEF IsQueue
  <2>2. DOMAIN Queue.heap = 0 .. (0 - 1) /\ 0 .. (0 - 1) = {}
    BY <1>1
  <2>3. DOMAIN Queue.ids = 0 .. (Queue.size - 1) /\ \A i \in DOMAIN Queue.ids : Queue.ids[i] = -1 /\ Queue.min <= i
    BY <1>1, <1>2
  <2>4. Queue.size \in 3 .. max_size /\ 0 < Queue.size /\ Queue.min \in 0 .. Queue.size
    BY <1>1, <1>2
  <2> QED BY <2>1, <2>2, <2>3, <2>4 DEF Sound, InOrder
<1> QED BY <1>3 DEF Init, TimerInv, UpcallSound

\* Every step keeps the queue sound: one case for each operation.
LEMMA NextTimerInv ==
    ASSUME Careful, TimerInv, [Next]_vars
    PROVE  TimerInv'
<1>0. PICK n \in Nat : Sound(Queue, n, {})
  BY DEF TimerInv
<1>a. now \in Nat /\ aborted = FALSE /\ UpcallSound
  BY DEF TimerInv
<1>b. Live = IdsOf(Queue) /\ Live' = IdsOf(Queue')
  <2>1. Queue'.heap = timer_heap'
    BY DEF Queue
  <2>2. Live' = IdsOf(Queue')
    BY <2>1 DEF Live, IdsOf, NodesOf
  <2> QED BY <2>2, LiveIs
<1>1. CASE UNCHANGED vars
  <2>1. Queue' = Queue /\ Live' = Live /\ UNCHANGED <<now, upcall, aborted>>
    BY <1>1 DEF vars, queueVars, Queue, Live
  <2> QED BY <2>1 DEF TimerInv, UpcallSound
<1>2. ASSUME NEW h \in Handlers, NEW d \in Delays, NEW i \in Intervals, schedule(h, d, i)
      PROVE  TimerInv'
  <2>1. /\ Sound(Queue', n + 1, {}) /\ UNCHANGED <<now, upcall, aborted>>
        /\ \E x \in Node : NodesOf(Queue') = NodesOf(Queue) \cup {x}
    BY <1>0, <1>2, <1>a, ScheduleStep
  <2>2. Live \subseteq Live'
    BY <2>1, <1>b DEF IdsOf
  <2>3. n + 1 \in Nat
    BY <1>0
  <2> QED BY <2>1, <2>2, <2>3, <1>a DEF TimerInv, UpcallSound
<1>3. ASSUME NEW id \in Live, cancel_id(id)
      PROVE  TimerInv'
  <2>1. timer_ids[id] \in DOMAIN timer_heap /\ timer_ids[id] >= 0 /\ timer_ids[id] \in Int
        /\ timer_heap[timer_ids[id]].id = id
    BY <1>0, SlotOf
  <2>2. Becomes(discard(Queue, timer_ids[id])) /\ Disown({id}) /\ UNCHANGED <<now, aborted>>
    BY <1>3, <2>1 DEF cancel_id, CancelSlot
  <2>3. /\ n > 0 /\ Sound(Queue', n - 1, {})
        /\ \E y \in NodesOf(Queue) : y.id = id /\ NodesOf(Queue') = NodesOf(Queue) \ {y}
    BY <2>2, <1>0, DiscardStep
  <2>4. Live \ {id} \subseteq Live'
    BY <2>3, <1>b DEF IdsOf
  <2>5. UpcallSound'
    BY <2>2, <2>4, <1>a, DisownSound
  <2>6. n - 1 \in Nat
    BY <2>3
  <2> QED BY <2>2, <2>3, <2>5, <2>6, <1>a DEF TimerInv
<1>4. ASSUME NEW h \in Handlers, cancel_handler(h)
      PROVE  TimerInv'
  <2> DEFINE S == {timer_heap[s].id : s \in {s \in DOMAIN timer_heap : timer_heap[s].handler = h}}
  <2>1. Becomes(discard_all(Queue, h)) /\ Disown(S) /\ UNCHANGED <<now, aborted>>
    BY <1>4 DEF cancel_handler
  <2>2. /\ \E m \in Nat : Sound(Queue', m, {})
        /\ NodesOf(Queue') = {y \in NodesOf(Queue) : y.handler # h}
    BY <2>1, <1>0, HandlerStep
  <2>3. Live \ S \subseteq Live'
    <3>1. ASSUME NEW i \in Live, i \notin S PROVE i \in Live'
      <4>1. PICK s \in DOMAIN timer_heap : i = timer_heap[s].id
        BY DEF Live
      <4>2. timer_heap[s].handler # h /\ timer_heap[s] \in NodesOf(Queue)
        BY <3>1, <4>1, QueueIs DEF NodesOf
      <4> QED BY <4>1, <4>2, <2>2, <1>b DEF IdsOf
    <3> QED BY <3>1
  <2> HIDE DEF S
  <2>4. UpcallSound'
    BY <2>1, <2>3, <1>a, DisownSound
  <2> QED BY <2>1, <2>2, <2>4, <1>a DEF TimerInv
<1>5. ASSUME NEW id \in Live, NEW i \in Intervals, reset_interval(id, i)
      PROVE  TimerInv'
  <2>1. i \in Nat
    BY TimerQueueAssumption
  <2>2. PICK y \in NodesOf(Queue), x \in Node :
           y.id = id /\ x.id = id /\ NodesOf(Queue') = (NodesOf(Queue) \ {y}) \cup {x} /\ Sound(Queue', n, {})
    BY <1>0, <1>5, <2>1, ResetStep
  <2>3. Live \subseteq Live'
    BY <2>2, <1>b DEF IdsOf
  <2>4. UNCHANGED <<now, upcall, aborted>>
    BY <1>5 DEF reset_interval
  <2> QED BY <2>2, <2>3, <2>4, <1>a DEF TimerInv, UpcallSound
<1>6. CASE Expire
  <2>1. PICK m \in Nat, y \in NodesOf(Queue) :
              /\ Sound(Queue', m, {})
              /\ upcall' = [id |-> y.id, periodic |-> y.interval > 0, mine |-> y.interval > 0]
              /\ y.interval > 0 => \E x \in Node : x.id = y.id /\ NodesOf(Queue') = (NodesOf(Queue) \ {y}) \cup {x}
    BY <1>0, <1>6, <1>a, ExpireStep
  <2>2. UNCHANGED <<now, aborted>>
    BY <1>6 DEF Expire
  <2>3. (y.interval > 0) => y.id \in Live'
    BY <2>1, <1>b DEF IdsOf
  <2>4. (y.interval > 0) \in BOOLEAN
    OBVIOUS
  <2>5. UpcallSound'
    <3> DEFINE b == y.interval > 0
    <3>1. b \in BOOLEAN /\ (b => y.id \in Live')
      BY <2>3
    <3>2. upcall' = [id |-> y.id, periodic |-> b, mine |-> b]
      BY <2>1
    <3> HIDE DEF b
    <3>3. upcall'.id = y.id /\ upcall'.periodic = b /\ upcall'.mine = b
      BY <3>2
    <3> QED BY <3>1, <3>2, <3>3 DEF UpcallSound
  <2> QED BY <2>1, <2>2, <2>5, <1>a DEF TimerInv
<1>7. CASE ReturnsOk
  <2>1. Queue' = Queue /\ UNCHANGED <<now, aborted>> /\ upcall' = None
    BY <1>7 DEF ReturnsOk, queueVars, Queue
  <2> QED BY <2>1, <1>0, <1>a DEF TimerInv, UpcallSound
<1>8. CASE ReturnsFailure
  <2>1. CASE ~upcall.periodic
    BY <1>7, <1>8, <2>1 DEF ReturnsFailure
  <2>2. CASE upcall.periodic
    <3>1. upcall # None /\ upcall.mine
      BY <1>8, <2>2 DEF ReturnsFailure, Careful
    <3>2. upcall.id \in Live
      BY <3>1, <1>a DEF UpcallSound
    <3>3. /\ timer_ids[upcall.id] \in DOMAIN timer_heap /\ timer_ids[upcall.id] >= 0
          /\ timer_ids[upcall.id] \in Int /\ timer_heap[timer_ids[upcall.id]].id = upcall.id
      BY <1>0, <3>2, SlotOf
    <3>4. Becomes(discard(Queue, timer_ids[upcall.id])) /\ upcall' = None /\ UNCHANGED <<now, aborted>>
      BY <1>8, <2>2, <3>3 DEF ReturnsFailure
    <3>5. n > 0 /\ Sound(Queue', n - 1, {})
      BY <3>2, <3>4, <1>0, DiscardStep
    <3>6. n - 1 \in Nat
      BY <3>5
    <3> QED BY <3>4, <3>5, <3>6, <1>a DEF TimerInv, UpcallSound
  <2> QED BY <2>1, <2>2
<1>9. CASE Tick
  <2>1. Queue' = Queue /\ Live' = Live /\ now' = now + 1 /\ UNCHANGED <<upcall, aborted>>
    BY <1>9 DEF Tick, queueVars, Queue, Live
  <2> QED BY <2>1, <1>0, <1>a DEF TimerInv, UpcallSound
<1> QED BY <1>1, <1>2, <1>3, <1>4, <1>5, <1>6, <1>7, <1>8, <1>9 DEF Next

\* A sound queue is a heap in order, whose ids lead to their nodes and can be
\* had again when they belong to none.
LEMMA TimerInvShows == TimerInv => IdsSound /\ HeapOrdered
<1> SUFFICES ASSUME TimerInv PROVE IdsSound /\ HeapOrdered
  OBVIOUS
<1>1. PICK n \in Nat : Sound(Queue, n, {})
  BY DEF TimerInv
<1>2. DOMAIN timer_heap = 0 .. (n - 1)
  BY <1>1, QueueIs DEF Sound
<1>3. Cancellable
  BY <1>1, <1>2, QueueIs DEF Cancellable, Sound
<1>4. IdsReusable
  <2>1. ASSUME NEW i \in DOMAIN timer_ids \ Live PROVE timer_ids[i] = -1 /\ i >= min_timer_id
    <3>1. \A s \in 0 .. (n - 1) : Queue.heap[s].id # i
      BY <1>2, QueueIs DEF Live
    <3>2. Queue.ids[i] = -1 /\ Queue.min <= i
      BY <3>1, <1>1, QueueIs DEF Sound
    <3>3. i \in Int /\ Queue.min \in Int
      BY <1>1, QueueIs DEF Sound
    <3> QED BY <3>2, <3>3, QueueIs
  <2> QED BY <2>1 DEF IdsReusable
<1>5. NoAbort
  BY DEF TimerInv, NoAbort
<1>6. HeapOrdered
  <2>1. ASSUME NEW s \in DOMAIN timer_heap PROVE timer_heap[Parent(s)].time <= timer_heap[s].time
    <3>1. s \in Nat /\ s < n /\ timer_heap[s] \in Node
      BY <1>1, <1>2, QueueIs DEF Sound
    <3>2. CASE s = 0
      BY <3>1, <3>2 DEF Parent, Node
    <3>3. CASE s # 0
      <4>1. Parent(s) \in Nat /\ Parent(s) < s
        BY <3>1, <3>3, ParentLess
      <4>2. Parent(s) \in 0 .. (n - 1)
        BY <3>1, <4>1, <1>1
      <4>3. InOrder(Queue, 0 .. (n - 1))
        BY <1>1 DEF Sound
      <4> QED BY <3>3, <4>2, <4>3, <1>2, QueueIs DEF InOrder
    <3> QED BY <3>2, <3>3
  <2> QED BY <2>1 DEF HeapOrdered
<1> QED BY <1>3, <1>4, <1>5, <1>6 DEF IdsSound

\* The inductive invariant holds in every state.
LEMMA TimerInvInvariant ==
    ASSUME Careful PROVE Spec => []TimerInv
<1>1. TimerInv /\ [Next]_vars => TimerInv'
  BY NextTimerInv
<1> QED BY <1>1, InitTimerInv, PTL DEF Spec

\* For callers that keep below max_size timers and do not fail for a timer they
\* cancelled themselves: after any calls, from inside upcalls too, timer_ids_
\* leads from every id to its node, an id of no timer can be had again, and no
\* assert of schedule, cancel or expire fails, however often the arrays grow.
THEOREM IdsStaySound ==
    ASSUME Careful PROVE Spec => []IdsSound
<1>1. TimerInv => IdsSound
  BY TimerInvShows
<1> QED BY <1>1, TimerInvInvariant, PTL

\* Under the same conditions verify_heap always finds the heap in order.
THEOREM HeapStaysOrdered ==
    ASSUME Careful PROVE Spec => []HeapOrdered
<1>1. TimerInv => HeapOrdered
  BY TimerInvShows
<1> QED BY <1>1, TimerInvInvariant, PTL

----------------------------------------------------------------------------
(* The refinement: the heap with its ids is a set of timers.               *)

\* A node more.
LEMMA ViewAdded ==
    ASSUME NEW N, NEW x, Distinct(N), x.id \notin {y.id : y \in N}
    PROVE  View(N \cup {x}) = [k \in DOMAIN View(N) \cup {x.id} |-> IF k = x.id THEN Timer(x) ELSE View(N)[k]]
<1> DEFINE f == [k \in DOMAIN View(N) \cup {x.id} |-> IF k = x.id THEN Timer(x) ELSE View(N)[k]]
           M == N \cup {x}
<1>1. Distinct(M)
  BY DEF Distinct
<1>2. DOMAIN View(N) = {y.id : y \in N} /\ \A y \in N : View(N)[y.id] = Timer(y)
  BY ViewIs
<1>3. IsTable(f)
  BY DEF IsTable
<1>4. DOMAIN f = {y.id : y \in M}
  BY <1>2
<1>5. ASSUME NEW y \in M PROVE f[y.id] = Timer(y)
  BY <1>2
<1> HIDE DEF f, M
<1>6. f = View(M)
  BY <1>1, <1>3, <1>4, <1>5, ViewMade
<1> QED BY <1>6 DEF f, M

\* The nodes of some ids less.
LEMMA ViewLess ==
    ASSUME NEW N, NEW S, Distinct(N), NEW M, M = {y \in N : y.id \notin S}
    PROVE  View(M) = [k \in (DOMAIN View(N)) \ S |-> View(N)[k]]
<1> DEFINE f == [k \in (DOMAIN View(N)) \ S |-> View(N)[k]]
<1>1. Distinct(M)
  BY DEF Distinct
<1>2. DOMAIN View(N) = {y.id : y \in N} /\ \A y \in N : View(N)[y.id] = Timer(y)
  BY ViewIs
<1>3. IsTable(f)
  BY DEF IsTable
<1>4. DOMAIN f = {y.id : y \in M}
  BY <1>2
<1>5. ASSUME NEW y \in M PROVE f[y.id] = Timer(y)
  BY <1>2
<1> HIDE DEF f
<1>6. f = View(M)
  BY <1>1, <1>3, <1>4, <1>5, ViewMade
<1> QED BY <1>6 DEF f

\* So it is for a step that takes the nodes of some ids away.
LEMMA TimersLess ==
    ASSUME NEW S, Distinct(NodesOf(Queue)), NodesOf(Queue') = {y \in NodesOf(Queue) : y.id \notin S}
    PROVE  Timers' = [k \in (DOMAIN Timers) \ S |-> Timers[k]]
<1>1. PICK N : N = NodesOf(Queue)
  OBVIOUS
<1>2. PICK M : M = {y \in N : y.id \notin S}
  OBVIOUS
<1>3. View(M) = [k \in (DOMAIN View(N)) \ S |-> View(N)[k]]
  <2>1. Distinct(N)
    BY <1>1
  <2> QED BY <2>1, <1>2, ViewLess, Zenon
<1>4. Timers' = View(NodesOf(Queue'))
  BY DEF Timers, NodesOf, View
<1>5. Timers' = View(M) /\ Timers = View(N)
  BY <1>1, <1>2, <1>4 DEF Timers
<1> QED BY <1>3, <1>5

\* A node replaced by one of the same id.
LEMMA ViewChanged ==
    ASSUME NEW N, Distinct(N), NEW y \in N, NEW x, x.id = y.id, NEW M, M = (N \ {y}) \cup {x}
    PROVE  View(M) = [View(N) EXCEPT ![y.id] = Timer(x)]
<1> DEFINE f == [View(N) EXCEPT ![y.id] = Timer(x)]
<1>1. Distinct(M)
  BY DEF Distinct
<1>2. IsTable(View(N)) /\ DOMAIN View(N) = {z.id : z \in N} /\ \A z \in N : View(N)[z.id] = Timer(z)
  BY ViewIs
<1>3. IsTable(f) /\ DOMAIN f = DOMAIN View(N)
  BY DEF IsTable
<1>4. DOMAIN f = {z.id : z \in M}
  BY <1>2, <1>3
<1>5. ASSUME NEW z \in M PROVE f[z.id] = Timer(z)
  <2>1. CASE z = x
    BY <2>1, <1>2
  <2>2. CASE z # x
    <3>1. z \in N /\ z # y
      BY <2>2
    <3>2. z.id # y.id
      BY <3>1 DEF Distinct
    <3> QED BY <3>1, <3>2, <1>2
  <2> QED BY <2>1, <2>2
<1> HIDE DEF f
<1>6. f = View(M)
  BY <1>1, <1>3, <1>4, <1>5, ViewMade
<1> QED BY <1>6 DEF f

\* No timers at the start.
LEMMA InitTimers == Init => T!Init
<1> SUFFICES ASSUME Init PROVE T!Init
  OBVIOUS
<1>1. NodesOf(Queue) = {}
  BY QueueIs DEF Init, NodesOf
<1>2. Timers = <<>>
  BY <1>1 DEF Timers, View
<1> QED BY <1>2 DEF Init, T!Init

\* Every step is a step of the set of timers, or leaves it alone.
LEMMA NextTimers ==
    ASSUME Careful, TimerInv, [Next]_vars
    PROVE  [T!Next]_(T!vars)
<1>0. PICK n \in Nat : Sound(Queue, n, {})
  BY DEF TimerInv
<1>a. now \in Nat /\ aborted = FALSE /\ UpcallSound
  BY DEF TimerInv
<1>b. Distinct(NodesOf(Queue)) /\ \A y \in NodesOf(Queue) : y \in Node
  BY <1>0, NodesDistinct
<1>c. /\ DOMAIN Timers = IdsOf(Queue) /\ \A y \in NodesOf(Queue) : Timers[y.id] = Timer(y)
      /\ Live = IdsOf(Queue)
  BY <1>b, ViewIs, LiveIs DEF Timers, IdsOf
<1>d. Timers' = View(NodesOf(Queue')) /\ Timers = View(NodesOf(Queue))
  BY DEF Timers, NodesOf, View
<1>1. CASE UNCHANGED vars
  <2>1. Queue' = Queue /\ UNCHANGED <<now, upcall>>
    BY <1>1 DEF vars, queueVars, Queue
  <2> QED BY <2>1, <1>d DEF T!vars
<1>2. ASSUME NEW h \in Handlers, NEW d \in Delays, NEW i \in Intervals, schedule(h, d, i)
      PROVE  T!Next
  <2>1. PICK x \in Node : /\ x.id \notin Live /\ x.id \in 0 .. (max_size - 1)
                          /\ Timer(x) = [handler |-> h, time |-> now + d, interval |-> i]
                          /\ NodesOf(Queue') = NodesOf(Queue) \cup {x}
    BY <1>0, <1>2, <1>a, ScheduleStep
  <2>2. UNCHANGED <<now, upcall>>
    BY <1>0, <1>2, <1>a, ScheduleStep
  <2>3. Timers' = [k \in DOMAIN Timers \cup {x.id} |-> IF k = x.id THEN Timer(x) ELSE Timers[k]]
    <3> DEFINE N == NodesOf(Queue)
    <3>1. x.id \notin {y.id : y \in N} /\ Distinct(N)
      BY <2>1, <1>b, <1>c DEF IdsOf
    <3>d. Timers' = View(N \cup {x}) /\ Timers = View(N)
      BY <2>1, <1>d
    <3> HIDE DEF N
    <3>2. View(N \cup {x}) = [k \in DOMAIN View(N) \cup {x.id} |-> IF k = x.id THEN Timer(x) ELSE View(N)[k]]
      BY <3>1, ViewAdded
    <3> QED BY <3>2, <3>d, Zenon
  <2>4. T!Schedule(x.id, h, d, i)
    BY <2>1, <2>2, <2>3, <1>c DEF T!Schedule, T!Ids
  <2> QED BY <2>1, <2>4 DEF T!Next
<1>3. ASSUME NEW id \in Live, cancel_id(id)
      PROVE  T!Next
  <2>1. timer_ids[id] \in DOMAIN timer_heap /\ timer_ids[id] >= 0 /\ timer_ids[id] \in Int
        /\ timer_heap[timer_ids[id]].id = id
    BY <1>0, SlotOf
  <2>2. Becomes(discard(Queue, timer_ids[id])) /\ Disown({id}) /\ UNCHANGED <<now, aborted>>
    BY <1>3, <2>1 DEF cancel_id, CancelSlot
  <2>3. PICK y \in NodesOf(Queue) : y.id = id /\ NodesOf(Queue') = NodesOf(Queue) \ {y}
    BY <2>2, <1>0, DiscardStep
  <2>4. NodesOf(Queue') = {z \in NodesOf(Queue) : z.id \notin {id}}
    BY <2>3, <1>b DEF Distinct
  <2>5. Timers' = [k \in (DOMAIN Timers) \ {id} |-> Timers[k]]
    BY <2>4, <1>b, TimersLess
  <2>6. T!Cancel({id}) /\ id \in T!Ids
    BY <2>2, <2>5, <1>c DEF T!Cancel, T!Disown, T!Without, T!Ids, Disown
  <2> QED BY <2>6 DEF T!Next
<1>4. ASSUME NEW h \in Handlers, cancel_handler(h)
      PROVE  T!Next
  <2> DEFINE S == {timer_heap[s].id : s \in {s \in DOMAIN timer_heap : timer_heap[s].handler = h}}
             R == {id \in DOMAIN Timers : Timers[id].handler = h}
  <2>1. Becomes(discard_all(Queue, h)) /\ Disown(S) /\ UNCHANGED <<now, aborted>>
    BY <1>4 DEF cancel_handler
  <2>2. NodesOf(Queue') = {y \in NodesOf(Queue) : y.handler # h}
    BY <2>1, <1>0, HandlerStep
  <2>3. ASSUME NEW y \in NodesOf(Queue) PROVE y.id \in R <=> y.handler = h
    <3>1. y.id \in DOMAIN Timers /\ Timers[y.id] = Timer(y)
      BY <1>c DEF IdsOf
    <3>2. Timers[y.id].handler = y.handler
      BY <3>1 DEF Timer
    <3> QED BY <3>1, <3>2
  <2>4. S = R
    <3>1. S = {y.id : y \in {z \in NodesOf(Queue) : z.handler = h}}
      BY QueueIs DEF NodesOf
    <3>2. ASSUME NEW i \in R PROVE i \in S
      <4>1. PICK y \in NodesOf(Queue) : i = y.id
        BY <1>c DEF IdsOf
      <4> QED BY <4>1, <3>1, <3>2, <2>3
    <3>3. ASSUME NEW i \in S PROVE i \in R
      <4>1. PICK y \in NodesOf(Queue) : i = y.id /\ y.handler = h
        BY <3>1, <3>3
      <4> QED BY <4>1, <2>3
    <3> QED BY <3>2, <3>3
  <2>5. NodesOf(Queue') = {y \in NodesOf(Queue) : y.id \notin R}
    BY <2>2, <2>3
  <2> HIDE DEF S
  <2>6. T!Cancel(R)
    <3> HIDE DEF R
    <3>1. Timers' = [k \in (DOMAIN Timers) \ R |-> Timers[k]]
      BY <2>5, <1>b, TimersLess
    <3> QED BY <2>1, <2>4, <3>1 DEF T!Cancel, T!Disown, T!Without, T!Ids, Disown
  <2> QED BY <2>6 DEF T!Next, T!Ids
<1>5. ASSUME NEW id \in Live, NEW i \in Intervals, reset_interval(id, i)
      PROVE  T!Next
  <2>1. i \in Nat
    BY TimerQueueAssumption
  <2>2. PICK y \in NodesOf(Queue), x \in Node :
                 /\ y.id = id /\ x.id = id
                 /\ Timer(x) = [handler |-> y.handler, time |-> y.time, interval |-> i]
                 /\ NodesOf(Queue') = (NodesOf(Queue) \ {y}) \cup {x}
    BY <1>0, <1>5, <2>1, ResetStep
  <2>3. Timers' = [Timers EXCEPT ![y.id] = Timer(x)]
    BY <2>2, <1>b, <1>d, ViewChanged
  <2>4. Timers[id] = [handler |-> y.handler, time |-> y.time, interval |-> y.interval]
    BY <2>2, <1>c DEF Timer
  <2>5. [Timers[id] EXCEPT !.interval = i] = Timer(x)
    BY <2>2, <2>4
  <2>6. Timers' = [Timers EXCEPT ![id].interval = i]
    BY <2>2, <2>3, <2>5
  <2>7. UNCHANGED <<now, upcall>>
    BY <1>5 DEF reset_interval
  <2>8. T!ResetInterval(id, i) /\ id \in T!Ids
    BY <2>6, <2>7, <1>c DEF T!ResetInterval, T!Ids
  <2> QED BY <2>8 DEF T!Next
<1>6. CASE Expire
  <2>1. PICK y \in NodesOf(Queue) :
              /\ y.time <= now /\ \A z \in NodesOf(Queue) : y.time <= z.time
              /\ upcall' = [id |-> y.id, periodic |-> y.interval > 0, mine |-> y.interval > 0]
              /\ y.interval = 0 => NodesOf(Queue') = NodesOf(Queue) \ {y}
              /\ y.interval > 0 =>
                    \E x \in Node :
                       /\ x.id = y.id
                       /\ Timer(x) = [handler |-> y.handler, time |-> NextTime(y), interval |-> y.interval]
                       /\ NodesOf(Queue') = (NodesOf(Queue) \ {y}) \cup {x}
    BY <1>0, <1>6, <1>a, ExpireStep
  <2>2. upcall = None /\ now' = now
    BY <1>6 DEF Expire
  <2>3. y.id \in DOMAIN Timers /\ Timers[y.id] = [handler |-> y.handler, time |-> y.time, interval |-> y.interval]
    BY <1>c DEF IdsOf, Timer
  <2>4. Timers[y.id].time = y.time /\ Timers[y.id].interval = y.interval /\ y.interval \in Nat /\ y \in Node
    BY <2>3, <1>b DEF Node
  <2>5. \A k \in DOMAIN Timers : Timers[y.id].time <= Timers[k].time
    <3>1. ASSUME NEW k \in DOMAIN Timers PROVE Timers[y.id].time <= Timers[k].time
      <4>1. PICK z \in NodesOf(Queue) : k = z.id
        BY <1>c DEF IdsOf
      <4>2. Timers[k] = Timer(z)
        BY <4>1, <1>c
      <4>3. Timers[k].time = z.time
        BY <4>2 DEF Timer
      <4> QED BY <4>3, <2>1, <2>4
    <3> QED BY <3>1
  <2>6. CASE y.interval = 0
    <3>1. NodesOf(Queue') = {z \in NodesOf(Queue) : z.id \notin {y.id}}
      BY <2>1, <2>6, <1>b DEF Distinct
    <3>2. Timers' = [k \in (DOMAIN Timers) \ {y.id} |-> Timers[k]]
      BY <3>1, <1>b, TimersLess
    <3>3. T!Expire(y.id)
      BY <3>2, <2>1, <2>2, <2>4, <2>5, <2>6 DEF T!Expire, T!Without, T!Ids
    <3> QED BY <3>3, <2>3 DEF T!Next, T!Ids
  <2>7. CASE y.interval # 0
    <3>1. y.interval > 0
      BY <2>4, <2>7
    <3>2. PICK x \in Node :
                       /\ x.id = y.id
                       /\ Timer(x) = [handler |-> y.handler, time |-> NextTime(y), interval |-> y.interval]
                       /\ NodesOf(Queue') = (NodesOf(Queue) \ {y}) \cup {x}
      BY <2>1, <3>1
    <3>3. Timers' = [Timers EXCEPT ![y.id] = Timer(x)]
      BY <3>2, <1>b, <1>d, ViewChanged
    <3>4. [Timers[y.id] EXCEPT !.time = NextTime(y)] = Timer(x)
      BY <2>3, <3>2
    <3>5. Timers' = [Timers EXCEPT ![y.id].time = NextTime(y)]
      BY <3>3, <3>4
    <3>6. NextTime(y) > now /\ NextTime(y) - y.interval <= now
      BY <2>1, <2>4, <3>1, <1>a, NextTimeIs
    <3>7. PICK k \in 1 .. (now + 1) : NextTime(y) = y.time + k * y.interval
      BY <2>1, <2>4, <3>1, <1>a, NextTimeIs
    <3>8. T!Expire(y.id)
      BY <3>5, <3>6, <3>7, <2>1, <2>2, <2>4, <2>5, <2>7 DEF T!Expire, T!Ids
    <3> QED BY <3>8, <2>3 DEF T!Next, T!Ids
  <2> QED BY <2>6, <2>7
<1>7. CASE ReturnsOk
  <2>1. Queue' = Queue /\ now' = now /\ upcall # None /\ upcall' = None
    BY <1>7 DEF ReturnsOk, queueVars, Queue
  <2>2. Timers' = Timers
    BY <2>1, <1>d
  <2> QED BY <2>1, <2>2 DEF T!Next, T!Return
<1>8. CASE ReturnsFailure
  <2>1. CASE ~upcall.periodic
    BY <1>7, <1>8, <2>1 DEF ReturnsFailure
  <2>2. CASE upcall.periodic
    <3>1. upcall # None /\ upcall.mine
      BY <1>8, <2>2 DEF ReturnsFailure, Careful
    <3>2. upcall.id \in Live
      BY <3>1, <1>a DEF UpcallSound
    <3>3. /\ timer_ids[upcall.id] \in DOMAIN timer_heap /\ timer_ids[upcall.id] >= 0
          /\ timer_ids[upcall.id] \in Int /\ timer_heap[timer_ids[upcall.id]].id = upcall.id
      BY <1>0, <3>2, SlotOf
    <3>4. Becomes(discard(Queue, timer_ids[upcall.id])) /\ upcall' = None /\ now' = now
      BY <1>8, <2>2, <3>3 DEF ReturnsFailure
    <3>5. PICK y \in NodesOf(Queue) : y.id = upcall.id /\ NodesOf(Queue') = NodesOf(Queue) \ {y}
      BY <3>2, <3>4, <1>0, DiscardStep
    <3>6. NodesOf(Queue') = {z \in NodesOf(Queue) : z.id \notin {upcall.id}}
      BY <3>5, <1>b DEF Distinct
    <3>7. Timers' = [k \in (DOMAIN Timers) \ {upcall.id} |-> Timers[k]]
      BY <3>6, <1>b, TimersLess
    <3>8. T!Return
      BY <3>1, <3>4, <3>7 DEF T!Return, T!Without, T!Ids
    <3> QED BY <3>8 DEF T!Next
  <2> QED BY <2>1, <2>2
<1>9. CASE Tick
  <2>1. Queue' = Queue /\ now' = now + 1 /\ upcall' = upcall
    BY <1>9 DEF Tick, queueVars, Queue
  <2> QED BY <2>1, <1>d DEF T!Next, T!Tick
<1> QED BY <1>1, <1>2, <1>3, <1>4, <1>5, <1>6, <1>7, <1>8, <1>9 DEF Next

\* The binary heap with its parallel array of ids implements the set of timers
\* that callers of timer_queue rely on: what is dispatched is always an earliest
\* timer that is due, a periodic one moves to its first time after now, and a
\* cancelled one is gone, for any number of timers below max_size.
THEOREM TimerSetImplemented ==
    ASSUME Careful PROVE Spec => ImplementsTimerSet
<1>1. TimerInv /\ [Next]_vars => [T!Next]_(T!vars)
  BY NextTimers
<1> QED BY <1>1, InitTimers, TimerInvInvariant, PTL DEF Spec, ImplementsTimerSet, T!Spec
=============================================================================

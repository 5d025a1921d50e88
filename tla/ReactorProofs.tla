---------------------------- MODULE ReactorProofs ----------------------------
(***************************************************************************)
(* Theorems about the reactor, for any descriptors, handlers, masks, depth *)
(* of nested callbacks and number of calls they make.                      *)
(***************************************************************************)
EXTENDS Reactor, DataLemmas

Entry  == [eh : Handlers \cup {NoEh}, mask : SUBSET AllMask, suspended : BOOLEAN]
Asks   == (SUBSET {"IN", "OUT", "PRI"}) \cup {Absent}
Report == [h : Handles, ev : SUBSET {"IN", "OUT", "PRI", "HUP"}]

Typed ==
    /\ kind \in {"epoll", "select"}
    /\ rep \in [Handles -> Entry]
    /\ epoll \in [Handles -> Asks]
    /\ events \in Seq(Report)
    /\ fds \subseteq Handles
    /\ hd \in [Handlers -> Handles \cup {NoFd}]

\* A handler's descriptor is open and is nobody else's.
Owned ==
    \A e \in Handlers : hd[e] # NoFd =>
        hd[e] \in fds /\ \A d \in Handlers : hd[d] = hd[e] => d = e

\* What the epoll set asks of a handle: nothing without a handler, else what
\* the mask says.  Only a handle marked suspended may be missing; it need not
\* be, since unbind leaves the mark and register_handler does not clear it.
AsksFor(h) ==
    IF rep[h].eh = NoEh THEN epoll[h] = Absent
    ELSE \/ epoll[h] = reactor_mask_to_epoll_event(rep[h].mask)
         \/ rep[h].suspended /\ epoll[h] = Absent

Asked == kind = "epoll" => \A h \in Handles : AsksFor(h)

\* The lists of the select reactor: three of handles and the free one.
Lists == Kinds \cup {"free"}

Start(l, k) == IF k = "free" THEN l.free ELSE l.head[k]

\* The nodes of the list q follow each other from n on.
Linked(l, q, n) ==
    /\ n = IF q = <<>> THEN Null ELSE q[1]
    /\ \A i \in DOMAIN q : l.next[q[i]] = IF i = Len(q) THEN Null ELSE q[i + 1]

\* Every node is in one list, once.
Once(qs) ==
    /\ \A n \in Nodes : \E k \in Lists : \E i \in DOMAIN qs[k] : qs[k][i] = n
    /\ \A j, k \in Lists : \A a \in DOMAIN qs[j], b \in DOMAIN qs[k] :
          qs[j][a] = qs[k][b] => j = k /\ a = b

\* The nodes of a list of handles have handles, each its own.
Handled(l, q) ==
    /\ \A i \in DOMAIN q : l.handle[q[i]] \in Handles
    /\ \A i, j \in DOMAIN q : l.handle[q[i]] = l.handle[q[j]] => i = j

HandlesIn(l, q) == {l.handle[q[i]] : i \in DOMAIN q}

Shape(l, qs) ==
    /\ qs \in [Lists -> Seq(Nodes)]
    /\ Once(qs)
    /\ \A k \in Lists : Linked(l, qs[k], Start(l, k))
    /\ \A k \in Kinds : Handled(l, qs[k])

ListsType == [head : [Kinds -> Nodes \cup {Null}], handle : [Nodes -> Handles \cup {NoFd}],
              next : [Nodes -> Nodes \cup {Null}], free : Nodes \cup {Null}]

Good(l) == l \in ListsType /\ \E qs : Shape(l, qs)

\* The lists a handle is in.
On(l, h) == {k \in Kinds : h \in Members(l, k)}

\* The same of the lists of the select reactor.
ListsFor(h) ==
    IF rep[h].eh = NoEh THEN On(lists, h) = {}
    ELSE /\ rep[h].mask # {}
         /\ \/ On(lists, h) = ListsOf(rep[h].mask)
            \/ rep[h].suspended /\ On(lists, h) = {}

Listed == kind = "select" => Good(lists) /\ \A h \in Handles : ListsFor(h)

IInv == Typed /\ Owned /\ NoDangling /\ Asked /\ Listed

-----------------------------------------------------------------------------
(* The lists of the select reactor.                                        *)

\* A suffix is its first element and the suffix after it.
LEMMA Suffix ==
    ASSUME NEW K, NEW q \in Seq(K), NEW i \in DOMAIN q
    PROVE  SubSeq(q, i, Len(q)) =
              <<q[i]>> \o (IF i = Len(q) THEN <<>> ELSE SubSeq(q, i + 1, Len(q)))
<1> DEFINE s == SubSeq(q, i, Len(q))
           r == IF i = Len(q) THEN <<>> ELSE SubSeq(q, i + 1, Len(q))
           t == <<q[i]>> \o r
<1>0. i \in 1 .. Len(q) /\ Len(q) \in Nat /\ DOMAIN q = 1 .. Len(q) /\ \A j \in 1 .. Len(q) : q[j] \in K
    OBVIOUS
<1>1. s \in Seq(K) /\ Len(s) = Len(q) - i + 1 /\ \A j \in 1 .. Len(s) : s[j] = q[i + j - 1]
    BY <1>0
<1>2. r \in Seq(K) /\ Len(r) = Len(q) - i /\ \A j \in 1 .. Len(r) : r[j] = q[i + j]
  <2>1. CASE i = Len(q)
      BY <1>0, <2>1
  <2>2. CASE i # Len(q)
    <3> DEFINE u == SubSeq(q, i + 1, Len(q))
    <3>1. i + 1 \in 1 .. Len(q)
        BY <1>0, <2>2
    <3>2. u \in Seq(K) /\ Len(u) = Len(q) - (i + 1) + 1 /\ \A j \in 1 .. Len(u) : u[j] = q[i + 1 + j - 1]
        BY <1>0, <3>1
    <3>3. r = u
        BY <2>2
    <3> HIDE DEF u, r
    <3>4. Len(u) = Len(q) - i /\ \A j \in 1 .. Len(u) : u[j] = q[i + j]
        BY <1>0, <3>2
    <3> QED
        BY <3>2, <3>3, <3>4
  <2> QED
      BY <2>1, <2>2
<1> HIDE DEF r, s
<1>3. <<q[i]>> \in Seq(K) /\ Len(<<q[i]>>) = 1 /\ <<q[i]>>[1] = q[i]
    BY <1>0
<1>4. t \in Seq(K) /\ Len(t) = 1 + Len(r) /\ \A j \in 1 .. Len(t) : t[j] = IF j = 1 THEN q[i] ELSE r[j - 1]
    BY <1>2, <1>3
<1> HIDE DEF t
<1>5. Len(s) = Len(t) /\ \A j \in 1 .. Len(s) : s[j] = t[j]
  <2>1. Len(s) = Len(t)
      BY <1>0, <1>1, <1>2, <1>4
  <2> SUFFICES ASSUME NEW j \in 1 .. Len(s)
               PROVE  s[j] = t[j]
      BY <2>1
  <2>2. CASE j = 1
      BY <1>0, <1>1, <1>4, <2>1, <2>2
  <2>3. CASE j # 1
    <3>1. j - 1 \in 1 .. Len(r) /\ i + (j - 1) = i + j - 1 /\ j \in 1 .. Len(t)
        BY <1>0, <1>1, <1>2, <2>1, <2>3
    <3> QED
        BY <1>1, <1>2, <1>4, <2>3, <3>1
  <2> QED
      BY <2>2, <2>3
<1>6. s = t
    BY <1>1, <1>4, <1>5, SeqEqual
<1> QED
    BY <1>6 DEF s, t, r

\* Chain is defined by the equation of its recursion.
Follows(c, l) == c = [m \in Nodes \cup {Null} |-> IF m = Null THEN <<>> ELSE <<m>> \o c[l.next[m]]]

\* It has a solution when every node is in a list that ends.
LEMMA ChainExists ==
    ASSUME NEW l \in ListsType, NEW qs, Shape(l, qs)
    PROVE  \E c : Follows(c, l)
<1> DEFINE From(k, i) == SubSeq(qs[k], i, Len(qs[k]))
           G(m) == CHOOSE s : \E k \in Lists : \E i \in DOMAIN qs[k] : qs[k][i] = m /\ s = From(k, i)
           c == [m \in Nodes \cup {Null} |-> IF m = Null THEN <<>> ELSE G(m)]
<1>0. Null \notin Nodes
    BY ReactorAssumption DEF Null
<1>1. ASSUME NEW k \in Lists, NEW i \in DOMAIN qs[k]
      PROVE  G(qs[k][i]) = From(k, i)
  <2>1. \E s : \E j \in Lists : \E a \in DOMAIN qs[j] : qs[j][a] = qs[k][i] /\ s = From(j, a)
      OBVIOUS
  <2>a. PICK j \in Lists : \E a \in DOMAIN qs[j] : qs[j][a] = qs[k][i] /\ G(qs[k][i]) = From(j, a)
      BY <2>1
  <2>2. PICK a \in DOMAIN qs[j] : qs[j][a] = qs[k][i] /\ G(qs[k][i]) = From(j, a)
      BY <2>a
  <2>3. j = k /\ a = i
      BY <2>2 DEF Shape, Once
  <2> QED
      BY <2>2, <2>3
<1> HIDE DEF G
<1>2. ASSUME NEW m \in Nodes
      PROVE  c[m] = <<m>> \o c[l.next[m]]
  <2>a. PICK k \in Lists : \E i \in DOMAIN qs[k] : qs[k][i] = m
      BY DEF Shape, Once
  <2>1. PICK i \in DOMAIN qs[k] : qs[k][i] = m
      BY <2>a
  <2>2. l.next[m] = IF i = Len(qs[k]) THEN Null ELSE qs[k][i + 1]
      BY <2>1 DEF Shape, Linked
  <2>3. qs[k] \in Seq(Nodes) /\ DOMAIN qs[k] = 1 .. Len(qs[k]) /\ Len(qs[k]) \in Nat
      BY DEF Shape
  <2>4. c[m] = From(k, i)
      BY <1>0, <1>1, <2>1
  <2>5. From(k, i) = <<m>> \o (IF i = Len(qs[k]) THEN <<>> ELSE From(k, i + 1))
      BY <2>1, <2>3, Suffix
  <2>6. c[l.next[m]] = IF i = Len(qs[k]) THEN <<>> ELSE From(k, i + 1)
    <3>1. CASE i = Len(qs[k])
        BY <2>2, <3>1
    <3>2. CASE i # Len(qs[k])
      <4>1. i + 1 \in DOMAIN qs[k] /\ qs[k][i + 1] \in Nodes
          BY <2>3, <3>2
      <4>2. G(qs[k][i + 1]) = From(k, i + 1)
          BY <1>1, <4>1
      <4> QED
          BY <1>0, <2>2, <3>2, <4>1, <4>2
    <3> QED
        BY <3>1, <3>2
  <2> QED
      BY <2>4, <2>5, <2>6
<1>3. c[Null] = <<>>
    OBVIOUS
<1>4. c = [m \in Nodes \cup {Null} |-> IF m = Null THEN <<>> ELSE <<m>> \o c[l.next[m]]]
    BY <1>2, <1>3
<1> QED
    BY <1>4 DEF Follows

\* Chain reads the list.
LEMMA ChainIs ==
    ASSUME NEW l \in ListsType, NEW qs, Shape(l, qs), NEW k \in Kinds
    PROVE  Chain(l, l.head[k]) = qs[k]
<1> DEFINE c == CHOOSE f : Follows(f, l)
           q == qs[k]
           N == Len(q)
           Q == {d \in Nat : d < N => c[q[N - d]] = SubSeq(q, N - d, N)}
<1>0. /\ q \in Seq(Nodes) /\ N \in Nat /\ DOMAIN q = 1 .. N /\ \A i \in 1 .. N : q[i] \in Nodes
      /\ Null \notin Nodes /\ k \in Lists /\ k # "free"
  <2>1. Null \notin Nodes
      BY ReactorAssumption DEF Null
  <2>2. k \in Lists /\ k # "free"
      BY DEF Lists, Kinds
  <2>3. q \in Seq(Nodes)
      BY <2>2 DEF Shape
  <2> HIDE DEF q
  <2> QED
      BY <2>1, <2>2, <2>3
<1>1. Follows(c, l)
    BY ChainExists
<1>2. Chain(l, l.head[k]) = c[l.head[k]]
    BY DEF Chain, Follows
<1> HIDE DEF c
<1>3. c[Null] = <<>> /\ \A m \in Nodes : c[m] = <<m>> \o c[l.next[m]]
    BY <1>0, <1>1 DEF Follows
<1>4. /\ l.head[k] = IF q = <<>> THEN Null ELSE q[1]
      /\ \A i \in 1 .. N : l.next[q[i]] = IF i = N THEN Null ELSE q[i + 1]
    BY <1>0 DEF Shape, Linked, Start
<1> HIDE DEF q, N
<1>5. ASSUME NEW i \in 1 .. N, i < N => c[q[i + 1]] = SubSeq(q, i + 1, N)
      PROVE  c[q[i]] = SubSeq(q, i, N)
  <2>1. c[q[i]] = <<q[i]>> \o c[l.next[q[i]]]
      BY <1>0, <1>3
  <2>2. c[l.next[q[i]]] = IF i = N THEN <<>> ELSE SubSeq(q, i + 1, N)
    <3>1. CASE i = N
        BY <1>3, <1>4, <3>1
    <3>2. CASE i # N
      <4>1. i < N
          BY <1>0, <3>2
      <4> QED
          BY <1>4, <1>5, <3>2, <4>1
    <3> QED
        BY <3>1, <3>2
  <2>3. SubSeq(q, i, N) = <<q[i]>> \o (IF i = N THEN <<>> ELSE SubSeq(q, i + 1, N))
      BY <1>0, Suffix DEF N
  <2> QED
      BY <2>1, <2>2, <2>3
<1>6. 0 \in Q
  <2> SUFFICES ASSUME 0 < N
               PROVE  c[q[N - 0]] = SubSeq(q, N - 0, N)
      OBVIOUS
  <2>1. N - 0 = N /\ N \in 1 .. N /\ ~(N < N)
      BY <1>0
  <2> QED
      BY <1>5, <2>1
<1>7. ASSUME NEW d \in Q
      PROVE  d + 1 \in Q
  <2> SUFFICES ASSUME d + 1 < N
               PROVE  c[q[N - (d + 1)]] = SubSeq(q, N - (d + 1), N)
      OBVIOUS
  <2>1. d \in Nat /\ d < N /\ c[q[N - d]] = SubSeq(q, N - d, N)
      BY <1>0
  <2>2. N - (d + 1) \in 1 .. N /\ N - (d + 1) + 1 = N - d
      BY <1>0, <2>1
  <2> QED
      BY <1>5, <2>1, <2>2
<1>8. Q = Nat
    BY <1>6, <1>7, SetInduction
<1>9. CASE q = <<>>
    BY <1>2, <1>3, <1>4, <1>9 DEF q
<1>10. CASE q # <<>>
  <2>1. N \in Nat \ {0}
      BY <1>0, <1>10 DEF N
  <2>2. N - 1 \in Nat /\ N - 1 < N /\ N - (N - 1) = 1
      BY <2>1
  <2>3. c[q[1]] = SubSeq(q, 1, N)
    <3> DEFINE d == N - 1
    <3>1. d \in Q
        BY <1>8, <2>2
    <3> HIDE DEF d
    <3>2. d < N => c[q[N - d]] = SubSeq(q, N - d, N)
        BY <3>1
    <3> QED
        BY <2>2, <3>2 DEF d
  <2>4. SubSeq(q, 1, N) = q
      BY <1>0 DEF N
  <2> QED
      BY <1>2, <1>4, <1>10, <2>3, <2>4 DEF q
<1> QED
    BY <1>9, <1>10

\* The handles of a list.
LEMMA MembersAre ==
    ASSUME NEW l \in ListsType, NEW qs, Shape(l, qs), NEW k \in Kinds
    PROVE  Members(l, k) = HandlesIn(l, qs[k])
<1>1. Chain(l, l.head[k]) = qs[k]
    BY ChainIs
<1> QED
    BY <1>1 DEF Members, HandlesIn

\* A handle that is missing in one list leaves a node free: there are three for
\* each handle, and no list has a handle twice.
LEMMA RoomLeft ==
    ASSUME NEW l \in ListsType, NEW qs, Shape(l, qs), NEW k \in Kinds, NEW h \in Handles,
           \A i \in DOMAIN qs[k] : l.handle[qs[k][i]] # h
    PROVE  qs["free"] # <<>>
<1> SUFFICES ASSUME qs["free"] = <<>>
             PROVE  FALSE
    OBVIOUS
<1> DEFINE T == (Kinds \X Handles) \ {<<k, h>>}
           In(n, j) == \E i \in DOMAIN qs[j] : qs[j][i] = n
           f == [n \in Nodes |-> <<CHOOSE j \in Kinds : In(n, j), l.handle[n]>>]
<1>0. Cardinality(Handles) \in Nat \ {0} /\ IsFiniteSet(Handles)
    BY ReactorAssumption, FS_CardinalityType, FS_EmptySet
<1>1. IsFiniteSet(Kinds) /\ Cardinality(Kinds) = 3
  <2>1. IsFiniteSet({"rd"}) /\ Cardinality({"rd"}) = 1
      BY FS_Singleton
  <2>2. "wr" \notin {"rd"} /\ "ex" \notin {"rd"} \cup {"wr"}
      OBVIOUS
  <2>3. IsFiniteSet({"rd"} \cup {"wr"}) /\ Cardinality({"rd"} \cup {"wr"}) = 1 + 1
      BY <2>1, <2>2, FS_AddElement, Zenon
  <2>4. /\ IsFiniteSet({"rd"} \cup {"wr"} \cup {"ex"})
        /\ Cardinality({"rd"} \cup {"wr"} \cup {"ex"}) = 1 + 1 + 1
      BY <2>2, <2>3, FS_AddElement, Zenon
  <2>5. Kinds = {"rd"} \cup {"wr"} \cup {"ex"}
      BY DEF Kinds
  <2> QED
      BY <2>4, <2>5
<1>2. IsFiniteSet(Kinds \X Handles) /\ Cardinality(Kinds \X Handles) = 3 * Cardinality(Handles)
    BY <1>0, <1>1, FS_Product
<1>3. IsFiniteSet(T) /\ Cardinality(T) = 3 * Cardinality(Handles) - 1
  <2>1. <<k, h>> \in Kinds \X Handles
      OBVIOUS
  <2> QED
      BY <1>2, <2>1, FS_RemoveElement
<1>4. IsFiniteSet(Nodes) /\ Cardinality(Nodes) = 3 * Cardinality(Handles)
  <2>1. PICK N \in Nat \ {0} : N = 3 * Cardinality(Handles)
      BY <1>0
  <2>2. IsFiniteSet(1 .. N) /\ Cardinality(1 .. N) = N
      BY FS_Interval
  <2> QED
      BY <2>1, <2>2, ReactorAssumption
<1>5. ASSUME NEW n \in Nodes
      PROVE  \E j \in Kinds : In(n, j)
  <2>1. PICK j \in Lists : In(n, j)
      BY DEF Shape, Once
  <2>2. j # "free"
      BY <2>1
  <2> QED
      BY <2>1, <2>2 DEF Lists
<1>6. ASSUME NEW n \in Nodes
      PROVE  \E j \in Kinds : In(n, j) /\ f[n] = <<j, l.handle[n]>>
    BY <1>5
<1> HIDE DEF f
<1>7. ASSUME NEW n \in Nodes
      PROVE  f[n] \in T
  <2>1. PICK j \in Kinds : In(n, j) /\ f[n] = <<j, l.handle[n]>>
      BY <1>6
  <2>2. l.handle[n] \in Handles
      BY <2>1 DEF Shape, Handled
  <2>3. ~(j = k /\ l.handle[n] = h)
      BY <2>1
  <2> QED
      BY <2>1, <2>2, <2>3
<1>8. f \in [Nodes -> T]
    BY <1>7 DEF f
<1>9. Cardinality(T) < Cardinality(Nodes)
    BY <1>0, <1>3, <1>4
<1> HIDE DEF T
<1>10. PICK m, n \in Nodes : m # n /\ f[m] = f[n]
    BY <1>3, <1>4, <1>8, <1>9, FS_PigeonHole
<1>11. PICK i \in Kinds : In(m, i) /\ f[m] = <<i, l.handle[m]>>
    BY <1>6
<1>12. PICK j \in Kinds : In(n, j) /\ f[n] = <<j, l.handle[n]>>
    BY <1>6
<1>13. i = j /\ l.handle[m] = l.handle[n]
  <2>1. <<i, l.handle[m]>> = <<j, l.handle[n]>>
      BY <1>10, <1>11, <1>12
  <2> QED
      BY <2>1
<1>14. PICK a \in DOMAIN qs[j] : qs[j][a] = m
    BY <1>11, <1>13
<1>15. PICK b \in DOMAIN qs[j] : qs[j][b] = n
    BY <1>12
<1>16. a = b
    BY <1>13, <1>14, <1>15 DEF Shape, Handled
<1> QED
    BY <1>10, <1>14, <1>15, <1>16

\* A list with a node in front.
LEMMA Pushed ==
    ASSUME NEW q \in Seq(Nodes), NEW n \in Nodes, NEW p, p = <<n>> \o q
    PROVE  /\ p \in Seq(Nodes) /\ p # <<>> /\ Len(p) = Len(q) + 1 /\ p[1] = n
           /\ DOMAIN p = 1 .. Len(q) + 1 /\ DOMAIN q = 1 .. Len(q) /\ Len(q) \in Nat
           /\ \A i \in 1 .. Len(q) : p[i + 1] = q[i] /\ i + 1 \in DOMAIN p
           /\ \A i \in DOMAIN p : i = 1 \/ (i - 1 \in DOMAIN q /\ p[i] = q[i - 1])
  OBVIOUS

\* A list without its first node.
LEMMA Popped ==
    ASSUME NEW q \in Seq(Nodes), q # <<>>, NEW p, p = Tail(q)
    PROVE  /\ p \in Seq(Nodes) /\ Len(p) = Len(q) - 1 /\ Len(q) \in Nat \ {0}
           /\ DOMAIN p = 1 .. Len(q) - 1 /\ DOMAIN q = 1 .. Len(q)
           /\ \A i \in 1 .. Len(q) - 1 : p[i] = q[i + 1] /\ i + 1 \in DOMAIN q
           /\ p = <<>> <=> Len(q) = 1
<1>1. Len(q) \in Nat \ {0} /\ DOMAIN q = 1 .. Len(q)
    OBVIOUS
<1>2. /\ p \in Seq(Nodes) /\ Len(p) = Len(q) - 1 /\ DOMAIN p = 1 .. Len(p)
      /\ \A i \in 1 .. Len(q) - 1 : p[i] = q[i + 1]
    OBVIOUS
<1>3. p = <<>> <=> Len(p) = 0
    BY <1>2, EmptySeq
<1>4. \A i \in 1 .. Len(q) - 1 : i + 1 \in 1 .. Len(q)
    BY <1>1
<1> QED
    BY <1>1, <1>2, <1>3, <1>4

\* alloc_handle takes the first free node and append_handle puts it at the
\* head: the lists remain lists, and one of them has the handle more.
LEMMA AppendKeeps ==
    ASSUME NEW l, Good(l), NEW h \in Handles, NEW k \in Kinds,
           NEW d, d = append_handle(l, h, k)
    PROVE  /\ Good(d)
           /\ Members(d, k) = Members(l, k) \cup {h}
           /\ \A j \in Kinds : j # k => Members(d, j) = Members(l, j)
<1>1. CASE h \in Members(l, k)
  <2>1. d = l
      BY <1>1 DEF append_handle
  <2> QED
      BY <1>1, <2>1
<1>2. CASE h \notin Members(l, k)
  <2>0. /\ l \in ListsType /\ l.head \in [Kinds -> Nodes \cup {Null}]
        /\ l.handle \in [Nodes -> Handles \cup {NoFd}]
        /\ l.next \in [Nodes -> Nodes \cup {Null}] /\ l.free \in Nodes \cup {Null}
      BY DEF Good, ListsType
  <2>1. PICK qs : Shape(l, qs)
      BY DEF Good
  <2>2. k \in Lists /\ "free" \in Lists /\ k # "free" /\ Lists = Kinds \cup {"free"} /\ "free" \notin Kinds
      BY DEF Lists, Kinds
  <2> DEFINE q == qs[k]
             fr == qs["free"]
             n == l.free
             p == <<n>> \o q
             t == Tail(fr)
             rs == [qs EXCEPT ![k] = p, !["free"] = t]
  <2>3. /\ qs \in [Lists -> Seq(Nodes)] /\ q \in Seq(Nodes) /\ fr \in Seq(Nodes)
      BY <2>1, <2>2 DEF Shape
  <2>4. Members(l, k) = {l.handle[q[i]] : i \in DOMAIN q}
      BY <2>0, <2>1, MembersAre DEF HandlesIn
  <2>5. fr # <<>>
      BY <1>2, <2>0, <2>1, <2>4, RoomLeft
  <2>6. n = fr[1] /\ n \in Nodes
      BY <2>1, <2>2, <2>3, <2>5 DEF Shape, Linked, Start
  <2>7. /\ d.free = l.next[n] /\ d.handle = [l.handle EXCEPT ![n] = h]
        /\ d.next = [l.next EXCEPT ![n] = l.head[k]] /\ d.head = [l.head EXCEPT ![k] = n]
        /\ d \in ListsType
    <3>1. d = [head |-> [l.head EXCEPT ![k] = n], handle |-> [l.handle EXCEPT ![n] = h],
               next |-> [l.next EXCEPT ![n] = l.head[k]], free |-> l.next[n]]
        BY <1>2 DEF append_handle
    <3>2. d.free = l.next[n]
        BY <3>1
    <3>3. d.handle = [l.handle EXCEPT ![n] = h]
        BY <3>1
    <3>4. d.next = [l.next EXCEPT ![n] = l.head[k]]
        BY <3>1
    <3>5. d.head = [l.head EXCEPT ![k] = n]
        BY <3>1
    <3>6. d \in ListsType
        BY <2>0, <2>6, <3>1 DEF ListsType
    <3> QED
        BY <3>2, <3>3, <3>4, <3>5, <3>6
  <2>8. /\ p \in Seq(Nodes) /\ p # <<>> /\ Len(p) = Len(q) + 1 /\ p[1] = n
        /\ DOMAIN p = 1 .. Len(q) + 1 /\ DOMAIN q = 1 .. Len(q) /\ Len(q) \in Nat
        /\ \A i \in 1 .. Len(q) : p[i + 1] = q[i] /\ i + 1 \in DOMAIN p
        /\ \A i \in DOMAIN p : i = 1 \/ (i - 1 \in DOMAIN q /\ p[i] = q[i - 1])
      BY <2>3, <2>6, Pushed
  <2>9. /\ t \in Seq(Nodes) /\ Len(t) = Len(fr) - 1 /\ Len(fr) \in Nat \ {0}
        /\ DOMAIN t = 1 .. Len(fr) - 1 /\ DOMAIN fr = 1 .. Len(fr)
        /\ \A i \in 1 .. Len(fr) - 1 : t[i] = fr[i + 1] /\ i + 1 \in DOMAIN fr
        /\ t = <<>> <=> Len(fr) = 1
      BY <2>3, <2>5, Popped
  <2> HIDE DEF p, t
  <2>10. /\ rs \in [Lists -> Seq(Nodes)] /\ rs[k] = p /\ rs["free"] = t
         /\ \A j \in Kinds : j # k => rs[j] = qs[j]
      BY <2>2, <2>3, <2>8, <2>9
  <2> HIDE DEF rs
  <2>a. \A j, x \in Lists : \A a \in DOMAIN qs[j], b \in DOMAIN qs[x] :
            qs[j][a] = qs[x][b] => j = x /\ a = b
      BY <2>1 DEF Shape, Once
  <2>11. \A j \in Lists : \A a \in DOMAIN qs[j] : qs[j][a] = n => j = "free" /\ a = 1
    <3>1. 1 \in DOMAIN qs["free"] /\ qs["free"][1] = n
        BY <2>6, <2>9
    <3> QED
        BY <2>2, <2>a, <3>1
  <2>12. \A j \in Lists : qs[j] \in Seq(Nodes) /\ \A a \in DOMAIN qs[j] : qs[j][a] \in Nodes
      BY <2>3
  <2>13. \A m \in Nodes : m # n => d.next[m] = l.next[m] /\ d.handle[m] = l.handle[m]
      BY <2>0, <2>7
  <2>14. d.next[n] = l.head[k] /\ d.handle[n] = h /\ d.head[k] = n
         /\ \A j \in Kinds : j # k => d.head[j] = l.head[j]
      BY <2>0, <2>6, <2>7
  <2>15. \A j \in Lists : Linked(l, qs[j], Start(l, j))
      BY <2>1 DEF Shape
  <2>16. Once(rs)
    <3> DEFINE oj(j, a) == IF j = k /\ a = 1 THEN "free" ELSE j
               oa(j, a) == IF j = k THEN (IF a = 1 THEN 1 ELSE a - 1)
                           ELSE IF j = "free" THEN a + 1 ELSE a
    <3>1. ASSUME NEW j \in Lists, NEW a \in DOMAIN rs[j]
          PROVE  /\ oj(j, a) \in Lists /\ oa(j, a) \in DOMAIN qs[oj(j, a)]
                 /\ qs[oj(j, a)][oa(j, a)] = rs[j][a]
                 /\ a \in Nat \ {0}
      <4>1. CASE j = k /\ a = 1
          BY <2>2, <2>6, <2>8, <2>9, <2>10, <4>1
      <4>2. CASE j = k /\ a # 1
          BY <2>2, <2>8, <2>10, <4>2
      <4>3. CASE j = "free"
        <5>1. rs[j][a] = fr[a + 1] /\ a + 1 \in DOMAIN fr /\ a \in Nat \ {0}
            BY <2>9, <2>10, <4>3
        <5>2. oj(j, a) = "free" /\ oa(j, a) = a + 1
            BY <2>2, <4>3
        <5> HIDE DEF oj, oa
        <5> QED
            BY <2>2, <5>1, <5>2
      <4>4. CASE j \in Kinds /\ j # k
        <5>1. rs[j] = qs[j] /\ qs[j] \in Seq(Nodes)
            BY <2>10, <2>12, <4>4
        <5> QED
            BY <2>2, <4>4, <5>1
      <4> QED
          BY <2>2, <4>1, <4>2, <4>3, <4>4
    <3>2. ASSUME NEW i \in Lists, NEW j \in Lists, NEW a \in DOMAIN rs[i], NEW b \in DOMAIN rs[j],
                 rs[i][a] = rs[j][b]
          PROVE  i = j /\ a = b
      <4>1. /\ oj(i, a) \in Lists /\ oa(i, a) \in DOMAIN qs[oj(i, a)]
            /\ qs[oj(i, a)][oa(i, a)] = rs[i][a] /\ a \in Nat \ {0}
          BY <3>1
      <4>2. /\ oj(j, b) \in Lists /\ oa(j, b) \in DOMAIN qs[oj(j, b)]
            /\ qs[oj(j, b)][oa(j, b)] = rs[j][b] /\ b \in Nat \ {0}
          BY <3>1
      <4> HIDE DEF oj, oa
      <4>3. oj(i, a) = oj(j, b) /\ oa(i, a) = oa(j, b)
          BY <2>a, <3>2, <4>1, <4>2
      <4> QED
          BY <2>2, <4>1, <4>2, <4>3 DEF oj, oa
    <3>3. ASSUME NEW m \in Nodes
          PROVE  \E j \in Lists : \E a \in DOMAIN rs[j] : rs[j][a] = m
      <4>1. PICK j \in Lists : \E a \in DOMAIN qs[j] : qs[j][a] = m
          BY <2>1 DEF Shape, Once
      <4>2. PICK a \in DOMAIN qs[j] : qs[j][a] = m
          BY <4>1
      <4>3. CASE j = k
        <5>1. a + 1 \in DOMAIN rs[k] /\ rs[k][a + 1] = m
            BY <2>8, <2>10, <4>2, <4>3
        <5> QED
            BY <2>2, <5>1
      <4>4. CASE j = "free" /\ a = 1
        <5>1. 1 \in DOMAIN rs[k] /\ rs[k][1] = m
            BY <2>6, <2>8, <2>10, <4>2, <4>4
        <5> QED
            BY <2>2, <5>1
      <4>5. CASE j = "free" /\ a # 1
        <5>1. a - 1 \in 1 .. Len(fr) - 1 /\ a - 1 + 1 = a
            BY <2>9, <4>2, <4>5
        <5>2. a - 1 \in DOMAIN rs["free"] /\ rs["free"][a - 1] = m
            BY <2>9, <2>10, <4>2, <4>5, <5>1
        <5> QED
            BY <2>2, <5>2
      <4>6. CASE j \in Kinds /\ j # k
          BY <2>10, <4>2, <4>6
      <4> QED
          BY <2>2, <4>3, <4>4, <4>5, <4>6
    <3> QED
        BY <3>2, <3>3 DEF Once
  <2>17. ASSUME NEW j \in Lists
         PROVE  Linked(d, rs[j], Start(d, j))
    <3>1. CASE j = k
      <4>1. l.head[k] = IF q = <<>> THEN Null ELSE q[1]
          BY <2>2, <2>15 DEF Linked, Start
      <4>2. Start(d, k) = n
          BY <2>2, <2>14 DEF Start
      <4>3. ASSUME NEW i \in DOMAIN p
            PROVE  d.next[p[i]] = IF i = Len(p) THEN Null ELSE p[i + 1]
        <5>1. CASE i = 1
          <6>1. q = <<>> <=> Len(q) = 0
              BY <2>3, EmptySeq
          <6>2. Len(q) > 0 => p[2] = q[1]
              BY <2>8
          <6> QED
              BY <2>8, <2>14, <4>1, <5>1, <6>1, <6>2
        <5>2. CASE i # 1
          <6>1. i - 1 \in DOMAIN q /\ p[i] = q[i - 1]
              BY <2>8, <4>3, <5>2
          <6>2. q[i - 1] # n /\ q[i - 1] \in Nodes
              BY <2>2, <2>11, <2>12, <6>1
          <6>3. l.next[q[i - 1]] = IF i - 1 = Len(q) THEN Null ELSE q[i - 1 + 1]
              BY <2>2, <2>15, <6>1 DEF Linked
          <6>4. i # Len(p) => p[i + 1] = q[i] /\ i - 1 + 1 = i
              BY <2>8, <4>3
          <6>5. i - 1 = Len(q) <=> i = Len(p)
              BY <2>8, <4>3
          <6>6. d.next[p[i]] = l.next[q[i - 1]]
              BY <2>13, <6>1, <6>2
          <6> QED
              BY <6>3, <6>4, <6>5, <6>6
        <5> QED
            BY <5>1, <5>2
      <4> QED
          BY <2>8, <2>10, <3>1, <4>2, <4>3 DEF Linked
    <3>2. CASE j = "free"
      <4>1. \A i \in 1 .. Len(fr) : l.next[fr[i]] = IF i = Len(fr) THEN Null ELSE fr[i + 1]
          BY <2>2, <2>9, <2>15 DEF Linked
      <4>2. Start(d, "free") = IF t = <<>> THEN Null ELSE t[1]
        <5>1. Start(d, "free") = l.next[fr[1]]
            BY <2>6, <2>7 DEF Start
        <5>2. l.next[fr[1]] = IF 1 = Len(fr) THEN Null ELSE fr[2]
            BY <2>9, <4>1
        <5>3. Len(fr) # 1 => t[1] = fr[2]
            BY <2>9
        <5> QED
            BY <2>9, <5>1, <5>2, <5>3
      <4>3. ASSUME NEW i \in DOMAIN t
            PROVE  d.next[t[i]] = IF i = Len(t) THEN Null ELSE t[i + 1]
        <5>1. t[i] = fr[i + 1] /\ i + 1 \in DOMAIN fr /\ i + 1 # 1
            BY <2>9, <4>3
        <5>2. fr[i + 1] # n /\ fr[i + 1] \in Nodes
            BY <2>2, <2>11, <2>12, <5>1
        <5>3. l.next[fr[i + 1]] = IF i + 1 = Len(fr) THEN Null ELSE fr[i + 1 + 1]
            BY <2>9, <4>1, <5>1
        <5>4. i # Len(t) => t[i + 1] = fr[i + 1 + 1]
          <6>1. i # Len(t) => i + 1 \in 1 .. Len(fr) - 1
              BY <2>9, <4>3
          <6> QED
              BY <2>9, <6>1
        <5>5. i + 1 = Len(fr) <=> i = Len(t)
            BY <2>9, <4>3
        <5> QED
            BY <2>13, <5>1, <5>2, <5>3, <5>4, <5>5
      <4> QED
          BY <2>10, <3>2, <4>2, <4>3 DEF Linked
    <3>3. CASE j \in Kinds /\ j # k
      <4>1. \A a \in DOMAIN qs[j] : d.next[qs[j][a]] = l.next[qs[j][a]]
          BY <2>2, <2>11, <2>12, <2>13, <3>3
      <4>2. Start(d, j) = Start(l, j)
          BY <2>2, <2>14, <3>3 DEF Start
      <4> QED
          BY <2>10, <2>15, <3>3, <4>1, <4>2 DEF Linked
    <3> QED
        BY <2>2, <3>1, <3>2, <3>3
  <2>18. ASSUME NEW j \in Kinds
         PROVE  /\ Handled(d, rs[j])
                /\ HandlesIn(d, rs[j]) = HandlesIn(l, qs[j]) \cup (IF j = k THEN {h} ELSE {})
    <3>1. \A a \in DOMAIN qs[j] : d.handle[qs[j][a]] = l.handle[qs[j][a]]
        BY <2>2, <2>11, <2>12, <2>13
    <3>2. Handled(l, qs[j])
        BY <2>1 DEF Shape
    <3>3. CASE j # k
      <4>1. Handled(d, qs[j])
          BY <3>1, <3>2 DEF Handled
      <4>2. HandlesIn(d, qs[j]) = HandlesIn(l, qs[j])
          BY <3>1 DEF HandlesIn
      <4> QED
          BY <2>10, <3>3, <4>1, <4>2
    <3>4. CASE j = k
      <4>1. d.handle[p[1]] = h
          BY <2>8, <2>14
      <4>2. \A i \in DOMAIN q : d.handle[p[i + 1]] = l.handle[q[i]] /\ l.handle[q[i]] # h /\ i + 1 \in DOMAIN p
          BY <1>2, <2>4, <2>8, <3>1, <3>4
      <4>3. \A i \in DOMAIN p : i = 1 \/ (i - 1 \in DOMAIN q /\ d.handle[p[i]] = l.handle[q[i - 1]]
                                           /\ l.handle[q[i - 1]] # h)
          BY <2>8, <3>1, <3>4, <4>2
      <4>4. Handled(d, p)
        <5>1. \A i \in DOMAIN p : d.handle[p[i]] \in Handles
            BY <3>2, <3>4, <4>1, <4>3 DEF Handled
        <5>2. ASSUME NEW i \in DOMAIN p, NEW j2 \in DOMAIN p, d.handle[p[i]] = d.handle[p[j2]]
              PROVE  i = j2
          <6>1. CASE i = 1 \/ j2 = 1
              BY <4>1, <4>3, <5>2, <6>1
          <6>2. CASE i # 1 /\ j2 # 1
            <7>1. i - 1 = j2 - 1
                BY <3>2, <3>4, <4>3, <5>2, <6>2 DEF Handled
            <7> QED
                BY <2>8, <7>1
          <6> QED
              BY <6>1, <6>2
        <5> QED
            BY <5>1, <5>2 DEF Handled
      <4>5. HandlesIn(d, p) = HandlesIn(l, q) \cup {h}
        <5>1. ASSUME NEW i \in DOMAIN p
              PROVE  d.handle[p[i]] \in {l.handle[q[a]] : a \in DOMAIN q} \cup {h}
            BY <4>1, <4>3
        <5>2. ASSUME NEW i \in DOMAIN q
              PROVE  l.handle[q[i]] \in {d.handle[p[a]] : a \in DOMAIN p}
            BY <4>2
        <5>3. h \in {d.handle[p[a]] : a \in DOMAIN p}
            BY <2>8, <4>1
        <5> QED
            BY <5>1, <5>2, <5>3 DEF HandlesIn
      <4> QED
          BY <2>10, <3>4, <4>4, <4>5
    <3> QED
        BY <3>3, <3>4
  <2>19. Shape(d, rs)
      BY <2>10, <2>16, <2>17, <2>18 DEF Shape
  <2>20. Good(d)
      BY <2>7, <2>19 DEF Good
  <2>21. ASSUME NEW j \in Kinds
         PROVE  Members(d, j) = Members(l, j) \cup (IF j = k THEN {h} ELSE {})
    <3>1. Members(d, j) = HandlesIn(d, rs[j])
        BY <2>7, <2>19, MembersAre
    <3>2. Members(l, j) = HandlesIn(l, qs[j])
        BY <2>0, <2>1, MembersAre
    <3> QED
        BY <2>18, <3>1, <3>2
  <2> QED
      BY <2>20, <2>21
<1> QED
    BY <1>1, <1>2

\* A list without its i-th node.
LEMMA Dropped ==
    ASSUME NEW q \in Seq(Nodes), NEW i \in DOMAIN q
    PROVE  \E p \in Seq(Nodes) :
              /\ Len(p) = Len(q) - 1 /\ Len(q) \in Nat \ {0} /\ DOMAIN p = 1 .. Len(q) - 1
              /\ \A a \in 1 .. Len(q) - 1 : /\ a < i => p[a] = q[a] /\ a \in DOMAIN q
                                            /\ a >= i => p[a] = q[a + 1] /\ a + 1 \in DOMAIN q
              /\ p = <<>> <=> Len(q) = 1
<1> DEFINE p == [a \in 1 .. Len(q) - 1 |-> IF a < i THEN q[a] ELSE q[a + 1]]
<1>1. Len(q) \in Nat \ {0} /\ DOMAIN q = 1 .. Len(q) /\ i \in 1 .. Len(q)
      /\ \A a \in 1 .. Len(q) : q[a] \in Nodes
    OBVIOUS
<1>2. \A a \in 1 .. Len(q) - 1 : a \in 1 .. Len(q) /\ a + 1 \in 1 .. Len(q)
    BY <1>1
<1>3. DOMAIN p = 1 .. Len(q) - 1 /\ \A a \in 1 .. Len(q) - 1 : p[a] = IF a < i THEN q[a] ELSE q[a + 1]
    OBVIOUS
<1>4. p \in Seq(Nodes) /\ Len(p) = Len(q) - 1
  <2>1. Len(q) - 1 \in Nat /\ p \in [1 .. Len(q) - 1 -> Nodes]
      BY <1>1, <1>2
  <2> QED
      BY <2>1
<1>5. p = <<>> <=> Len(p) = 0
    BY <1>4, EmptySeq
<1> HIDE DEF p
<1>6. \A a \in 1 .. Len(q) - 1 : /\ a < i => p[a] = q[a] /\ a \in DOMAIN q
                                /\ a >= i => p[a] = q[a + 1] /\ a + 1 \in DOMAIN q
    BY <1>1, <1>2, <1>3
<1>7. p = <<>> <=> Len(q) = 1
    BY <1>1, <1>4, <1>5
<1>8. p \in Seq(Nodes)
    BY <1>4
<1> WITNESS p \in Seq(Nodes)
<1> QED
    BY <1>1, <1>3, <1>4, <1>6, <1>7

\* remove_handle unlinks the node of the handle and release_handle puts it
\* in front of the free ones: the lists remain lists, and one of them has the
\* handle less.
LEMMA RemoveKeeps ==
    ASSUME NEW l, Good(l), NEW h \in Handles, NEW k \in Kinds,
           NEW d, d = remove_handle(l, h, k)
    PROVE  /\ Good(d)
           /\ Members(d, k) = Members(l, k) \ {h}
           /\ \A j \in Kinds : j # k => Members(d, j) = Members(l, j)
<1>0. /\ l \in ListsType /\ l.head \in [Kinds -> Nodes \cup {Null}]
      /\ l.handle \in [Nodes -> Handles \cup {NoFd}]
      /\ l.next \in [Nodes -> Nodes \cup {Null}] /\ l.free \in Nodes \cup {Null}
    BY DEF Good, ListsType
<1>1. PICK qs : Shape(l, qs)
    BY DEF Good
<1>2. k \in Lists /\ "free" \in Lists /\ k # "free" /\ Lists = Kinds \cup {"free"} /\ "free" \notin Kinds
    BY DEF Lists, Kinds
<1> DEFINE q == qs[k]
           fr == qs["free"]
           has == {j \in DOMAIN q : l.handle[q[j]] = h}
           i == place_of(l, q, h)
<1>3. /\ qs \in [Lists -> Seq(Nodes)] /\ q \in Seq(Nodes) /\ fr \in Seq(Nodes)
    BY <1>1, <1>2 DEF Shape
<1>4. Members(l, k) = HandlesIn(l, q)
    BY <1>0, <1>1, MembersAre
<1>5. Chain(l, l.head[k]) = q
    BY <1>0, <1>1, ChainIs
<1>6. d = IF i = 0 THEN l ELSE release_handle(unlink(l, k, q, i), q[i])
    BY <1>5 DEF remove_handle
<1>7. CASE has = {}
  <2>1. d = l
      BY <1>6, <1>7 DEF place_of
  <2>2. h \notin HandlesIn(l, q)
      BY <1>7 DEF HandlesIn
  <2> QED
      BY <1>4, <2>1, <2>2
<1>8. CASE has # {}
  <2> DEFINE r == q[i]
             f == <<r>> \o fr
  <2>1. i \in DOMAIN q /\ l.handle[q[i]] = h
    <3>1. PICK y \in has : TRUE
        BY <1>8
    <3>2. DOMAIN q = 1 .. Len(q) /\ Len(q) \in Nat
        BY <1>3
    <3>3. \A x, z \in has : x = z
        BY <1>1, <1>2 DEF Shape, Handled
    <3>4. y \in has /\ \A x \in has : y <= x
      <4>1. \A x \in has : x = y
          BY <3>1, <3>3
      <4>2. y \in Int
          BY <3>1, <3>2
      <4> QED
          BY <3>1, <4>1, <4>2
    <3>5. i \in has
      <4>1. \E j \in has : \A x \in has : j <= x
          BY <3>4
      <4>2. i = CHOOSE j \in has : \A x \in has : j <= x
          BY <1>8 DEF place_of
      <4> HIDE DEF has
      <4> QED
          BY <4>1, <4>2
    <3> QED
        BY <3>5
  <2> HIDE DEF i
  <2>2. /\ DOMAIN q = 1 .. Len(q) /\ Len(q) \in Nat /\ i \in 1 .. Len(q) /\ i \in Nat \ {0} /\ r \in Nodes
        /\ \A a \in 1 .. Len(q) : q[a] \in Nodes
      BY <1>3, <2>1
  <2>3. /\ d.free = r /\ d.handle = [l.handle EXCEPT ![r] = NoFd]
        /\ i = 1 => /\ d.next = [l.next EXCEPT ![r] = l.free]
                    /\ d.head = [l.head EXCEPT ![k] = l.next[r]]
        /\ i # 1 => /\ d.next = [[l.next EXCEPT ![q[i - 1]] = l.next[r]] EXCEPT ![r] = l.free]
                    /\ d.head = l.head
        /\ d \in ListsType
    <3>1. CASE i = 1
      <4> DEFINE u == [l EXCEPT !.head[k] = l.next[q[i]]]
      <4>1. d = release_handle(u, r)
          BY <1>6, <2>2, <3>1 DEF unlink
      <4>2. /\ u.head = [l.head EXCEPT ![k] = l.next[r]] /\ u.handle = l.handle
            /\ u.next = l.next /\ u.free = l.free
          BY <1>0, <3>1 DEF ListsType
      <4> HIDE DEF u
      <4>3. d = [head |-> [l.head EXCEPT ![k] = l.next[r]], handle |-> [l.handle EXCEPT ![r] = NoFd],
                 next |-> [l.next EXCEPT ![r] = l.free], free |-> r]
          BY <4>1, <4>2 DEF release_handle
      <4>4. d.free = r
          BY <4>3
      <4>5. d.handle = [l.handle EXCEPT ![r] = NoFd]
          BY <4>3
      <4>6. d.next = [l.next EXCEPT ![r] = l.free]
          BY <4>3
      <4>7. d.head = [l.head EXCEPT ![k] = l.next[r]]
          BY <4>3
      <4>8. d \in ListsType
        <5>1. l.next[r] \in Nodes \cup {Null}
            BY <1>0, <2>2
        <5> HIDE DEF r
        <5> QED
            BY <1>0, <2>2, <4>3, <5>1 DEF ListsType
      <4> QED
          BY <3>1, <4>4, <4>5, <4>6, <4>7, <4>8
    <3>2. CASE i # 1
      <4> DEFINE u == [l EXCEPT !.next[q[i - 1]] = l.next[q[i]]]
                 nx == [[l.next EXCEPT ![q[i - 1]] = l.next[r]] EXCEPT ![r] = l.free]
      <4>1. d = release_handle(u, r)
          BY <1>6, <2>2, <3>2 DEF unlink
      <4>2. /\ u.head = l.head /\ u.handle = l.handle
            /\ u.next = [l.next EXCEPT ![q[i - 1]] = l.next[r]] /\ u.free = l.free
          BY <1>0 DEF ListsType
      <4> HIDE DEF u
      <4>3. d = [head |-> l.head, handle |-> [l.handle EXCEPT ![r] = NoFd],
                 next |-> nx, free |-> r]
          BY <4>1, <4>2 DEF release_handle
      <4>4. nx \in [Nodes -> Nodes \cup {Null}]
        <5>1. l.next[r] \in Nodes \cup {Null}
            BY <1>0, <2>2
        <5> HIDE DEF r
        <5> QED
            BY <1>0, <5>1
      <4> HIDE DEF nx
      <4>5. d.free = r
          BY <4>3
      <4>6. d.handle = [l.handle EXCEPT ![r] = NoFd]
          BY <4>3
      <4>7. d.next = nx
          BY <4>3
      <4>8. d.head = l.head
          BY <4>3
      <4>9. d \in ListsType
        <5> HIDE DEF r
        <5> QED
            BY <1>0, <2>2, <4>3, <4>4 DEF ListsType
      <4> QED
          BY <3>2, <4>5, <4>6, <4>7, <4>8, <4>9 DEF nx
    <3> QED
        BY <3>1, <3>2
  <2>4. /\ f \in Seq(Nodes) /\ f # <<>> /\ Len(f) = Len(fr) + 1 /\ f[1] = r
        /\ DOMAIN f = 1 .. Len(fr) + 1 /\ DOMAIN fr = 1 .. Len(fr) /\ Len(fr) \in Nat
        /\ \A a \in 1 .. Len(fr) : f[a + 1] = fr[a] /\ a + 1 \in DOMAIN f
        /\ \A a \in DOMAIN f : a = 1 \/ (a - 1 \in DOMAIN fr /\ f[a] = fr[a - 1])
      BY <1>3, <2>2, Pushed
  <2>5. PICK p \in Seq(Nodes) :
             /\ Len(p) = Len(q) - 1 /\ Len(q) \in Nat \ {0} /\ DOMAIN p = 1 .. Len(q) - 1
             /\ \A a \in 1 .. Len(q) - 1 : /\ a < i => p[a] = q[a] /\ a \in DOMAIN q
                                           /\ a >= i => p[a] = q[a + 1] /\ a + 1 \in DOMAIN q
             /\ p = <<>> <=> Len(q) = 1
    <3> HIDE DEF q
    <3> QED
        BY <1>3, <2>1, Dropped
  <2> HIDE DEF f
  <2> DEFINE rs == [qs EXCEPT ![k] = p, !["free"] = f]
  <2>6. /\ rs \in [Lists -> Seq(Nodes)] /\ rs[k] = p /\ rs["free"] = f
        /\ \A j \in Kinds : j # k => rs[j] = qs[j]
      BY <1>2, <1>3, <2>4, <2>5
  <2> HIDE DEF rs
  <2>a. \A j, x \in Lists : \A a \in DOMAIN qs[j], b \in DOMAIN qs[x] :
            qs[j][a] = qs[x][b] => j = x /\ a = b
      BY <1>1 DEF Shape, Once
  <2>7. \A j \in Lists : \A a \in DOMAIN qs[j], b \in DOMAIN q : qs[j][a] = q[b] => j = k /\ a = b
      BY <1>1, <1>2 DEF Shape, Once
  <2>8. \A j \in Lists : qs[j] \in Seq(Nodes) /\ \A a \in DOMAIN qs[j] : qs[j][a] \in Nodes
      BY <1>3
  <2>9. \A m \in Nodes : m # r => /\ d.handle[m] = l.handle[m]
                                  /\ i = 1 \/ m # q[i - 1] => d.next[m] = l.next[m]
    <3> HIDE DEF r
    <3> QED
        BY <1>0, <2>3
  <2>10. /\ d.next[r] = l.free /\ d.handle[r] = NoFd
         /\ i = 1 => d.head[k] = l.next[r]
         /\ i # 1 => d.next[q[i - 1]] = l.next[r] /\ d.head[k] = l.head[k] /\ i - 1 \in DOMAIN q
         /\ \A j \in Kinds : j # k => d.head[j] = l.head[j]
    <3>1. i # 1 => i - 1 \in DOMAIN q /\ q[i - 1] # r /\ q[i - 1] \in Nodes
      <4>1. i # 1 => i - 1 \in DOMAIN q /\ i - 1 # i
          BY <2>2
      <4> QED
          BY <1>2, <2>1, <2>7, <2>8, <4>1
    <3> HIDE DEF r
    <3> QED
        BY <1>0, <2>2, <2>3, <3>1
  <2>11. \A j \in Lists : Linked(l, qs[j], Start(l, j))
      BY <1>1 DEF Shape
  <2>12. Once(rs)
    <3> DEFINE oj(j, a) == IF j = "free" /\ a = 1 THEN k ELSE j
               oa(j, a) == IF j = "free" THEN (IF a = 1 THEN i ELSE a - 1)
                           ELSE IF j = k /\ a >= i THEN a + 1 ELSE a
    <3>1. ASSUME NEW j \in Lists, NEW a \in DOMAIN rs[j]
          PROVE  /\ oj(j, a) \in Lists /\ oa(j, a) \in DOMAIN qs[oj(j, a)]
                 /\ qs[oj(j, a)][oa(j, a)] = rs[j][a]
                 /\ a \in Nat \ {0}
                 /\ j = k => oa(j, a) # i
      <4>1. CASE j = "free" /\ a = 1
          BY <1>2, <2>1, <2>4, <2>6, <4>1
      <4>2. CASE j = "free" /\ a # 1
        <5>0. a \in DOMAIN f /\ rs[j] = f
            BY <2>6, <4>2
        <5>1. a - 1 \in DOMAIN fr /\ rs[j][a] = fr[a - 1] /\ a \in Nat \ {0}
            BY <2>4, <4>2, <5>0
        <5>2. oj(j, a) = "free" /\ oa(j, a) = a - 1
            BY <4>2
        <5> HIDE DEF oj, oa
        <5> QED
            BY <1>2, <4>2, <5>1, <5>2
      <4>3. CASE j = k
        <5>1. rs[j] = p /\ a \in 1 .. Len(q) - 1 /\ a \in Nat \ {0} /\ oj(j, a) = k
            BY <1>2, <2>5, <2>6, <4>3
        <5>2. CASE a < i
          <6>1. oa(j, a) = a /\ a # i
              BY <1>2, <2>2, <4>3, <5>1, <5>2
          <6>2. a \in DOMAIN q /\ q[a] = p[a]
              BY <2>5, <5>1, <5>2
          <6> HIDE DEF oj, oa
          <6> QED
              BY <1>2, <4>3, <5>1, <6>1, <6>2
        <5>3. CASE a >= i
          <6>1. oa(j, a) = a + 1 /\ a + 1 # i
              BY <1>2, <2>2, <4>3, <5>1, <5>3
          <6>2. a + 1 \in DOMAIN q /\ q[a + 1] = p[a]
              BY <2>5, <5>1, <5>3
          <6> HIDE DEF oj, oa
          <6> QED
              BY <1>2, <4>3, <5>1, <6>1, <6>2
        <5> QED
            BY <2>2, <5>1, <5>2, <5>3
      <4>4. CASE j \in Kinds /\ j # k
        <5>1. rs[j] = qs[j] /\ qs[j] \in Seq(Nodes)
            BY <2>6, <2>8, <4>4
        <5> QED
            BY <1>2, <4>4, <5>1
      <4> QED
          BY <1>2, <4>1, <4>2, <4>3, <4>4
    <3>2. ASSUME NEW x \in Lists, NEW j \in Lists, NEW a \in DOMAIN rs[x], NEW b \in DOMAIN rs[j],
                 rs[x][a] = rs[j][b]
          PROVE  x = j /\ a = b
      <4>1. /\ oj(x, a) \in Lists /\ oa(x, a) \in DOMAIN qs[oj(x, a)]
            /\ qs[oj(x, a)][oa(x, a)] = rs[x][a] /\ a \in Nat \ {0} /\ (x = k => oa(x, a) # i)
          BY <3>1
      <4>2. /\ oj(j, b) \in Lists /\ oa(j, b) \in DOMAIN qs[oj(j, b)]
            /\ qs[oj(j, b)][oa(j, b)] = rs[j][b] /\ b \in Nat \ {0} /\ (j = k => oa(j, b) # i)
          BY <3>1
      <4> HIDE DEF oj, oa
      <4>3. oj(x, a) = oj(j, b) /\ oa(x, a) = oa(j, b)
          BY <2>a, <3>2, <4>1, <4>2
      <4>4. x = j
          BY <1>2, <4>1, <4>2, <4>3 DEF oj, oa
      <4> QED
          BY <1>2, <2>2, <4>1, <4>2, <4>3, <4>4 DEF oj, oa
    <3>3. ASSUME NEW m \in Nodes
          PROVE  \E j \in Lists : \E a \in DOMAIN rs[j] : rs[j][a] = m
      <4>1. PICK j \in Lists : \E a \in DOMAIN qs[j] : qs[j][a] = m
          BY <1>1 DEF Shape, Once
      <4>2. PICK a \in DOMAIN qs[j] : qs[j][a] = m
          BY <4>1
      <4>3. CASE j = "free"
        <5>1. a + 1 \in DOMAIN rs["free"] /\ rs["free"][a + 1] = m
            BY <2>4, <2>6, <4>2, <4>3
        <5> QED
            BY <1>2, <5>1
      <4>4. CASE j = k /\ a = i
        <5>1. 1 \in DOMAIN rs["free"] /\ rs["free"][1] = m
            BY <2>4, <2>6, <4>2, <4>4
        <5> QED
            BY <1>2, <5>1
      <4>5. CASE j = k /\ a < i
        <5>1. a \in 1 .. Len(q) - 1
            BY <2>2, <4>2, <4>5
        <5>2. a \in DOMAIN rs[k] /\ rs[k][a] = m
            BY <2>5, <2>6, <4>2, <4>5, <5>1
        <5> QED
            BY <1>2, <5>2
      <4>6. CASE j = k /\ a > i
        <5>1. a - 1 \in 1 .. Len(q) - 1 /\ a - 1 + 1 = a /\ a - 1 >= i
            BY <2>2, <4>2, <4>6
        <5>2. a - 1 \in DOMAIN rs[k] /\ rs[k][a - 1] = m
            BY <2>5, <2>6, <4>2, <4>6, <5>1
        <5> QED
            BY <1>2, <5>2
      <4>7. CASE j \in Kinds /\ j # k
          BY <2>6, <4>2, <4>7
      <4>8. j = k => a \in Nat
          BY <2>2, <4>2
      <4> QED
          BY <1>2, <2>2, <4>3, <4>4, <4>5, <4>6, <4>7, <4>8
    <3> QED
        BY <3>2, <3>3 DEF Once
  <2>13. \A j \in Lists : \A a \in DOMAIN qs[j] :
             (j = k => a # i /\ a # i - 1) => d.next[qs[j][a]] = l.next[qs[j][a]]
    <3> SUFFICES ASSUME NEW j \in Lists, NEW a \in DOMAIN qs[j], j = k => a # i /\ a # i - 1
                 PROVE  d.next[qs[j][a]] = l.next[qs[j][a]]
        OBVIOUS
    <3>1. qs[j][a] # r
        BY <2>1, <2>7
    <3>2. i = 1 \/ qs[j][a] # q[i - 1]
        BY <2>7, <2>10
    <3> QED
        BY <2>8, <2>9, <3>1, <3>2
  <2>14. ASSUME NEW j \in Lists
         PROVE  Linked(d, rs[j], Start(d, j))
    <3>1. CASE j = "free"
      <4>1. l.free = IF fr = <<>> THEN Null ELSE fr[1]
          BY <1>2, <2>11 DEF Linked, Start
      <4>2. Start(d, "free") = r
          BY <2>3 DEF Start
      <4>3. ASSUME NEW a \in DOMAIN f
            PROVE  d.next[f[a]] = IF a = Len(f) THEN Null ELSE f[a + 1]
        <5>1. CASE a = 1
          <6>1. fr = <<>> <=> Len(fr) = 0
              BY <1>3, EmptySeq
          <6>2. Len(fr) > 0 => f[2] = fr[1]
              BY <2>4
          <6> QED
              BY <2>4, <2>10, <4>1, <5>1, <6>1, <6>2
        <5>2. CASE a # 1
          <6>1. a - 1 \in DOMAIN fr /\ f[a] = fr[a - 1]
              BY <2>4, <4>3, <5>2
          <6>2. d.next[fr[a - 1]] = l.next[fr[a - 1]]
              BY <1>2, <2>13, <6>1
          <6>3. l.next[fr[a - 1]] = IF a - 1 = Len(fr) THEN Null ELSE fr[a - 1 + 1]
              BY <1>2, <2>11, <6>1 DEF Linked
          <6>4. a # Len(f) => f[a + 1] = fr[a] /\ a - 1 + 1 = a
            <7>1. a # Len(f) => a \in 1 .. Len(fr)
                BY <2>4, <4>3, <5>2
            <7>2. a - 1 + 1 = a
                BY <2>4, <4>3
            <7> QED
                BY <2>4, <7>1, <7>2
          <6>5. a - 1 = Len(fr) <=> a = Len(f)
              BY <2>4, <4>3
          <6> QED
              BY <6>1, <6>2, <6>3, <6>4, <6>5
        <5> QED
            BY <5>1, <5>2
      <4> QED
          BY <2>4, <2>6, <3>1, <4>2, <4>3 DEF Linked
    <3>2. CASE j = k
      <4>1. \A a \in 1 .. Len(q) : l.next[q[a]] = IF a = Len(q) THEN Null ELSE q[a + 1]
          BY <1>2, <2>2, <2>11 DEF Linked
      <4>2. Start(d, k) = IF p = <<>> THEN Null ELSE p[1]
        <5>1. Start(d, k) = d.head[k]
            BY <1>2 DEF Start
        <5>2. CASE i = 1
          <6>1. Start(d, k) = IF 1 = Len(q) THEN Null ELSE q[2]
            <7>1. d.head[k] = l.next[q[1]] /\ 1 \in 1 .. Len(q) /\ 1 + 1 = 2
                BY <2>2, <2>10, <5>2
            <7>2. l.next[q[1]] = IF 1 = Len(q) THEN Null ELSE q[1 + 1]
                BY <4>1, <7>1
            <7> QED
                BY <5>1, <7>1, <7>2
          <6>2. Len(q) # 1 => p[1] = q[2]
              BY <2>2, <2>5, <5>2
          <6> QED
              BY <2>5, <6>1, <6>2
        <5>3. CASE i # 1
          <6>1. l.head[k] = IF q = <<>> THEN Null ELSE q[1]
              BY <1>2, <2>11 DEF Linked, Start
          <6>2. q # <<>> /\ Len(q) # 1 /\ p[1] = q[1]
              BY <2>2, <2>5, <5>3
          <6> QED
              BY <2>5, <2>10, <5>1, <5>3, <6>1, <6>2
        <5> QED
            BY <5>2, <5>3
      <4>3. ASSUME NEW a \in DOMAIN p
            PROVE  d.next[p[a]] = IF a = Len(p) THEN Null ELSE p[a + 1]
        <5>0. a \in 1 .. Len(q) - 1 /\ a \in Nat /\ a + 1 \in 1 .. Len(q)
            BY <2>2, <2>5, <4>3
        <5>1. CASE a < i - 1
          <6>1. p[a] = q[a] /\ a \in DOMAIN q /\ a # i /\ a # i - 1
              BY <2>2, <2>5, <5>0, <5>1
          <6>2. d.next[q[a]] = l.next[q[a]]
              BY <1>2, <2>13, <6>1
          <6>3. l.next[q[a]] = q[a + 1]
              BY <2>2, <4>1, <5>0, <5>1
          <6>4. a # Len(p) /\ p[a + 1] = q[a + 1]
              BY <2>2, <2>5, <5>0, <5>1
          <6> QED
              BY <6>1, <6>2, <6>3, <6>4
        <5>2. CASE a = i - 1
          <6>1. p[a] = q[i - 1] /\ i # 1
              BY <2>2, <2>5, <5>0, <5>2
          <6>2. d.next[q[i - 1]] = l.next[q[i]]
              BY <2>10, <6>1
          <6>3. l.next[q[i]] = IF i = Len(q) THEN Null ELSE q[i + 1]
              BY <2>2, <4>1
          <6>4. i = Len(q) <=> a = Len(p)
              BY <2>2, <2>5, <5>0, <5>2
          <6>5. a # Len(p) => p[a + 1] = q[i + 1]
              BY <2>2, <2>5, <5>0, <5>2
          <6> QED
              BY <6>1, <6>2, <6>3, <6>4, <6>5
        <5>3. CASE a >= i
          <6>1. p[a] = q[a + 1] /\ a + 1 \in DOMAIN q /\ a + 1 # i /\ a + 1 # i - 1
              BY <2>2, <2>5, <5>0, <5>3
          <6>2. d.next[q[a + 1]] = l.next[q[a + 1]]
              BY <1>2, <2>13, <6>1
          <6>3. l.next[q[a + 1]] = IF a + 1 = Len(q) THEN Null ELSE q[a + 1 + 1]
              BY <4>1, <5>0
          <6>4. a + 1 = Len(q) <=> a = Len(p)
              BY <2>2, <2>5, <5>0
          <6>5. a # Len(p) => p[a + 1] = q[a + 1 + 1]
              BY <2>2, <2>5, <5>0, <5>3
          <6> QED
              BY <6>1, <6>2, <6>3, <6>4, <6>5
        <5>4. a < i - 1 \/ a = i - 1 \/ a >= i
            BY <2>2, <5>0
        <5> QED
            BY <5>1, <5>2, <5>3, <5>4
      <4> QED
          BY <2>6, <3>2, <4>2, <4>3 DEF Linked
    <3>3. CASE j \in Kinds /\ j # k
      <4>1. \A a \in DOMAIN qs[j] : d.next[qs[j][a]] = l.next[qs[j][a]]
          BY <2>13, <3>3
      <4>2. Start(d, j) = Start(l, j)
          BY <1>2, <2>10, <3>3 DEF Start
      <4> QED
          BY <2>6, <2>11, <3>3, <4>1, <4>2 DEF Linked
    <3> QED
        BY <1>2, <3>1, <3>2, <3>3
  <2>15. ASSUME NEW j \in Kinds
         PROVE  /\ Handled(d, rs[j])
                /\ HandlesIn(d, rs[j]) = IF j = k THEN HandlesIn(l, q) \ {h} ELSE HandlesIn(l, qs[j])
    <3>1. \A a \in DOMAIN qs[j] : (j = k => a # i) => d.handle[qs[j][a]] = l.handle[qs[j][a]]
        BY <1>2, <2>1, <2>7, <2>8, <2>9
    <3>2. Handled(l, qs[j])
        BY <1>1 DEF Shape
    <3>3. CASE j # k
      <4>1. Handled(d, qs[j])
          BY <3>1, <3>2, <3>3 DEF Handled
      <4>2. HandlesIn(d, qs[j]) = HandlesIn(l, qs[j])
          BY <3>1, <3>3 DEF HandlesIn
      <4> QED
          BY <2>6, <3>3, <4>1, <4>2
    <3>4. CASE j = k
      <4> DEFINE o(a) == IF a < i THEN a ELSE a + 1
      <4>1. \A a \in DOMAIN p : o(a) \in DOMAIN q /\ o(a) # i /\ p[a] = q[o(a)] /\ a \in Nat
          BY <2>2, <2>5
      <4>2. \A b \in DOMAIN q : b # i => \E a \in DOMAIN p : b = o(a)
        <5> SUFFICES ASSUME NEW b \in DOMAIN q, b # i
                     PROVE  \E a \in DOMAIN p : b = o(a)
            OBVIOUS
        <5>1. CASE b < i
          <6>1. b \in DOMAIN p /\ b = o(b)
              BY <2>2, <2>5, <5>1
          <6> QED
              BY <6>1
        <5>2. CASE b > i
          <6>1. b - 1 \in DOMAIN p /\ b = o(b - 1)
              BY <2>2, <2>5, <5>2
          <6> QED
              BY <6>1
        <5> QED
            BY <2>2, <5>1, <5>2
      <4>3. \A a, b \in DOMAIN p : o(a) = o(b) => a = b
          BY <2>2, <4>1
      <4> HIDE DEF o
      <4>4. \A a \in DOMAIN p : d.handle[p[a]] = l.handle[q[o(a)]]
          BY <3>1, <3>4, <4>1
      <4>5. \A a, b \in DOMAIN q : l.handle[q[a]] = l.handle[q[b]] => a = b
          BY <3>2, <3>4 DEF Handled
      <4>6. Handled(d, p)
        <5>1. \A a \in DOMAIN q : l.handle[q[a]] \in Handles
            BY <3>2, <3>4 DEF Handled
        <5> QED
            BY <4>1, <4>3, <4>4, <4>5, <5>1 DEF Handled
      <4>7. HandlesIn(d, p) = HandlesIn(l, q) \ {h}
        <5>1. ASSUME NEW a \in DOMAIN p
              PROVE  d.handle[p[a]] \in HandlesIn(l, q) /\ d.handle[p[a]] # h
            BY <2>1, <4>1, <4>4, <4>5 DEF HandlesIn
        <5>2. ASSUME NEW b \in DOMAIN q, l.handle[q[b]] # h
              PROVE  l.handle[q[b]] \in HandlesIn(d, p)
          <6>1. PICK a \in DOMAIN p : b = o(a)
              BY <2>1, <4>2, <5>2
          <6> QED
              BY <4>4, <6>1 DEF HandlesIn
        <5> QED
            BY <5>1, <5>2 DEF HandlesIn
      <4> QED
          BY <2>6, <3>4, <4>6, <4>7
    <3> QED
        BY <3>3, <3>4
  <2>16. Shape(d, rs)
      BY <2>6, <2>12, <2>14, <2>15 DEF Shape
  <2>17. Good(d)
      BY <2>3, <2>16 DEF Good
  <2>18. ASSUME NEW j \in Kinds
         PROVE  Members(d, j) = IF j = k THEN Members(l, j) \ {h} ELSE Members(l, j)
    <3>1. Members(d, j) = HandlesIn(d, rs[j])
        BY <2>3, <2>16, MembersAre
    <3>2. Members(l, j) = HandlesIn(l, qs[j])
        BY <1>0, <1>1, MembersAre
    <3> QED
        BY <2>15, <3>1, <3>2
  <2> QED
      BY <2>17, <2>18
<1> QED
    BY <1>7, <1>8

\* open_i puts every node into the free list.
LEMMA EmptyGood == Good(EmptyLists) /\ \A k \in Kinds : Members(EmptyLists, k) = {}
<1> DEFINE N == 3 * Cardinality(Handles)
           f == [i \in 1 .. N |-> i]
           qs == [k \in Lists |-> IF k = "free" THEN f ELSE <<>>]
           l == EmptyLists
<1>0. N \in Nat \ {0} /\ Nodes = 1 .. N /\ Null \notin Nodes
    BY ReactorAssumption, FS_CardinalityType, FS_EmptySet DEF Null
<1> HIDE DEF N
<1>1. f \in Seq(Nodes) /\ Len(f) = N /\ DOMAIN f = 1 .. N /\ \A i \in 1 .. N : f[i] = i
    BY <1>0
<1>2. f # <<>>
    BY <1>0, <1>1
<1> HIDE DEF f
<1>3. "free" \in Lists /\ Lists = Kinds \cup {"free"} /\ "free" \notin Kinds
    BY DEF Lists, Kinds
<1>4. qs \in [Lists -> Seq(Nodes)] /\ qs["free"] = f /\ \A k \in Kinds : qs[k] = <<>>
    BY <1>1, <1>3
<1> HIDE DEF qs
<1>5. /\ l.head = [k \in Kinds |-> Null] /\ l.handle = [n \in Nodes |-> NoFd] /\ l.free = 1
      /\ l.next = [n \in Nodes |-> IF n + 1 \in Nodes THEN n + 1 ELSE Null]
      /\ l \in ListsType
  <2>1. 1 \in Nodes
      BY <1>0
  <2>2. l.head = [k \in Kinds |-> Null]
      BY DEF EmptyLists
  <2>3. l.handle = [n \in Nodes |-> NoFd]
      BY DEF EmptyLists
  <2>4. l.free = 1
      BY DEF EmptyLists
  <2>5. l.next = [n \in Nodes |-> IF n + 1 \in Nodes THEN n + 1 ELSE Null]
      BY DEF EmptyLists
  <2>6. l \in ListsType
      BY <2>1 DEF EmptyLists, ListsType
  <2> QED
      BY <2>2, <2>3, <2>4, <2>5, <2>6
<1> HIDE DEF l
<1>6. Once(qs)
  <2>1. ASSUME NEW n \in Nodes
        PROVE  \E k \in Lists : \E i \in DOMAIN qs[k] : qs[k][i] = n
      BY <1>0, <1>1, <1>3, <1>4
  <2>2. ASSUME NEW j \in Lists, NEW k \in Lists, NEW a \in DOMAIN qs[j], NEW b \in DOMAIN qs[k],
               qs[j][a] = qs[k][b]
        PROVE  j = k /\ a = b
    <3>1. j = "free" /\ k = "free"
        BY <1>3, <1>4
    <3> QED
        BY <1>1, <1>4, <2>2, <3>1
  <2> QED
      BY <2>1, <2>2 DEF Once
<1>7. Linked(l, f, 1)
  <2>1. ASSUME NEW i \in 1 .. N
        PROVE  l.next[f[i]] = IF i = N THEN Null ELSE f[i + 1]
    <3>1. f[i] = i /\ i \in Nodes /\ l.next[i] = IF i + 1 \in Nodes THEN i + 1 ELSE Null
        BY <1>0, <1>1, <1>5
    <3>2. i + 1 \in Nodes <=> i # N
        BY <1>0
    <3>3. i # N => f[i + 1] = i + 1
        BY <1>0, <1>1
    <3> QED
        BY <3>1, <3>2, <3>3
  <2>2. f[1] = 1
      BY <1>0, <1>1
  <2> QED
      BY <1>1, <1>2, <2>1, <2>2 DEF Linked
<1>8. ASSUME NEW k \in Kinds
      PROVE  Linked(l, qs[k], Start(l, k)) /\ Handled(l, qs[k])
    BY <1>3, <1>4, <1>5 DEF Linked, Start, Handled
<1>9. Linked(l, qs["free"], Start(l, "free"))
    BY <1>4, <1>5, <1>7 DEF Start
<1>10. Shape(l, qs)
    BY <1>3, <1>4, <1>6, <1>8, <1>9 DEF Shape
<1>11. ASSUME NEW k \in Kinds
       PROVE  Members(l, k) = {}
  <2>1. Members(l, k) = HandlesIn(l, qs[k])
      BY <1>5, <1>10, MembersAre
  <2> QED
      BY <1>4, <2>1 DEF HandlesIn
<1> QED
    BY <1>5, <1>10, <1>11 DEF Good, l

\* d has h in the list k or not, and is otherwise as l.
Differs(l, d, h, k, on) ==
    /\ Good(d)
    /\ \A x \in Handles : x # h => On(d, x) = On(l, x)
    /\ On(d, h) = IF on THEN On(l, h) \cup {k} ELSE On(l, h) \ {k}

\* append_handle changes the lists of one handle.
LEMMA AppendDiffers ==
    ASSUME NEW l, Good(l), NEW h \in Handles, NEW k \in Kinds
    PROVE  Differs(l, append_handle(l, h, k), h, k, TRUE)
<1> DEFINE d == append_handle(l, h, k)
<1> HIDE DEF d
<1>1. /\ Good(d) /\ Members(d, k) = Members(l, k) \cup {h}
      /\ \A j \in Kinds : j # k => Members(d, j) = Members(l, j)
    BY AppendKeeps DEF d
<1>2. ASSUME NEW x \in Handles, NEW j \in Kinds
      PROVE  x \in Members(d, j) <=> x \in Members(l, j) \/ (x = h /\ j = k)
    BY <1>1
<1>3. \A x \in Handles : x # h => On(d, x) = On(l, x)
    BY <1>2 DEF On
<1>4. On(d, h) = On(l, h) \cup {k}
    BY <1>2 DEF On
<1>5. Differs(l, d, h, k, TRUE)
    BY <1>1, <1>3, <1>4 DEF Differs
<1> QED
    BY <1>5 DEF d

\* So does remove_handle.
LEMMA RemoveDiffers ==
    ASSUME NEW l, Good(l), NEW h \in Handles, NEW k \in Kinds
    PROVE  Differs(l, remove_handle(l, h, k), h, k, FALSE)
<1> DEFINE d == remove_handle(l, h, k)
<1> HIDE DEF d
<1>1. /\ Good(d) /\ Members(d, k) = Members(l, k) \ {h}
      /\ \A j \in Kinds : j # k => Members(d, j) = Members(l, j)
    BY RemoveKeeps DEF d
<1>2. ASSUME NEW x \in Handles, NEW j \in Kinds
      PROVE  x \in Members(d, j) <=> x \in Members(l, j) /\ ~(x = h /\ j = k)
    BY <1>1
<1>3. \A x \in Handles : x # h => On(d, x) = On(l, x)
    BY <1>2 DEF On
<1>4. On(d, h) = On(l, h) \ {k}
    BY <1>2 DEF On
<1>5. Differs(l, d, h, k, FALSE)
    BY <1>1, <1>3, <1>4 DEF Differs
<1> QED
    BY <1>5 DEF d

\* select_reactor_base::handle_opt_i leaves the handle in the lists of the
\* mask, and, when it adds, in those it was in.
LEMMA SelectOpt ==
    ASSUME NEW l, Good(l), NEW h \in Handles, NEW m, NEW opt,
           NEW d, d = select_handle_opt_i(l, h, m, opt)
    PROVE  /\ Good(d)
           /\ \A x \in Handles : x # h => On(d, x) = On(l, x)
           /\ On(d, h) = ListsOf(m) \cup (IF m # {} /\ opt = "add_mask" THEN On(l, h) ELSE {})
<1> DEFINE keeps == m # {} /\ opt = "add_mask"
           add(x, k) == IF k \in ListsOf(m) THEN append_handle(x, h, k) ELSE x
           del(x, k) == IF m = {} \/ (opt # "add_mask" /\ k \notin ListsOf(m))
                        THEN remove_handle(x, h, k) ELSE x
<1>1. ListsOf(m) \subseteq Kinds /\ (m = {} => ListsOf(m) = {})
    BY DEF ListsOf, Kinds
<1>2. ASSUME NEW x, Good(x), NEW k \in Kinds
      PROVE  /\ Good(add(x, k)) /\ \A y \in Handles : y # h => On(add(x, k), y) = On(x, y)
             /\ On(add(x, k), h) = On(x, h) \cup ({k} \cap ListsOf(m))
  <2>1. CASE k \in ListsOf(m)
    <3>1. Differs(x, add(x, k), h, k, TRUE)
        BY <1>2, <2>1, AppendDiffers
    <3> HIDE DEF add
    <3> QED
        BY <2>1, <3>1 DEF Differs
  <2>2. CASE k \notin ListsOf(m)
      BY <1>2, <2>2
  <2> QED
      BY <2>1, <2>2
<1>3. ASSUME NEW x, Good(x), NEW k \in Kinds
      PROVE  /\ Good(del(x, k)) /\ \A y \in Handles : y # h => On(del(x, k), y) = On(x, y)
             /\ On(del(x, k), h) = IF keeps \/ k \in ListsOf(m) THEN On(x, h) ELSE On(x, h) \ {k}
  <2>1. CASE keeps \/ k \in ListsOf(m)
    <3>1. del(x, k) = x
        BY <1>1, <2>1
    <3> HIDE DEF del
    <3> QED
        BY <1>3, <2>1, <3>1
  <2>2. CASE ~(keeps \/ k \in ListsOf(m))
    <3>1. Differs(x, del(x, k), h, k, FALSE)
        BY <1>3, <2>2, RemoveDiffers
    <3> HIDE DEF del
    <3> QED
        BY <2>2, <3>1 DEF Differs
  <2> QED
      BY <2>1, <2>2
<1> DEFINE d1 == del(l, "rd")
           d2 == del(d1, "wr")
           d3 == del(d2, "ex")
           d4 == add(d3, "rd")
           d5 == add(d4, "wr")
           d6 == add(d5, "ex")
<1>4. d = d6
    BY DEF select_handle_opt_i
<1>5. "rd" \in Kinds /\ "wr" \in Kinds /\ "ex" \in Kinds /\ Kinds = {"rd", "wr", "ex"}
    BY DEF Kinds
<1> HIDE DEF add, del, keeps
<1>6. /\ Good(d1) /\ \A y \in Handles : y # h => On(d1, y) = On(l, y)
      /\ On(d1, h) = IF keeps \/ "rd" \in ListsOf(m) THEN On(l, h) ELSE On(l, h) \ {"rd"}
    BY <1>3, <1>5
<1> HIDE DEF d1
<1>7. /\ Good(d2) /\ \A y \in Handles : y # h => On(d2, y) = On(d1, y)
      /\ On(d2, h) = IF keeps \/ "wr" \in ListsOf(m) THEN On(d1, h) ELSE On(d1, h) \ {"wr"}
    BY <1>3, <1>5, <1>6
<1> HIDE DEF d2
<1>8. /\ Good(d3) /\ \A y \in Handles : y # h => On(d3, y) = On(d2, y)
      /\ On(d3, h) = IF keeps \/ "ex" \in ListsOf(m) THEN On(d2, h) ELSE On(d2, h) \ {"ex"}
    BY <1>3, <1>5, <1>7
<1> HIDE DEF d3
<1>9. /\ Good(d4) /\ \A y \in Handles : y # h => On(d4, y) = On(d3, y)
      /\ On(d4, h) = On(d3, h) \cup ({"rd"} \cap ListsOf(m))
    BY <1>2, <1>5, <1>8
<1> HIDE DEF d4
<1>10. /\ Good(d5) /\ \A y \in Handles : y # h => On(d5, y) = On(d4, y)
       /\ On(d5, h) = On(d4, h) \cup ({"wr"} \cap ListsOf(m))
    BY <1>2, <1>5, <1>9
<1> HIDE DEF d5
<1>11. /\ Good(d6) /\ \A y \in Handles : y # h => On(d6, y) = On(d5, y)
       /\ On(d6, h) = On(d5, h) \cup ({"ex"} \cap ListsOf(m))
    BY <1>2, <1>5, <1>10
<1> HIDE DEF d6
<1>12. On(l, h) \subseteq Kinds
    BY DEF On
<1>13. On(d3, h) = IF keeps THEN On(l, h) ELSE On(l, h) \cap ListsOf(m)
    BY <1>5, <1>6, <1>7, <1>8, <1>12
<1>14. On(d6, h) = On(d3, h) \cup ListsOf(m)
    BY <1>1, <1>5, <1>9, <1>10, <1>11
<1>15. On(d6, h) = ListsOf(m) \cup (IF keeps THEN On(l, h) ELSE {})
    BY <1>13, <1>14
<1>16. \A x \in Handles : x # h => On(d6, x) = On(l, x)
    BY <1>6, <1>7, <1>8, <1>9, <1>10, <1>11
<1> QED
    BY <1>4, <1>11, <1>15, <1>16 DEF keeps

-----------------------------------------------------------------------------
(* The operations on one handle.                                           *)

\* An operation touches the entry and the interest of one handle, and leaves
\* them in order: the handler stays, goes, or is one that owns the handle.
Local(h) ==
    /\ rep' \in [Handles -> Entry] /\ epoll' \in [Handles -> Asks]
    /\ \A x \in Handles : x # h => rep'[x] = rep[x] /\ epoll'[x] = epoll[x]
    /\ rep'[h].eh # NoEh => hd[rep'[h].eh] = h
    /\ kind = "epoll" => AsksFor(h)'
    /\ kind = "select" => /\ Good(lists')
                          /\ \A x \in Handles : x # h => On(lists', x) = On(lists, x)
                          /\ ListsFor(h)'

Same == rep' = rep /\ epoll' = epoll /\ lists' = lists

\* What is asked of a handle is a set of epoll events.
LEMMA MaskToEvents ==
    ASSUME NEW m
    PROVE  reactor_mask_to_epoll_event(m) \in Asks \ {Absent}
  BY AbsentAssumption DEF reactor_mask_to_epoll_event, Asks

\* handle_opt_i on an open descriptor.
LEMMA OptOpen ==
    ASSUME Typed, Listed, NEW h \in Handles, h \in fds, NEW m, NEW refused \in BOOLEAN,
           NEW opt \in {"add_mask", "set_mask", "clr_mask"},
           NEW c, c = handle_opt_i(h, m, opt, refused)
    PROVE  /\ c.epoll \in [Handles -> Asks]
           /\ \A x \in Handles : x # h => c.epoll[x] = epoll[x]
           /\ c.ok \in BOOLEAN
           /\ kind = "select" =>
                 /\ c.ok /\ c.epoll = epoll /\ Good(c.lists)
                 /\ \A x \in Handles : x # h => On(c.lists, x) = On(lists, x)
                 /\ On(c.lists, h) =
                       ListsOf(m) \cup (IF m # {} /\ opt = "add_mask" THEN On(lists, h) ELSE {})
           /\ kind = "epoll" /\ opt = "clr_mask" => c.ok /\ c.epoll[h] = Absent
           /\ kind = "epoll" /\ opt = "add_mask" =>
                 \/ epoll[h] # Absent /\ c.ok /\ c.epoll[h] = epoll[h]
                 \/ epoll[h] = Absent /\ c.ok
                       /\ c.epoll[h] = reactor_mask_to_epoll_event(m)
                 \/ epoll[h] = Absent /\ ~c.ok /\ c.epoll[h] = Absent
           /\ kind = "epoll" /\ opt = "set_mask" =>
                 \/ c.ok /\ c.epoll[h] = reactor_mask_to_epoll_event(m)
                 \/ epoll[h] = Absent /\ c.epoll[h] = Absent
<1> DEFINE ev == reactor_mask_to_epoll_event(m)
           d  == epoll_handle_opt_i(epoll, TRUE, h, m, opt, refused)
<1> HIDE DEF ev
<1>0. ev \in Asks /\ Absent \in Asks /\ epoll \in [Handles -> Asks]
  <2>1. ev \in Asks
      BY MaskToEvents DEF ev
  <2>2. Absent \in Asks
      BY DEF Asks
  <2>3. epoll \in [Handles -> Asks]
      BY DEF Typed
  <2> QED
      BY <2>1, <2>2, <2>3
<1>1. CASE kind = "select"
  <2>1. c.epoll = epoll /\ c.ok = TRUE /\ c.lists = select_handle_opt_i(lists, h, m, opt)
      BY <1>1 DEF handle_opt_i
  <2>2. Good(lists)
      BY <1>1 DEF Listed
  <2>3. /\ Good(c.lists) /\ \A x \in Handles : x # h => On(c.lists, x) = On(lists, x)
        /\ On(c.lists, h) = ListsOf(m) \cup (IF m # {} /\ opt = "add_mask" THEN On(lists, h) ELSE {})
      BY <2>1, <2>2, SelectOpt
  <2> QED
      BY <1>0, <1>1, <2>1, <2>3
<1>2. CASE kind = "epoll"
  <2>1. c.epoll = d.set /\ c.ok = d.ok
      BY <1>2 DEF handle_opt_i
  <2>2. CASE opt = "clr_mask"
    <3>1. d = [set |-> [epoll EXCEPT ![h] = Absent], ok |-> TRUE]
        BY <2>2 DEF epoll_handle_opt_i, ctl_del
    <3> HIDE DEF d
    <3>2. c.epoll = [epoll EXCEPT ![h] = Absent] /\ c.ok = TRUE
        BY <2>1, <3>1
    <3> QED
        BY <1>0, <1>2, <2>2, <3>2
  <2>3. CASE opt = "add_mask"
    <3>1. d = IF epoll[h] # Absent THEN [set |-> epoll, ok |-> TRUE]
              ELSE IF refused THEN [set |-> epoll, ok |-> FALSE]
              ELSE [set |-> [epoll EXCEPT ![h] = ev], ok |-> TRUE]
        BY <2>3 DEF epoll_handle_opt_i, ctl_add, ev
    <3> HIDE DEF d
    <3>2. \/ epoll[h] # Absent /\ c.epoll = epoll /\ c.ok = TRUE
          \/ epoll[h] = Absent /\ c.epoll = epoll /\ c.ok = FALSE
          \/ epoll[h] = Absent /\ c.epoll = [epoll EXCEPT ![h] = ev] /\ c.ok = TRUE
        BY <2>1, <3>1
    <3> QED
        BY <1>0, <1>2, <2>3, <3>2 DEF ev
  <2>4. CASE opt = "set_mask"
    <3>1. d = IF epoll[h] = Absent /\ refused THEN [set |-> epoll, ok |-> FALSE]
              ELSE [set |-> [epoll EXCEPT ![h] = ev], ok |-> TRUE]
        BY <2>4 DEF epoll_handle_opt_i, ctl_mod, ctl_add, ev
    <3> HIDE DEF d
    <3>2. \/ epoll[h] = Absent /\ c.epoll = epoll /\ c.ok = FALSE
          \/ c.epoll = [epoll EXCEPT ![h] = ev] /\ c.ok = TRUE
        BY <2>1, <3>1
    <3> QED
        BY <1>0, <1>2, <2>4, <3>2 DEF ev
  <2> QED
      BY <2>2, <2>3, <2>4
<1> QED
    BY <1>1, <1>2 DEF Typed

\* r is the repository with another entry for h.
Entered(r, h, e, m, s) ==
    /\ r \in [Handles -> Entry]
    /\ \A x \in Handles : x # h => r[x] = rep[x]
    /\ r[h].eh = e /\ r[h].mask = m /\ r[h].suspended = s

\* What bind, unbind and the assignments to one field make of an entry.
LEMMA EntryChanges ==
    ASSUME Typed, NEW h \in Handles, NEW e \in Handlers \cup {NoEh},
           NEW m \in SUBSET AllMask, NEW s \in BOOLEAN
    PROVE  /\ Entered(bind(rep, h, e, m), h, e, m, rep[h].suspended)
           /\ Entered(unbind(rep, h), h, NoEh, {}, rep[h].suspended)
           /\ Entered([rep EXCEPT ![h].mask = m], h, rep[h].eh, m, rep[h].suspended)
           /\ Entered(unbind([rep EXCEPT ![h].mask = m], h), h, NoEh, {}, rep[h].suspended)
           /\ Entered([rep EXCEPT ![h].suspended = s], h, rep[h].eh, rep[h].mask, s)
<1>0. rep \in [Handles -> Entry] /\ rep[h] \in Entry
    BY DEF Typed
<1>1. Entered(bind(rep, h, e, m), h, e, m, rep[h].suspended)
    BY <1>0 DEF Entered, Entry, bind
<1>2. Entered(unbind(rep, h), h, NoEh, {}, rep[h].suspended)
    BY <1>0 DEF Entered, Entry, unbind
<1>3. Entered([rep EXCEPT ![h].mask = m], h, rep[h].eh, m, rep[h].suspended)
    BY <1>0 DEF Entered, Entry
<1>4. Entered(unbind([rep EXCEPT ![h].mask = m], h), h, NoEh, {}, rep[h].suspended)
    BY <1>0 DEF Entered, Entry, unbind
<1>5. Entered([rep EXCEPT ![h].suspended = s], h, rep[h].eh, rep[h].mask, s)
    BY <1>0 DEF Entered, Entry
<1> QED
    BY <1>1, <1>2, <1>3, <1>4, <1>5

\* Typed entries have typed fields.
LEMMA EntryFields ==
    ASSUME Typed, NEW h \in Handles
    PROVE  /\ rep[h].eh \in Handlers \cup {NoEh} /\ rep[h].mask \in SUBSET AllMask
           /\ rep[h].suspended \in BOOLEAN
           /\ find(h) = rep[h].eh
  BY DEF Typed, Entry, find

\* register_handler_i keeps the interest in step with the mask, whether or not
\* the kernel refuses the handle.
LEMMA RegisterLocal ==
    ASSUME IInv, NEW h \in Handles, h \in fds, NEW e \in Handlers, hd[e] = h, kind' = kind,
           NEW m \in SUBSET AllMask, m # {}, NEW refused \in BOOLEAN,
           register_handler_i(h, e, m, refused)
    PROVE  Local(h)
<1>0. Typed /\ Listed /\ NoDangling /\ (kind = "epoll" => AsksFor(h)) /\ NoEh \notin Handlers
    BY ReactorAssumption DEF IInv, Asked
<1>a. kind = "select" => ListsFor(h)
    BY <1>0 DEF Listed
<1>1. /\ rep[h].eh \in Handlers \cup {NoEh} /\ rep[h].mask \in SUBSET AllMask
      /\ rep[h].suspended \in BOOLEAN /\ find(h) = rep[h].eh
    BY <1>0, EntryFields
<1>2. CASE find(h) = NoEh
  <2> DEFINE c == handle_opt_i(h, m, "add_mask", refused)
  <2> HIDE DEF c
  <2>1. /\ rep' = IF c.ok THEN bind(rep, h, e, m) ELSE unbind(rep, h)
        /\ epoll' = c.epoll /\ lists' = c.lists
      BY <1>2 DEF register_handler_i, Demux, c
  <2>2. /\ c.epoll \in [Handles -> Asks]
        /\ \A x \in Handles : x # h => c.epoll[x] = epoll[x]
        /\ c.ok \in BOOLEAN
        /\ kind = "select" => /\ c.ok /\ Good(c.lists)
                              /\ \A x \in Handles : x # h => On(c.lists, x) = On(lists, x)
                              /\ On(c.lists, h) = ListsOf(m) \cup On(lists, h)
        /\ kind = "epoll" => \/ epoll[h] # Absent /\ c.ok /\ c.epoll[h] = epoll[h]
                             \/ epoll[h] = Absent /\ c.ok
                                   /\ c.epoll[h] = reactor_mask_to_epoll_event(m)
                             \/ epoll[h] = Absent /\ ~c.ok /\ c.epoll[h] = Absent
      BY <1>0, OptOpen DEF c
  <2>3. /\ Entered(bind(rep, h, e, m), h, e, m, rep[h].suspended)
        /\ Entered(unbind(rep, h), h, NoEh, {}, rep[h].suspended)
      BY <1>0, EntryChanges
  <2>4. kind = "epoll" => epoll[h] = Absent
      BY <1>0, <1>1, <1>2 DEF AsksFor
  <2>5. CASE c.ok
    <3>1. Entered(rep', h, e, m, rep[h].suspended)
        BY <2>1, <2>3, <2>5
    <3>2. kind = "select" => ListsFor(h)'
      <4>1. kind = "select" => On(lists, h) = {}
          BY <1>1, <1>2, <1>a DEF ListsFor
      <4>2. kind = "select" => On(lists', h) = ListsOf(m)
          BY <2>1, <2>2, <4>1
      <4>3. rep'[h].eh = e /\ rep'[h].mask = m /\ e # NoEh
          BY <1>0, <3>1 DEF Entered
      <4> QED
          BY <4>2, <4>3 DEF ListsFor
    <3> QED
        BY <1>0, <2>1, <2>2, <2>4, <2>5, <3>1, <3>2 DEF Entered, Local, AsksFor
  <2>6. CASE ~c.ok
    <3>1. Entered(rep', h, NoEh, {}, rep[h].suspended)
        BY <2>1, <2>3, <2>6
    <3> QED
        BY <1>0, <2>1, <2>2, <2>4, <2>6, <3>1 DEF Entered, Local, AsksFor
  <2> QED
      BY <2>5, <2>6
<1>3. CASE find(h) # NoEh
  <2> DEFINE new == rep[h].mask \cup m
             c   == handle_opt_i(h, new, "set_mask", refused)
  <2> HIDE DEF new, c
  <2>1. rep' = [rep EXCEPT ![h].mask = new] /\ epoll' = c.epoll /\ lists' = c.lists
      BY <1>3 DEF register_handler_i, Demux, c, new
  <2>2. /\ c.epoll \in [Handles -> Asks]
        /\ \A x \in Handles : x # h => c.epoll[x] = epoll[x]
        /\ kind = "select" => /\ Good(c.lists)
                              /\ \A x \in Handles : x # h => On(c.lists, x) = On(lists, x)
                              /\ On(c.lists, h) = ListsOf(new)
        /\ kind = "epoll" => \/ c.epoll[h] = reactor_mask_to_epoll_event(new)
                             \/ epoll[h] = Absent /\ c.epoll[h] = Absent
      BY <1>0, OptOpen DEF c
  <2>3. new \in SUBSET AllMask /\ new # {}
      BY <1>1 DEF new
  <2>4. Entered(rep', h, rep[h].eh, new, rep[h].suspended)
      BY <1>0, <1>1, <2>1, <2>3, EntryChanges
  <2>5. hd[rep[h].eh] = h
      BY <1>0, <1>1, <1>3 DEF NoDangling
  <2>6. reactor_mask_to_epoll_event(rep[h].mask) # Absent
      BY MaskToEvents
  <2>7. kind = "select" => ListsFor(h)'
    <3>1. kind = "select" => On(lists', h) = ListsOf(new)
        BY <2>1, <2>2
    <3>2. rep'[h].eh = rep[h].eh /\ rep'[h].mask = new /\ rep[h].eh # NoEh
        BY <1>1, <1>3, <2>4 DEF Entered
    <3> QED
        BY <2>3, <3>1, <3>2 DEF ListsFor
  <2> QED
      BY <1>0, <1>1, <1>3, <2>1, <2>2, <2>4, <2>5, <2>6, <2>7 DEF Entered, Local, AsksFor
<1> QED
    BY <1>2, <1>3

\* The rest of remove_handler_i, whatever handle it finds: one that has a
\* handler is open.  With every mask removed the handler is gone.
LEMMA ClearLocal ==
    ASSUME IInv, NEW h, kind' = kind, NEW m, NEW refused \in BOOLEAN,
           ClearMask(h, m, refused)
    PROVE  /\ Same \/ (h \in Handles /\ Local(h))
           /\ h \in Handles /\ AllMask \subseteq m => rep'[h].eh = NoEh
<1>0. Typed /\ Listed /\ NoDangling /\ Asked /\ NoEh \notin Handlers
    BY ReactorAssumption DEF IInv
<1>1. CASE find(h) = NoEh
  <2>1. Same
      BY <1>1 DEF ClearMask, Same, kernel
  <2>2. h \in Handles => find(h) = rep[h].eh
      BY DEF find
  <2> QED
      BY <1>1, <2>1, <2>2 DEF Same
<1>2. CASE find(h) # NoEh
  <2> DEFINE new == rep[h].mask \ m
             opt == IF new = {} THEN "clr_mask" ELSE "set_mask"
             c   == handle_opt_i(h, new, opt, refused)
             set == [rep EXCEPT ![h].mask = new]
  <2>0. h \in Handles
      BY <1>2 DEF find
  <2>1. /\ rep[h].eh \in Handlers \cup {NoEh} /\ rep[h].mask \in SUBSET AllMask
        /\ rep[h].suspended \in BOOLEAN /\ find(h) = rep[h].eh
      BY <1>0, <2>0, EntryFields
  <2>2. new \in SUBSET AllMask
      BY <2>1
  <2>3. /\ Entered(set, h, rep[h].eh, new, rep[h].suspended)
        /\ Entered(unbind(set, h), h, NoEh, {}, rep[h].suspended)
      BY <1>0, <2>0, <2>1, <2>2, EntryChanges
  <2>4. /\ rep' = IF c.ok /\ new = {} THEN unbind(set, h) ELSE set
        /\ epoll' = c.epoll /\ lists' = c.lists
      BY <1>2 DEF ClearMask, Demux
  <2>5. hd[rep[h].eh] = h /\ h \in fds /\ (kind = "epoll" => AsksFor(h))
      BY <1>0, <1>2, <2>0, <2>1 DEF NoDangling, Asked
  <2>6. AllMask \subseteq m => new = {}
      BY <2>1
  <2>7. opt \in {"add_mask", "set_mask", "clr_mask"}
      OBVIOUS
  <2>8. reactor_mask_to_epoll_event(rep[h].mask) # Absent
      BY MaskToEvents
  <2> HIDE DEF new, c, set, opt
  <2>9. /\ c.epoll \in [Handles -> Asks]
        /\ \A x \in Handles : x # h => c.epoll[x] = epoll[x]
        /\ c.ok \in BOOLEAN
        /\ kind = "select" =>
              /\ c.ok /\ Good(c.lists)
              /\ \A x \in Handles : x # h => On(c.lists, x) = On(lists, x)
              /\ On(c.lists, h) =
                    ListsOf(new) \cup (IF new # {} /\ opt = "add_mask" THEN On(lists, h) ELSE {})
        /\ kind = "epoll" /\ opt = "clr_mask" => c.ok /\ c.epoll[h] = Absent
        /\ kind = "epoll" /\ opt = "set_mask" =>
              \/ c.ok /\ c.epoll[h] = reactor_mask_to_epoll_event(new)
              \/ epoll[h] = Absent /\ c.epoll[h] = Absent
    <3>1. c = handle_opt_i(h, new, opt, refused)
        BY DEF c
    <3> QED
        BY <1>0, <2>0, <2>5, <2>7, <3>1, OptOpen
  <2>10. CASE new = {}
    <3>1. opt = "clr_mask"
        BY <2>10 DEF opt
    <3>2. c.ok
        BY <1>0, <2>9, <3>1 DEF Typed
    <3>3. Entered(rep', h, NoEh, {}, rep[h].suspended)
        BY <2>3, <2>4, <2>10, <3>2
    <3>a. kind = "select" => ListsFor(h)'
      <4>1. ListsOf(new) = {}
          BY <2>10 DEF ListsOf
      <4> QED
          BY <2>4, <2>9, <2>10, <3>3, <4>1 DEF Entered, ListsFor
    <3>4. Local(h) /\ rep'[h].eh = NoEh
        BY <2>0, <2>4, <2>9, <3>1, <3>3, <3>a DEF Entered, Local, AsksFor
    <3> QED
        BY <2>0, <3>4
  <2>11. CASE new # {}
    <3>1. opt = "set_mask"
        BY <2>11 DEF opt
    <3>2. Entered(rep', h, rep[h].eh, new, rep[h].suspended)
        BY <2>3, <2>4, <2>11
    <3>a. kind = "select" => ListsFor(h)'
        BY <1>2, <2>1, <2>4, <2>9, <2>11, <3>1, <3>2 DEF Entered, ListsFor
    <3>3. Local(h)
        BY <1>2, <2>0, <2>1, <2>4, <2>5, <2>8, <2>9, <3>1, <3>2, <3>a DEF Entered, Local, AsksFor
    <3> QED
        BY <2>0, <2>6, <2>11, <3>3
  <2> QED
      BY <2>10, <2>11
<1> QED
    BY <1>1, <1>2

\* suspend_handler_i takes an open descriptor out of the set, and only then.
LEMMA SuspendLocal ==
    ASSUME IInv, NEW h \in Handles, kind' = kind, suspend_handler_i(h)
    PROVE  Same \/ Local(h)
<1>0. Typed /\ Listed /\ NoDangling /\ Asked /\ NoEh \notin Handlers
    BY ReactorAssumption DEF IInv
<1> DEFINE c == handle_opt_i(h, {}, "clr_mask", FALSE)
<1>1. /\ rep[h].eh \in Handlers \cup {NoEh} /\ rep[h].mask \in SUBSET AllMask
      /\ rep[h].suspended \in BOOLEAN /\ find(h) = rep[h].eh
    BY <1>0, EntryFields
<1>2. CASE find(h) = NoEh \/ rep[h].suspended
    BY <1>2 DEF suspend_handler_i, Same, kernel
<1>3. CASE find(h) # NoEh /\ ~rep[h].suspended
  <2>1. rep' = [rep EXCEPT ![h].suspended = c.ok] /\ epoll' = c.epoll /\ lists' = c.lists
      BY <1>3 DEF suspend_handler_i, Demux
  <2>2. hd[rep[h].eh] = h /\ h \in fds
      BY <1>0, <1>1, <1>3 DEF NoDangling
  <2> HIDE DEF c
  <2>3. /\ c.epoll \in [Handles -> Asks]
        /\ \A x \in Handles : x # h => c.epoll[x] = epoll[x]
        /\ c.ok \in BOOLEAN
        /\ kind = "select" => /\ c.ok /\ Good(c.lists) /\ On(c.lists, h) = ListsOf({})
                              /\ \A x \in Handles : x # h => On(c.lists, x) = On(lists, x)
        /\ kind = "epoll" => c.ok /\ c.epoll[h] = Absent
    <3>1. PICK refused \in BOOLEAN : refused = FALSE
        OBVIOUS
    <3>2. c = handle_opt_i(h, {}, "clr_mask", refused)
        BY <3>1 DEF c
    <3> QED
        BY <1>0, <2>2, <3>2, OptOpen
  <2>4. Entered(rep', h, rep[h].eh, rep[h].mask, c.ok)
      BY <1>0, <2>1, <2>3, EntryChanges
  <2>5. kind = "select" => ListsFor(h)'
    <3>1. ListsOf({}) = {}
        BY DEF ListsOf
    <3>2. kind = "select" => rep[h].mask # {}
        BY <1>0, <1>1, <1>3 DEF Listed, ListsFor
    <3> QED
        BY <1>1, <1>3, <2>1, <2>3, <2>4, <3>1, <3>2 DEF Entered, ListsFor
  <2> QED
      BY <1>1, <1>3, <2>1, <2>2, <2>3, <2>4, <2>5 DEF Entered, Local, AsksFor
<1> QED
    BY <1>2, <1>3

\* resume_handler_i clears the mark only when the handle is in the set.
LEMMA ResumeLocal ==
    ASSUME IInv, NEW h \in Handles, kind' = kind, NEW refused \in BOOLEAN,
           resume_handler_i(h, refused)
    PROVE  Same \/ Local(h)
<1>0. Typed /\ Listed /\ NoDangling /\ Asked /\ NoEh \notin Handlers
    BY ReactorAssumption DEF IInv
<1> DEFINE c == handle_opt_i(h, rep[h].mask, "add_mask", refused)
<1>1. /\ rep[h].eh \in Handlers \cup {NoEh} /\ rep[h].mask \in SUBSET AllMask
      /\ rep[h].suspended \in BOOLEAN /\ find(h) = rep[h].eh
    BY <1>0, EntryFields
<1>2. CASE find(h) = NoEh \/ ~rep[h].suspended \/ rep[h].mask = {}
    BY <1>2 DEF resume_handler_i, Same, kernel
<1>3. CASE find(h) # NoEh /\ rep[h].suspended /\ rep[h].mask # {}
  <2>1. rep' = [rep EXCEPT ![h].suspended = ~c.ok] /\ epoll' = c.epoll /\ lists' = c.lists
      BY <1>3 DEF resume_handler_i, Demux
  <2>2. hd[rep[h].eh] = h /\ h \in fds /\ (kind = "epoll" => AsksFor(h))
      BY <1>0, <1>1, <1>3 DEF NoDangling, Asked
  <2> HIDE DEF c
  <2>3. /\ c.epoll \in [Handles -> Asks]
        /\ \A x \in Handles : x # h => c.epoll[x] = epoll[x]
        /\ c.ok \in BOOLEAN
        /\ kind = "select" => /\ c.ok /\ Good(c.lists)
                              /\ On(c.lists, h) = ListsOf(rep[h].mask) \cup On(lists, h)
                              /\ \A x \in Handles : x # h => On(c.lists, x) = On(lists, x)
        /\ kind = "epoll" => \/ epoll[h] # Absent /\ c.ok /\ c.epoll[h] = epoll[h]
                             \/ epoll[h] = Absent /\ c.ok
                                   /\ c.epoll[h] = reactor_mask_to_epoll_event(rep[h].mask)
                             \/ epoll[h] = Absent /\ ~c.ok /\ c.epoll[h] = Absent
      BY <1>0, <1>3, <2>2, OptOpen DEF c
  <2>4. Entered(rep', h, rep[h].eh, rep[h].mask, ~c.ok)
      BY <1>0, <2>1, <2>3, EntryChanges
  <2>5. kind = "select" => ListsFor(h)'
    <3>1. kind = "select" => On(lists, h) = ListsOf(rep[h].mask) \/ On(lists, h) = {}
        BY <1>0, <1>1, <1>3 DEF Listed, ListsFor
    <3>2. kind = "select" => On(lists', h) = ListsOf(rep[h].mask)
        BY <2>1, <2>3, <3>1
    <3> QED
        BY <1>1, <1>3, <2>1, <2>4, <3>2 DEF Entered, ListsFor
  <2> QED
      BY <1>1, <1>3, <2>1, <2>2, <2>3, <2>4, <2>5 DEF Entered, Local, AsksFor
<1> QED
    BY <1>2, <1>3

-----------------------------------------------------------------------------
(* The inductive invariant.                                                *)

\* A step that touches one handle.
LEMMA LocalKeeps ==
    ASSUME IInv, NEW h \in Handles, Local(h), UNCHANGED <<kind, env>>, events' \in Seq(Report)
    PROVE  IInv'
<1>0. Typed /\ Owned /\ NoDangling /\ Asked /\ Listed /\ NoEh \notin Handlers /\ NoFd \notin Handles
    BY ReactorAssumption DEF IInv, NoFd
<1>1. hd' = hd /\ fds' = fds /\ kind' = kind
    BY DEF env
<1>2. Typed' /\ Owned'
    BY <1>0, <1>1 DEF Typed, Owned, Local
<1>3. NoDangling'
  <2> SUFFICES ASSUME NEW x \in Handles, rep'[x].eh # NoEh
               PROVE  hd[rep'[x].eh] = x /\ x \in fds
      BY <1>1 DEF NoDangling
  <2>1. CASE x = h
    <3>1. rep'[h].eh \in Handlers
        BY <2>1 DEF Local, Entry
    <3>2. hd[rep'[h].eh] = h
        BY <2>1 DEF Local
    <3> QED
        BY <1>0, <2>1, <3>1, <3>2 DEF Owned
  <2>2. CASE x # h
      BY <1>0, <2>2 DEF Local, NoDangling
  <2> QED
      BY <2>1, <2>2
<1>4. Asked'
  <2> SUFFICES ASSUME kind = "epoll", NEW x \in Handles
               PROVE  AsksFor(x)'
      BY <1>1 DEF Asked
  <2>1. CASE x = h
      BY <2>1 DEF Local, AsksFor
  <2>2. CASE x # h
    <3>1. rep'[x] = rep[x] /\ epoll'[x] = epoll[x]
        BY <2>2 DEF Local
    <3> QED
        BY <1>0, <3>1 DEF AsksFor, Asked
  <2> QED
      BY <2>1, <2>2
<1>5. Listed'
  <2> SUFFICES ASSUME kind = "select"
               PROVE  Good(lists') /\ \A x \in Handles : ListsFor(x)'
      BY <1>1 DEF Listed
  <2>1. Good(lists') /\ ListsFor(h)'
      BY DEF Local, ListsFor
  <2>2. ASSUME NEW x \in Handles, x # h
        PROVE  ListsFor(x)'
    <3>1. rep'[x] = rep[x] /\ On(lists', x) = On(lists, x)
        BY <2>2 DEF Local
    <3>2. ListsFor(x)
        BY <1>0 DEF Listed
    <3> QED
        BY <3>1, <3>2 DEF ListsFor
  <2> QED
      BY <2>1, <2>2
<1> QED
    BY <1>2, <1>3, <1>4, <1>5 DEF IInv

\* A step that touches none.
LEMMA SameKeeps ==
    ASSUME IInv, Same, UNCHANGED <<kind, env>>, events' \in Seq(Report)
    PROVE  IInv'
<1>1. /\ hd' = hd /\ fds' = fds /\ kind' = kind /\ rep' = rep /\ epoll' = epoll
      /\ lists' = lists
    BY DEF env, Same
<1>2. Typed' /\ Owned'
    BY <1>1 DEF IInv, Typed, Owned
<1>3. NoDangling'
    BY <1>1 DEF IInv, NoDangling
<1>4. Asked'
    BY <1>1 DEF IInv, Asked, AsksFor
<1>5. Listed'
    BY <1>1 DEF IInv, Listed, ListsFor
<1> QED
    BY <1>2, <1>3, <1>4, <1>5 DEF IInv

\* remove_handler_i calls handle_close or clears the mask.
LEMMA RemoveLocal ==
    ASSUME IInv, NEW h, kind' = kind, NEW m, NEW dontCall \in BOOLEAN, NEW refused \in BOOLEAN,
           NEW st, remove_handler_i(h, m, dontCall, refused, st)
    PROVE  Same \/ (h \in Handles /\ Local(h))
<1>1. Same \/ ClearMask(h, m, refused)
    BY DEF remove_handler_i, Same, kernel
<1> QED
    BY <1>1, ClearLocal

\* What epoll_wait may report are reports.
LEMMA ReportsTyped ==
    ASSUME NEW es, NEW s \in Reports(es)
    PROVE  s \in Seq(Report)
<1> DEFINE one == [h : {x \in Handles : es[x] # Absent},
                   ev : (SUBSET {"IN", "OUT", "PRI", "HUP"}) \ {{}}]
           may == {r \in one : r.ev \subseteq es[r.h] \cup {"HUP"}}
<1>1. Cardinality(Handles) \in Nat
    BY ReactorAssumption, FS_CardinalityType
<1>2. may \subseteq Report
    BY DEF Report
<1>3. PICK n \in 0 .. Cardinality(Handles) : s \in [1 .. n -> may]
    BY DEF Reports
<1> HIDE DEF may
<1>4. n \in Nat /\ s \in [1 .. n -> Report]
    BY <1>1, <1>2, <1>3
<1> QED
    BY <1>4

\* What is left over after one bit.
LEMMA NextEvents ==
    ASSUME Typed, events # <<>>, NEW bit
    PROVE  /\ next_events(bit) \in Seq(Report)
           /\ next_events(bit) = Tail(events) \/ Len(next_events(bit)) = Len(events)
<1> DEFINE less == [events EXCEPT ![1].ev = @ \ {bit}]
<1>1. /\ events \in Seq(Report) /\ Len(events) \in Nat \ {0} /\ events[1] \in Report
      /\ Tail(events) \in Seq(Report)
    BY DEF Typed
<1>2. events[1].ev \ {bit} \in SUBSET {"IN", "OUT", "PRI", "HUP"} /\ events[1].h \in Handles
    BY <1>1 DEF Report
<1>3. [events[1] EXCEPT !.ev = @ \ {bit}] \in Report
    BY <1>1, <1>2 DEF Report
<1>4. less = [events EXCEPT ![1] = [events[1] EXCEPT !.ev = @ \ {bit}]]
    BY <1>1
<1>5. less \in Seq(Report) /\ Len(less) = Len(events)
    BY <1>1, <1>3, <1>4
<1> HIDE DEF less
<1>6. next_events(bit) \in {Tail(events), less}
    BY DEF next_events, less
<1> QED
    BY <1>1, <1>5, <1>6

\* The invariant holds initially.
LEMMA IInvInit ==
    ASSUME Init
    PROVE  IInv
<1>1. Typed
  <2>1. [eh |-> NoEh, mask |-> {}, suspended |-> FALSE] \in Entry
      BY DEF Entry
  <2>2. epoll \in [Handles -> Asks]
      BY DEF Init, EmptyEpoll, Asks
  <2> QED
      BY <2>1, <2>2 DEF Init, Typed
<1>2. Owned
    BY DEF Init, Owned
<1>3. NoDangling /\ Asked
    BY DEF Init, NoDangling, Asked, AsksFor, EmptyEpoll
<1>4. Listed
  <2>1. Good(lists) /\ \A h \in Handles : On(lists, h) = {}
      BY EmptyGood DEF Init, On
  <2> QED
      BY <2>1 DEF Init, Listed, ListsFor
<1> QED
    BY <1>1, <1>2, <1>3, <1>4 DEF IInv

\* A new descriptor is free: no handler is bound to it, and the new owner was
\* bound nowhere.
LEMMA NewHandlerKeeps ==
    ASSUME IInv, NEW e \in Handlers, NewHandler(e)
    PROVE  IInv'
<1> DEFINE free == Handles \ fds
           h == CHOOSE x \in free : \A y \in free : x <= y
<1>0. /\ Typed /\ Owned /\ NoDangling /\ Asked /\ Listed
      /\ NoEh \notin Handlers /\ Handles \subseteq Nat
    BY ReactorAssumption DEF IInv
<1>1. /\ hd[e] = NoFd /\ fds # Handles
      /\ hd' = [hd EXCEPT ![e] = h] /\ fds' = fds \cup {h}
      /\ rep' = rep /\ epoll' = epoll /\ lists' = lists /\ kind' = kind /\ events' = events
    BY DEF NewHandler, MayCall, kernel, loop
<1>2. free \in SUBSET Nat /\ free # {}
    BY <1>0, <1>1 DEF Typed
<1>3. \E x \in free : \A y \in free : x <= y
    BY <1>2, LeastNatural
<1>4. h \in free
    BY <1>3
<1> HIDE DEF h
<1>a. h \in Handles /\ h \notin fds /\ h # NoFd
    BY <1>0, <1>4 DEF NoFd
<1>5. Typed'
    BY <1>0, <1>1, <1>a DEF Typed
<1>6. Owned'
    BY <1>0, <1>1, <1>a DEF Typed, Owned
<1>7. NoDangling'
  <2> SUFFICES ASSUME NEW x \in Handles, rep[x].eh # NoEh
               PROVE  hd'[rep[x].eh] = x /\ x \in fds'
      BY <1>1 DEF NoDangling
  <2>1. rep[x].eh \in Handlers
      BY <1>0 DEF Typed, Entry
  <2>2. hd[rep[x].eh] = x /\ x \in fds /\ x # NoFd
      BY <1>0 DEF NoDangling, NoFd
  <2> QED
      BY <1>0, <1>1, <2>1, <2>2 DEF Typed
<1>8. Asked' /\ Listed'
    BY <1>0, <1>1 DEF Asked, AsksFor, Listed, ListsFor
<1> QED
    BY <1>5, <1>6, <1>7, <1>8 DEF IInv

\* svc_handler::shutdown takes the handle out before it closes it: nothing is
\* left that names the handler.
LEMMA DestroyKeeps ==
    ASSUME IInv, NEW e \in Handlers, Destroy(e)
    PROVE  IInv'
<1>0. Typed /\ Owned /\ NoDangling /\ Asked /\ Listed /\ NoEh \notin Handlers
    BY ReactorAssumption DEF IInv
<1>h. PICK h : h = hd[e]
    OBVIOUS
<1>1. /\ h # NoFd /\ ClearMask(h, AllMask, FALSE)
      /\ fds' = fds \ {h} /\ hd' = [hd EXCEPT ![e] = NoFd]
      /\ kind' = kind /\ events' = events
    BY <1>h DEF Destroy, MayCall, loop
<1>2. h \in Handles /\ h \in fds
    BY <1>0, <1>h, <1>1 DEF Typed, Owned
<1>3. (Same \/ Local(h)) /\ rep'[h].eh = NoEh
  <2>1. PICK refused \in BOOLEAN : refused = FALSE
      OBVIOUS
  <2>2. ClearMask(h, AllMask, refused) /\ kind' = kind
      BY <1>1, <2>1
  <2> QED
      BY <1>2, <2>2, ClearLocal
<1>4. /\ rep' \in [Handles -> Entry] /\ epoll' \in [Handles -> Asks]
      /\ \A x \in Handles : x # h => rep'[x] = rep[x] /\ epoll'[x] = epoll[x]
      /\ kind = "epoll" => AsksFor(h)'
      /\ kind = "select" => /\ Good(lists') /\ ListsFor(h)'
                            /\ \A x \in Handles : x # h => On(lists', x) = On(lists, x)
  <2>1. CASE Same
    <3>1. kind = "select" => Good(lists') /\ ListsFor(h)'
        BY <1>0, <1>2, <2>1 DEF Same, Listed, ListsFor
    <3> QED
        BY <1>0, <1>2, <2>1, <3>1 DEF Same, Typed, Asked, AsksFor
  <2>2. CASE Local(h)
      BY <2>2 DEF Local, AsksFor, ListsFor
  <2> QED
      BY <1>3, <2>1, <2>2
<1>5. Typed'
    BY <1>0, <1>1, <1>4 DEF Typed
<1>6. Owned'
    BY <1>0, <1>h, <1>1 DEF Typed, Owned
<1>7. NoDangling'
  <2> SUFFICES ASSUME NEW x \in Handles, rep'[x].eh # NoEh
               PROVE  hd'[rep'[x].eh] = x /\ x \in fds'
      BY DEF NoDangling
  <2>1. x # h /\ rep'[x] = rep[x]
      BY <1>3, <1>4
  <2>2. hd[rep[x].eh] = x /\ x \in fds /\ rep[x].eh \in Handlers
      BY <1>0, <2>1 DEF NoDangling, Typed, Entry
  <2> QED
      BY <1>0, <1>h, <1>1, <2>1, <2>2 DEF Typed
<1>8. Asked'
  <2> SUFFICES ASSUME kind = "epoll", NEW x \in Handles
               PROVE  AsksFor(x)'
      BY <1>1 DEF Asked
  <2>1. CASE x = h
      BY <1>4, <2>1 DEF AsksFor
  <2>2. CASE x # h
    <3>1. rep'[x] = rep[x] /\ epoll'[x] = epoll[x]
        BY <1>4, <2>2
    <3> QED
        BY <1>0, <3>1 DEF AsksFor, Asked
  <2> QED
      BY <2>1, <2>2
<1>9. Listed'
  <2> SUFFICES ASSUME kind = "select", NEW x \in Handles
               PROVE  ListsFor(x)'
      BY <1>1, <1>4 DEF Listed
  <2>1. CASE x = h
      BY <1>4, <2>1 DEF ListsFor
  <2>2. CASE x # h
    <3>1. rep'[x] = rep[x] /\ On(lists', x) = On(lists, x)
        BY <1>4, <2>2
    <3> QED
        BY <1>0, <3>1 DEF ListsFor, Listed
  <2> QED
      BY <2>1, <2>2
<1> QED
    BY <1>5, <1>6, <1>7, <1>8, <1>9 DEF IInv

\* close unbinds everything.
LEMMA CloseKeeps ==
    ASSUME IInv, Close
    PROVE  IInv'
<1>0. Typed /\ Owned
    BY DEF IInv
<1>1. /\ rep' = unbind_all(rep) /\ epoll' = EmptyEpoll /\ lists' = EmptyLists /\ kind' = kind
      /\ events' = events /\ hd' = hd /\ fds' = fds
    BY DEF Close, env
<1>2. rep' \in [Handles -> Entry] /\ \A h \in Handles : rep'[h].eh = NoEh
  <2>1. ASSUME NEW h \in Handles
        PROVE  /\ [rep[h] EXCEPT !.eh = NoEh, !.mask = {}] \in Entry
               /\ [rep[h] EXCEPT !.eh = NoEh, !.mask = {}].eh = NoEh
      BY <1>0, <2>1 DEF Typed, Entry
  <2> QED
      BY <1>1, <2>1 DEF unbind_all
<1>3. epoll' \in [Handles -> Asks] /\ \A h \in Handles : epoll'[h] = Absent
    BY <1>1 DEF EmptyEpoll, Asks
<1>4. Typed' /\ Owned'
    BY <1>0, <1>1, <1>2, <1>3 DEF Typed, Owned
<1>5. NoDangling' /\ Asked'
    BY <1>2, <1>3 DEF NoDangling, Asked, AsksFor
<1>6. Listed'
  <2>1. Good(lists') /\ \A h \in Handles : On(lists', h) = {}
      BY <1>1, EmptyGood DEF On
  <2> QED
      BY <1>2, <2>1 DEF Listed, ListsFor
<1> QED
    BY <1>4, <1>5, <1>6 DEF IInv

\* Every step keeps the invariant.
LEMMA IInvStep ==
    ASSUME IInv, [Next]_vars
    PROVE  IInv'
<1>0. Typed /\ Owned /\ events \in Seq(Report)
    BY DEF IInv, Typed
<1>m. ASSUME NEW e \in Handlers, NEW m \in Masks[e]
      PROVE  m \in SUBSET AllMask
    BY <1>m, ReactorAssumption
<1>h. ASSUME NEW e \in Handlers, hd[e] # NoFd
      PROVE  hd[e] \in Handles /\ hd[e] \in fds
    BY <1>0, <1>h DEF Typed, Owned
<1>1. ASSUME NEW e \in Handlers, NewHandler(e)
      PROVE  IInv'
    BY <1>1, NewHandlerKeeps
<1>2. ASSUME NEW e \in Handlers, NEW m \in Masks[e], NEW refused \in BOOLEAN,
             register_handler(e, m, refused)
      PROVE  IInv'
  <2>1. PICK h : h = hd[e]
      OBVIOUS
  <2>2. /\ register_handler_i(h, e, m, refused) /\ h # NoFd /\ m # {}
        /\ kind' = kind /\ UNCHANGED <<kind, env>> /\ events' = events
      BY <1>2, <2>1 DEF register_handler, MayCall, loop
  <2>3. h \in Handles /\ h \in fds /\ m \in SUBSET AllMask
      BY <1>h, <1>m, <2>1, <2>2
  <2>4. Local(h)
      BY <2>1, <2>2, <2>3, RegisterLocal
  <2> QED
      BY <1>0, <2>2, <2>3, <2>4, LocalKeeps
<1>3. ASSUME NEW e \in Handlers, NEW m \in Masks[e], NEW d \in BOOLEAN, NEW refused \in BOOLEAN,
             remove_handler(e, m, d, refused)
      PROVE  IInv'
  <2>1. PICK h : h = hd[e]
      OBVIOUS
  <2>2. /\ remove_handler_i(h, m, d, refused, stack)
        /\ kind' = kind /\ UNCHANGED <<kind, env>> /\ events' = events
      BY <1>3, <2>1 DEF remove_handler, MayCall, loop
  <2>3. Same \/ (h \in Handles /\ Local(h))
      BY <2>2, RemoveLocal
  <2> QED
      BY <1>0, <2>2, <2>3, LocalKeeps, SameKeeps
<1>4. ASSUME NEW e \in Handlers, suspend_handler(e)
      PROVE  IInv'
  <2>1. PICK h : h = hd[e]
      OBVIOUS
  <2>2. /\ suspend_handler_i(h) /\ h # NoFd
        /\ kind' = kind /\ UNCHANGED <<kind, env>> /\ events' = events
      BY <1>4, <2>1 DEF suspend_handler, MayCall, loop
  <2>3. h \in Handles
      BY <1>h, <2>1, <2>2
  <2>4. Same \/ Local(h)
      BY <2>2, <2>3, SuspendLocal
  <2> QED
      BY <1>0, <2>2, <2>3, <2>4, LocalKeeps, SameKeeps
<1>5. ASSUME NEW e \in Handlers, NEW refused \in BOOLEAN, resume_handler(e, refused)
      PROVE  IInv'
  <2>1. PICK h : h = hd[e]
      OBVIOUS
  <2>2. /\ resume_handler_i(h, refused) /\ h # NoFd
        /\ kind' = kind /\ UNCHANGED <<kind, env>> /\ events' = events
      BY <1>5, <2>1 DEF resume_handler, MayCall, loop
  <2>3. h \in Handles
      BY <1>h, <2>1, <2>2
  <2>4. Same \/ Local(h)
      BY <2>2, <2>3, ResumeLocal
  <2> QED
      BY <1>0, <2>2, <2>3, <2>4, LocalKeeps, SameKeeps
<1>6. ASSUME NEW e \in Handlers, Destroy(e)
      PROVE  IInv'
    BY <1>6, DestroyKeeps
<1>7. CASE Poll
  <2>1. Same /\ UNCHANGED <<kind, env>>
      BY <1>7 DEF Poll, Same, kernel, env
  <2>2. events' = events \/ events' \in Reports(epoll)
      BY <1>7 DEF Poll, epoll_poll_events
  <2>3. events' \in Seq(Report)
      BY <1>0, <2>2, ReportsTyped
  <2> QED
      BY <2>1, <2>3, SameKeeps
<1>8. CASE TimersDone \/ select_next_list \/ handle_events_done
  <2>1. Same /\ UNCHANGED <<kind, env>> /\ events' = events
      BY <1>8 DEF TimersDone, select_next_list, handle_events_done, Same, kernel, env
  <2> QED
      BY <1>0, <2>1, SameKeeps
<1>9. CASE select_dispatch
  <2>1. Same /\ UNCHANGED <<kind, env>> /\ events' = events
      BY <1>9 DEF select_dispatch, Upcall, Same, kernel, env
  <2> QED
      BY <1>0, <2>1, SameKeeps
<1>10. CASE epoll_dispatch
  <2>1. /\ events # <<>> /\ UNCHANGED <<kind, env>> /\ kind' = kind
        /\ \E bit : events' = next_events(bit)
        /\ \/ Same
           \/ remove_handler_i(events[1].h, AllMask, FALSE, FALSE, stack)
      BY <1>10 DEF epoll_dispatch, Upcall, Same, kernel, env
  <2>2. events' \in Seq(Report)
      BY <1>0, <2>1, NextEvents
  <2>3. CASE Same
      BY <2>1, <2>2, <2>3, SameKeeps
  <2>4. CASE remove_handler_i(events[1].h, AllMask, FALSE, FALSE, stack)
    <3>1. PICK h : h = events[1].h
        OBVIOUS
    <3>2. PICK no \in BOOLEAN : no = FALSE
        OBVIOUS
    <3>3. remove_handler_i(h, AllMask, no, no, stack)
        BY <2>4, <3>1, <3>2
    <3>4. Same \/ (h \in Handles /\ Local(h))
        BY <2>1, <3>3, RemoveLocal
    <3> QED
        BY <2>1, <2>2, <3>4, LocalKeeps, SameKeeps
  <2> QED
      BY <2>1, <2>3, <2>4
<1>11. ASSUME NEW call, Returns(call)
       PROVE  UNCHANGED <<kind, env>> /\ kind' = kind /\ events' = events
    BY <1>11 DEF Returns, loop
<1>a. ASSUME NEW refused \in BOOLEAN, CloseReturns(refused)
      PROVE  IInv'
  <2>1. PICK h, m : h = Top.h /\ m = Top.mask
      OBVIOUS
  <2>2. UNCHANGED <<kind, env>> /\ kind' = kind /\ events' = events
      BY <1>11, <1>a DEF CloseReturns
  <2>3. ClearMask(h, m, refused)
      BY <1>a, <2>1 DEF CloseReturns
  <2>4. Same \/ (h \in Handles /\ Local(h))
      BY <2>2, <2>3, ClearLocal
  <2> QED
      BY <1>0, <2>2, <2>4, LocalKeeps, SameKeeps
<1>b. ASSUME NEW failed \in BOOLEAN, UpcallReturns(failed)
      PROVE  IInv'
  <2>1. PICK h, m, st : /\ h = IF kind = "select" THEN lists.handle[Top.node] ELSE Top.h
                        /\ m = Top.mask /\ st = Pop
      OBVIOUS
  <2>2. UNCHANGED <<kind, env>> /\ kind' = kind /\ events' = events
      BY <1>11, <1>b DEF UpcallReturns
  <2>3. Same \/ remove_handler_i(h, m, FALSE, FALSE, st)
      BY <1>b, <2>1 DEF UpcallReturns, Same, kernel
  <2>4. CASE Same
      BY <1>0, <2>2, <2>4, SameKeeps
  <2>5. CASE remove_handler_i(h, m, FALSE, FALSE, st)
    <3>1. PICK no \in BOOLEAN : no = FALSE
        OBVIOUS
    <3>2. remove_handler_i(h, m, no, no, st)
        BY <2>5, <3>1
    <3>3. Same \/ (h \in Handles /\ Local(h))
        BY <2>2, <3>2, RemoveLocal
    <3> QED
        BY <1>0, <2>2, <3>3, LocalKeeps, SameKeeps
  <2> QED
      BY <2>3, <2>4, <2>5
<1>12. CASE Close
    BY <1>12, CloseKeeps
<1>13. CASE UNCHANGED vars
  <2>1. Same /\ UNCHANGED <<kind, env>> /\ events' = events
      BY <1>13 DEF vars, kernel, loop, Same
  <2> QED
      BY <1>0, <2>1, SameKeeps
<1>c. Refusals \subseteq BOOLEAN
    BY DEF Refusals
<1>14. CASE Client
    BY <1>1, <1>2, <1>3, <1>4, <1>5, <1>6, <1>c, <1>14 DEF Client
<1>15. CASE Leader
    BY <1>7, <1>8, <1>9, <1>10, <1>a, <1>b, <1>12, <1>c, <1>15 DEF Leader
<1> QED
    BY <1>13, <1>14, <1>15 DEF Next

-----------------------------------------------------------------------------
(* The theorems.                                                           *)

\* The inductive invariant holds in every reachable state.
THEOREM ReactorInvariant == Spec => []IInv
  BY IInvInit, IInvStep, PTL DEF Spec

\* The handler that would be called for a handle is alive and owns the handle
\* (both reactors): no order of registrations, removals, closes, refusals and
\* reused descriptors leaves a deleted handler in the repository.
THEOREM NothingDangles == Spec => []NoDangling
<1>1. IInv => NoDangling
    BY DEF IInv
<1> QED
    BY <1>1, ReactorInvariant, PTL

\* The repository and what the kernel is asked agree, in the epoll set and in
\* the lists of the select reactor: register_handler_i, remove_handler_i,
\* suspend_handler_i and resume_handler_i keep them in step, whatever the
\* kernel refuses.
THEOREM KernelAgrees == Spec => []Agreement
<1>1. IInv => Agreement
  <2> SUFFICES ASSUME IInv, NEW h \in Handles
               PROVE  /\ rep[h].eh = NoEh => Watched(h) = Absent
                      /\ rep[h].eh # NoEh /\ ~rep[h].suspended
                            => Watched(h) = Wanted(rep[h].mask)
      BY DEF Agreement
  <2>1. CASE kind = "epoll"
    <3>1. AsksFor(h) /\ Watched(h) = epoll[h]
          /\ Wanted(rep[h].mask) = reactor_mask_to_epoll_event(rep[h].mask)
        BY <2>1 DEF IInv, Asked, Watched, Wanted
    <3> QED
        BY <3>1 DEF AsksFor
  <2>2. CASE kind = "select"
    <3>1. /\ Watched(h) = IF On(lists, h) = {} THEN Absent ELSE On(lists, h)
          /\ Wanted(rep[h].mask) = ListsOf(rep[h].mask)
        BY <2>2 DEF Watched, Wanted, On
    <3>2. ListsFor(h) /\ rep[h].mask \in SUBSET AllMask
        BY <2>2, EntryFields DEF IInv, Listed
    <3>3. rep[h].mask # {} => ListsOf(rep[h].mask) # {}
        BY <3>2 DEF AllMask, ListsOf
    <3> QED
        BY <3>1, <3>2, <3>3 DEF ListsFor
  <2> QED
      BY <2>1, <2>2 DEF IInv, Typed
<1> QED
    BY <1>1, ReactorInvariant, PTL

\* What one epoll_wait reported is never thrown away: poll_events waits again
\* only when nothing is left, and dispatch_io_events takes one bit or one
\* handle at a time.
THEOREM LeftoversAreKept == Spec => LeftoversKept
<1> DEFINE Kept == events # <<>> => \/ events' \in {events, Tail(events)}
                                    \/ at = "io" /\ Len(events') = Len(events)
<1>1. ASSUME IInv, [Next]_vars
      PROVE  Kept \/ UNCHANGED vars
  <2>1. CASE Client
    <3>1. events' = events
        BY <2>1 DEF Client, NewHandler, register_handler, remove_handler, suspend_handler,
                    resume_handler, Destroy, MayCall, loop
    <3> QED
        BY <3>1
  <2>2. CASE Poll
      BY <2>2 DEF Poll, epoll_poll_events
  <2>3. CASE epoll_dispatch
    <3>1. PICK bit : events' = next_events(bit)
        BY <2>3 DEF epoll_dispatch
    <3>2. at = "io" /\ Typed
        BY <1>1, <2>3 DEF epoll_dispatch, Inside, IInv
    <3> QED
        BY <3>1, <3>2, NextEvents
  <2>4. CASE TimersDone \/ select_dispatch \/ select_next_list \/ handle_events_done \/ Close
    <3>1. events' = events
        BY <2>4 DEF TimersDone, select_dispatch, select_next_list, handle_events_done, Close
    <3> QED
        BY <3>1
  <2>5. ASSUME \/ \E refused \in Refusals : CloseReturns(refused)
               \/ \E failed \in BOOLEAN : UpcallReturns(failed)
        PROVE  Kept
    <3>1. events' = events
        BY <2>5 DEF CloseReturns, UpcallReturns, Returns, loop
    <3> QED
        BY <3>1
  <2> QED
      BY <1>1, <2>1, <2>2, <2>3, <2>4, <2>5 DEF Next, Leader
<1> QED
    BY <1>1, ReactorInvariant, PTL DEF Spec, LeftoversKept
=============================================================================

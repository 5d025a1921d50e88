----------------------------- MODULE DataLemmas -----------------------------
(***************************************************************************)
(* Facts about the data the components keep: sets of numbers, sequences    *)
(* without repetitions, and sums over finite sets.                         *)
(*                                                                         *)
(* Induction is stated with sets of naturals, so that no operator has to   *)
(* be passed to a theorem.                                                 *)
(***************************************************************************)
EXTENDS Integers, SequencesExt, FiniteSetTheorems, SequenceTheorems,
        WellFoundedInduction, TLAPS

-----------------------------------------------------------------------------
(* Numbers.                                                                *)

\* A set of naturals that is not empty has a least element.
LEMMA LeastNatural ==
    ASSUME NEW T \in SUBSET Nat, T # {}
    PROVE  \E n \in T : \A m \in T : n <= m
<1>1. PICK n \in T : \A m \in T : ~(<<m, n>> \in OpToRel(<, Nat))
  BY NatLessThanWellFounded, WFMin
<1>2. ASSUME NEW m \in T PROVE n <= m
  <2>1. <<m, n>> \in Nat \X Nat /\ <<m, n>>[1] = m /\ <<m, n>>[2] = n /\ n \in Nat /\ m \in Nat
    OBVIOUS
  <2>2. ~(m < n)
    BY <2>1, <1>1 DEF OpToRel
  <2> QED BY <2>1, <2>2
<1> QED BY <1>2

\* Induction over the naturals, for a set.
LEMMA SetInduction ==
    ASSUME NEW Q \in SUBSET Nat, 0 \in Q, \A n \in Q : n + 1 \in Q
    PROVE  Q = Nat
<1> DEFINE T == Nat \ Q
<1>1. SUFFICES ASSUME T # {} PROVE FALSE
  OBVIOUS
<1>2. PICK n \in T : \A m \in T : n <= m
  BY <1>1, LeastNatural
<1>3. n # 0 /\ n - 1 \in Nat /\ n - 1 \notin T
  BY <1>2
<1> QED BY <1>2, <1>3

\* Min of naturals.
LEMMA MinIsLeast ==
    ASSUME NEW T \in SUBSET Nat, T # {}
    PROVE  Min(T) \in T /\ \A m \in T : Min(T) <= m
BY LeastNatural DEF Min

\* Max of two numbers.
LEMMA MaxOfTwo ==
    ASSUME NEW a \in Int, NEW b \in Int
    PROVE  Max({a, b}) = IF a >= b THEN a ELSE b
<1>1. \E x \in {a, b} : \A y \in {a, b} : x >= y
  OBVIOUS
<1>2. Max({a, b}) \in {a, b} /\ \A y \in {a, b} : Max({a, b}) >= y
  BY <1>1 DEF Max
<1> QED BY <1>2

-----------------------------------------------------------------------------
(* Sequences.                                                              *)

NoDup(q) == \A i, j \in DOMAIN q : q[i] = q[j] => i = j

\* The beginning and the end of a sequence.
LEMMA Cut ==
    ASSUME NEW K, NEW q \in Seq(K), NEW k \in 1 .. Len(q) + 1
    PROVE  /\ SubSeq(q, 1, k - 1) \in Seq(K) /\ Len(SubSeq(q, 1, k - 1)) = k - 1
           /\ \A i \in 1 .. k - 1 : SubSeq(q, 1, k - 1)[i] = q[i]
           /\ SubSeq(q, k, Len(q)) \in Seq(K) /\ Len(SubSeq(q, k, Len(q))) = Len(q) + 1 - k
           /\ \A i \in 1 .. Len(q) + 1 - k : SubSeq(q, k, Len(q))[i] = q[i + k - 1]
<1>1. Len(q) \in Nat /\ k \in Int /\ k - 1 \in Int /\ Len(q) \in Int /\ \A i \in 1 .. Len(q) : q[i] \in K
  OBVIOUS
<1>2. /\ SubSeq(q, 1, k - 1) \in Seq(K)
      /\ Len(SubSeq(q, 1, k - 1)) = IF 1 <= k - 1 THEN k - 1 - 1 + 1 ELSE 0
      /\ \A i \in 1 .. k - 1 - 1 + 1 : SubSeq(q, 1, k - 1)[i] = q[1 + i - 1]
  <2>1. \A i \in 1 .. k - 1 : q[i] \in K
    BY <1>1
  <2> QED BY <1>1, <2>1, SubSeqProperties
<1>3. /\ SubSeq(q, k, Len(q)) \in Seq(K)
      /\ Len(SubSeq(q, k, Len(q))) = IF k <= Len(q) THEN Len(q) - k + 1 ELSE 0
      /\ \A i \in 1 .. Len(q) - k + 1 : SubSeq(q, k, Len(q))[i] = q[k + i - 1]
  <2>1. \A i \in k .. Len(q) : q[i] \in K
    BY <1>1
  <2> QED BY <1>1, <2>1, SubSeqProperties
<1>4. ASSUME NEW i \in 1 .. k - 1 PROVE SubSeq(q, 1, k - 1)[i] = q[i]
  <2>1. i \in 1 .. k - 1 - 1 + 1 /\ 1 + i - 1 = i
    BY <1>1
  <2> QED BY <1>2, <2>1
<1>5. ASSUME NEW i \in 1 .. Len(q) + 1 - k PROVE SubSeq(q, k, Len(q))[i] = q[i + k - 1]
  <2>1. i \in 1 .. Len(q) - k + 1 /\ k + i - 1 = i + k - 1
    BY <1>1
  <2> QED BY <1>3, <2>1
<1>6. /\ (IF 1 <= k - 1 THEN k - 1 - 1 + 1 ELSE 0) = k - 1
      /\ (IF k <= Len(q) THEN Len(q) - k + 1 ELSE 0) = Len(q) + 1 - k
  BY <1>1
<1> QED BY <1>2, <1>3, <1>4, <1>5, <1>6

\* Two sequences, one behind the other.
LEMMA Joined ==
    ASSUME NEW K, NEW a \in Seq(K), NEW b \in Seq(K)
    PROVE  /\ a \o b \in Seq(K) /\ Len(a \o b) = Len(a) + Len(b)
           /\ DOMAIN (a \o b) = 1 .. Len(a) + Len(b)
           /\ \A i \in 1 .. Len(a) : (a \o b)[i] = a[i]
           /\ \A i \in 1 .. Len(b) : (a \o b)[i + Len(a)] = b[i]
<1>1. /\ a \o b \in Seq(K) /\ Len(a \o b) = Len(a) + Len(b) /\ Len(a) \in Nat /\ Len(b) \in Nat
      /\ \A i \in 1 .. Len(a) + Len(b) : (a \o b)[i] = IF i <= Len(a) THEN a[i] ELSE b[i - Len(a)]
  BY ConcatProperties
<1>2. ASSUME NEW i \in 1 .. Len(b) PROVE (a \o b)[i + Len(a)] = b[i]
  <2>1. i + Len(a) \in 1 .. Len(a) + Len(b) /\ ~(i + Len(a) <= Len(a)) /\ (i + Len(a)) - Len(a) = i
    BY <1>1
  <2> QED BY <1>1, <2>1
<1>3. ASSUME NEW i \in 1 .. Len(a) PROVE (a \o b)[i] = a[i]
  <2>1. i \in 1 .. Len(a) + Len(b) /\ i <= Len(a)
    BY <1>1
  <2> QED BY <1>1, <2>1
<1> QED BY <1>1, <1>2, <1>3

\* Such a sequence is as long as it has elements.
LEMMA OnceEach ==
    ASSUME NEW K, NEW q \in Seq(K), NoDup(q)
    PROVE  IsFiniteSet(ToSet(q)) /\ Cardinality(ToSet(q)) = Len(q)
<1>1. Len(q) \in Nat /\ DOMAIN q = 1 .. Len(q) /\ q \in [1 .. Len(q) -> ToSet(q)]
  BY DEF ToSet
<1>2. q \in Bijection(1 .. Len(q), ToSet(q))
  BY <1>1 DEF NoDup, ToSet, Bijection, Injection, Surjection, IsInjective
<1>3. IsFiniteSet(1 .. Len(q)) /\ Cardinality(1 .. Len(q)) = Len(q)
  BY <1>1, FS_Interval, SMTT(20)
<1>4. ExistsBijection(1 .. Len(q), ToSet(q))
  BY <1>2 DEF ExistsBijection
<1> QED BY <1>3, <1>4, FS_Bijection

\* A sequence without its k-th element.
LEMMA RemovedAt ==
    ASSUME NEW K, NEW q \in Seq(K), NEW k \in 1 .. Len(q)
    PROVE  /\ RemoveAt(q, k) \in Seq(K) /\ Len(RemoveAt(q, k)) = Len(q) - 1
           /\ DOMAIN RemoveAt(q, k) = 1 .. Len(q) - 1
           /\ \A i \in 1 .. Len(q) - 1 : RemoveAt(q, k)[i] = IF i < k THEN q[i] ELSE q[i + 1]
<1>0. DOMAIN q = 1 .. Len(q) /\ Len(q) \in Nat /\ k \in 1 .. Len(q) + 1 /\ k + 1 \in 1 .. Len(q) + 1
  OBVIOUS
<1> DEFINE a == SubSeq(q, 1, k - 1)
           b == SubSeq(q, k + 1, Len(q))
<1>1. a \in Seq(K) /\ Len(a) = k - 1 /\ \A i \in 1 .. k - 1 : a[i] = q[i]
  BY <1>0, Cut
<1>2. /\ b \in Seq(K) /\ Len(b) = Len(q) + 1 - (k + 1)
      /\ \A i \in 1 .. Len(q) + 1 - (k + 1) : b[i] = q[i + (k + 1) - 1]
  BY <1>0, Cut
<1>3. RemoveAt(q, k) = a \o b
  BY DEF RemoveAt
<1> HIDE DEF a, b
<1>4. /\ a \o b \in Seq(K) /\ Len(a \o b) = Len(a) + Len(b)
      /\ DOMAIN (a \o b) = 1 .. Len(a) + Len(b)
      /\ \A i \in 1 .. Len(a) : (a \o b)[i] = a[i]
      /\ \A i \in 1 .. Len(b) : (a \o b)[i + Len(a)] = b[i]
  <2>1. a \in Seq(K) /\ b \in Seq(K)
    BY <1>1, <1>2
  <2> QED BY <2>1, Joined
<1>5. Len(a) + Len(b) = Len(q) - 1
  <2>1. Len(a) = k - 1 /\ Len(b) = Len(q) + 1 - (k + 1) /\ k \in Int /\ Len(q) \in Int
    BY <1>0, <1>1, <1>2
  <2> QED BY <2>1
<1>6. ASSUME NEW i \in 1 .. Len(q) - 1 PROVE (a \o b)[i] = IF i < k THEN q[i] ELSE q[i + 1]
  <2>1. CASE i < k
    <3>1. i \in 1 .. Len(a) /\ i \in 1 .. k - 1
      BY <2>1, <1>0, <1>1
    <3> QED BY <2>1, <3>1, <1>1, <1>4
  <2>2. CASE ~(i < k)
    <3> DEFINE j == i - (k - 1)
    <3>1. /\ j \in 1 .. Len(b) /\ j + Len(a) = i /\ j \in 1 .. Len(q) + 1 - (k + 1)
          /\ j + (k + 1) - 1 = i + 1
      BY <2>2, <1>0, <1>1, <1>2
    <3> HIDE DEF j
    <3>2. (a \o b)[j + Len(a)] = b[j] /\ b[j] = q[j + (k + 1) - 1]
      BY <3>1, <1>2, <1>4
    <3> QED BY <2>2, <3>1, <3>2
  <2> QED BY <2>1, <2>2
<1> QED BY <1>3, <1>4, <1>5, <1>6

\* A sequence with e in the k-th place.
LEMMA InsertedAt ==
    ASSUME NEW K, NEW q \in Seq(K), NEW k \in 1 .. Len(q) + 1, NEW e \in K
    PROVE  /\ InsertAt(q, k, e) \in Seq(K) /\ Len(InsertAt(q, k, e)) = Len(q) + 1
           /\ DOMAIN InsertAt(q, k, e) = 1 .. Len(q) + 1
           /\ \A i \in 1 .. Len(q) + 1 :
                 InsertAt(q, k, e)[i] = IF i < k THEN q[i] ELSE IF i = k THEN e ELSE q[i - 1]
<1>0. DOMAIN q = 1 .. Len(q) /\ Len(q) \in Nat /\ k \in Int
  OBVIOUS
<1> DEFINE a == SubSeq(q, 1, k - 1)
           b == SubSeq(q, k, Len(q))
           u == <<e>>
           c == a \o u
<1>1. /\ a \in Seq(K) /\ Len(a) = k - 1 /\ \A i \in 1 .. k - 1 : a[i] = q[i]
      /\ b \in Seq(K) /\ Len(b) = Len(q) + 1 - k
      /\ \A i \in 1 .. Len(q) + 1 - k : b[i] = q[i + k - 1]
  BY Cut
<1>2. InsertAt(q, k, e) = c \o b
  BY DEF InsertAt
<1>3. u \in Seq(K) /\ Len(u) = 1 /\ u[1] = e
  OBVIOUS
<1> HIDE DEF a, b, u
<1>4. /\ c \in Seq(K) /\ Len(c) = Len(a) + Len(u)
      /\ \A i \in 1 .. Len(a) : c[i] = a[i]
      /\ \A i \in 1 .. Len(u) : c[i + Len(a)] = u[i]
  <2>1. a \in Seq(K) /\ u \in Seq(K)
    BY <1>1, <1>3
  <2> QED BY <2>1, Joined
<1>5. c \in Seq(K) /\ Len(c) = k /\ c[k] = e /\ \A i \in 1 .. k - 1 : c[i] = q[i]
  <2>1. 1 \in 1 .. Len(u) /\ 1 + Len(a) = k
    BY <1>0, <1>1, <1>3
  <2>2. c[1 + Len(a)] = u[1]
    BY <1>4, <2>1
  <2>3. Len(c) = k
    BY <1>0, <1>1, <1>3, <1>4
  <2> QED BY <1>1, <1>3, <1>4, <2>1, <2>2, <2>3
<1> HIDE DEF c
<1>6. /\ c \o b \in Seq(K) /\ Len(c \o b) = Len(c) + Len(b)
      /\ DOMAIN (c \o b) = 1 .. Len(c) + Len(b)
      /\ \A i \in 1 .. Len(c) : (c \o b)[i] = c[i]
      /\ \A i \in 1 .. Len(b) : (c \o b)[i + Len(c)] = b[i]
  <2>1. c \in Seq(K) /\ b \in Seq(K)
    BY <1>1, <1>5
  <2> QED BY <2>1, Joined
<1>7. Len(c) + Len(b) = Len(q) + 1
  BY <1>0, <1>1, <1>5
<1>8. ASSUME NEW i \in 1 .. Len(q) + 1
      PROVE  (c \o b)[i] = IF i < k THEN q[i] ELSE IF i = k THEN e ELSE q[i - 1]
  <2>1. CASE i < k
    <3>1. i \in 1 .. Len(c) /\ i \in 1 .. k - 1
      BY <2>1, <1>0, <1>5
    <3> QED BY <2>1, <3>1, <1>5, <1>6
  <2>2. CASE i = k
    <3>1. k \in 1 .. Len(c)
      BY <1>0, <1>5
    <3> QED BY <2>2, <3>1, <1>0, <1>5, <1>6
  <2>3. CASE i > k
    <3> DEFINE j == i - k
    <3>1. j \in 1 .. Len(b) /\ j + Len(c) = i /\ j \in 1 .. Len(q) + 1 - k /\ j + k - 1 = i - 1
      BY <2>3, <1>0, <1>1, <1>5
    <3> HIDE DEF j
    <3>2. (c \o b)[j + Len(c)] = b[j] /\ b[j] = q[j + k - 1]
      BY <3>1, <1>1, <1>6
    <3> QED BY <2>3, <3>1, <3>2, <1>0, SMTT(20)
  <2>4. i < k \/ i = k \/ i > k
    BY <1>0
  <2> QED BY <2>1, <2>2, <2>3, <2>4
<1> QED BY <1>2, <1>6, <1>7, <1>8

\* A sequence with one more element, at place k.
Grown(t, s, k, e) ==
    /\ DOMAIN t = 1 .. Len(s) + 1
    /\ \A i \in 1 .. Len(s) + 1 : t[i] = IF i < k THEN s[i] ELSE IF i = k THEN e ELSE s[i - 1]

LEMMA InsertedGrown ==
    ASSUME NEW K, NEW q \in Seq(K), NEW k \in 1 .. Len(q) + 1, NEW e \in K
    PROVE  /\ InsertAt(q, k, e) \in Seq(K) /\ Len(InsertAt(q, k, e)) = Len(q) + 1
           /\ Grown(InsertAt(q, k, e), q, k, e)
  BY InsertedAt DEF Grown

\* Where two elements of such a sequence come from.
Pairs(t, q, k, e) ==
    \A i, j \in DOMAIN t : i < j =>
       \/ \E a, b \in DOMAIN q : a < b /\ t[i] = q[a] /\ t[j] = q[b]
       \/ \E a \in DOMAIN q : a < k /\ t[i] = q[a] /\ t[j] = e
       \/ \E b \in DOMAIN q : ~(b < k) /\ t[i] = e /\ t[j] = q[b]

LEMMA GrownPairs ==
    ASSUME NEW K, NEW q \in Seq(K), NEW k \in 1 .. Len(q) + 1, NEW e \in K, NEW t, Grown(t, q, k, e)
    PROVE  ToSet(t) = ToSet(q) \cup {e} /\ Pairs(t, q, k, e)
<1>0. DOMAIN q = 1 .. Len(q) /\ Len(q) \in Nat
  OBVIOUS
<1>1. /\ DOMAIN t = 1 .. Len(q) + 1
      /\ \A i \in 1 .. Len(q) + 1 : t[i] = IF i < k THEN q[i] ELSE IF i = k THEN e ELSE q[i - 1]
  BY DEF Grown
<1>2. \A i \in 1 .. Len(q) + 1 : i < k => i \in DOMAIN q /\ t[i] = q[i]
  BY <1>0, <1>1
<1>3. \A i \in 1 .. Len(q) + 1 : i > k => i - 1 \in DOMAIN q /\ t[i] = q[i - 1] /\ ~(i - 1 < k)
  BY <1>0, <1>1
<1>4. t[k] = e /\ k \in 1 .. Len(q) + 1
  BY <1>1
<1>5. \A i \in DOMAIN q : \E j \in 1 .. Len(q) + 1 : t[j] = q[i]
  <2> SUFFICES ASSUME NEW i \in 1 .. Len(q) PROVE \E j \in 1 .. Len(q) + 1 : t[j] = q[i]
      BY <1>0
  <2>1. CASE i < k
      BY <1>0, <1>2, <2>1
  <2>2. CASE ~(i < k)
    <3>1. i + 1 \in 1 .. Len(q) + 1 /\ i + 1 > k /\ i + 1 - 1 = i
        BY <1>0, <2>2
    <3>2. t[i + 1] = q[i + 1 - 1]
        BY <1>3, <3>1
    <3> QED
        BY <3>1, <3>2
  <2> QED
      BY <2>1, <2>2
<1>6. \A i \in 1 .. Len(q) + 1 : t[i] = e \/ \E j \in DOMAIN q : t[i] = q[j]
  BY <1>2, <1>3, <1>4
<1>7. ToSet(t) = ToSet(q) \cup {e}
  <2>1. \A x : x \in ToSet(t) <=> \E i \in 1 .. Len(q) + 1 : x = t[i]
      BY <1>1, Zenon DEF ToSet
  <2>2. \A x : x \in ToSet(q) <=> \E i \in DOMAIN q : x = q[i]
      BY Zenon DEF ToSet
  <2>3. \A x : x \in ToSet(t) => x \in ToSet(q) \cup {e}
      BY <1>6, <2>1, <2>2
  <2>4. \A x : x \in ToSet(q) => x \in ToSet(t)
      BY <1>5, <2>1, <2>2
  <2>5. e \in ToSet(t)
      BY <1>4, <2>1
  <2> QED
      BY <2>3, <2>4, <2>5
<1>8. ASSUME NEW i \in 1 .. Len(q) + 1, NEW j \in 1 .. Len(q) + 1, i < j
      PROVE  \/ \E a, b \in DOMAIN q : a < b /\ t[i] = q[a] /\ t[j] = q[b]
             \/ \E a \in DOMAIN q : a < k /\ t[i] = q[a] /\ t[j] = e
             \/ \E b \in DOMAIN q : ~(b < k) /\ t[i] = e /\ t[j] = q[b]
  <2>1. CASE j < k
    <3>1. i < k
        BY <1>8, <2>1
    <3> QED
        BY <1>2, <1>8, <2>1, <3>1
  <2>2. CASE j = k
      BY <1>2, <1>4, <1>8, <2>2
  <2>3. CASE i = k
      BY <1>3, <1>4, <1>8, <2>3
  <2>4. CASE i < k /\ k < j
    <3>1. i < j - 1
        BY <1>0, <2>4
    <3> QED
        BY <1>2, <1>3, <2>4, <3>1
  <2>5. CASE k < i
    <3>1. i - 1 < j - 1 /\ k < j
        BY <1>0, <1>8, <2>5
    <3> QED
        BY <1>3, <2>5, <3>1
  <2> QED
      BY <1>8, <2>1, <2>2, <2>3, <2>4, <2>5
<1> QED
  BY <1>1, <1>7, <1>8 DEF Pairs

\* A sequence with one element less, the one at place k.
Shrunk(t, s, k) ==
    /\ DOMAIN t = 1 .. Len(s) - 1
    /\ \A i \in 1 .. Len(s) - 1 : t[i] = IF i < k THEN s[i] ELSE s[i + 1]

LEMMA RemovedShrunk ==
    ASSUME NEW K, NEW q \in Seq(K), NEW k \in 1 .. Len(q)
    PROVE  /\ RemoveAt(q, k) \in Seq(K) /\ Len(RemoveAt(q, k)) = Len(q) - 1
           /\ Shrunk(RemoveAt(q, k), q, k)
  BY RemovedAt DEF Shrunk

\* Where two elements of such a sequence come from.
Rest(t, q, k) ==
    /\ \A i, j \in DOMAIN t : i < j =>
          \E a, b \in DOMAIN q : a < b /\ a # k /\ b # k /\ t[i] = q[a] /\ t[j] = q[b]
    /\ \A i \in DOMAIN t : \E a \in DOMAIN q : a # k /\ t[i] = q[a]
    /\ \A a \in DOMAIN q : a # k => \E i \in DOMAIN t : t[i] = q[a]

LEMMA ShrunkRest ==
    ASSUME NEW K, NEW q \in Seq(K), NEW k \in 1 .. Len(q), NEW t, Shrunk(t, q, k)
    PROVE  Rest(t, q, k)
<1>0. DOMAIN q = 1 .. Len(q) /\ Len(q) \in Nat
  OBVIOUS
<1>1. DOMAIN t = 1 .. Len(q) - 1 /\ \A i \in 1 .. Len(q) - 1 : t[i] = IF i < k THEN q[i] ELSE q[i + 1]
  BY DEF Shrunk
<1>2. \A i \in 1 .. Len(q) - 1 : i < k => i \in DOMAIN q /\ i # k /\ t[i] = q[i]
  BY <1>0, <1>1
<1>3. \A i \in 1 .. Len(q) - 1 : ~(i < k) => i + 1 \in DOMAIN q /\ i + 1 # k /\ t[i] = q[i + 1]
  BY <1>0, <1>1
<1>4. \A i \in DOMAIN t : \E a \in DOMAIN q : a # k /\ t[i] = q[a]
  BY <1>1, <1>2, <1>3
<1>5. ASSUME NEW a \in DOMAIN q, a # k PROVE \E i \in DOMAIN t : t[i] = q[a]
  <2>1. CASE a < k
    <3>1. a \in 1 .. Len(q) - 1
        BY <1>0, <2>1
    <3> QED
        BY <1>1, <1>2, <2>1, <3>1
  <2>2. CASE a > k
    <3>1. a - 1 \in 1 .. Len(q) - 1 /\ ~(a - 1 < k) /\ a - 1 + 1 = a
        BY <1>0, <2>2
    <3>2. t[a - 1] = q[a - 1 + 1]
        BY <1>3, <3>1
    <3> QED
        BY <1>1, <3>1, <3>2
  <2> QED
      BY <1>0, <1>5, <2>1, <2>2
<1>6. ASSUME NEW i \in 1 .. Len(q) - 1, NEW j \in 1 .. Len(q) - 1, i < j
      PROVE  \E a, b \in DOMAIN q : a < b /\ a # k /\ b # k /\ t[i] = q[a] /\ t[j] = q[b]
  <2>1. CASE j < k
    <3>1. i < k
        BY <1>6, <2>1
    <3> QED
        BY <1>2, <1>6, <2>1, <3>1
  <2>2. CASE i < k /\ ~(j < k)
    <3>1. i < j + 1
        BY <1>0, <1>6
    <3> QED
        BY <1>2, <1>3, <2>2, <3>1
  <2>3. CASE ~(i < k)
    <3>1. ~(j < k) /\ i + 1 < j + 1
        BY <1>0, <1>6, <2>3
    <3> QED
        BY <1>3, <2>3, <3>1
  <2> QED
      BY <2>1, <2>2, <2>3
<1>7. \A i, j \in DOMAIN t : i < j =>
         \E a, b \in DOMAIN q : a < b /\ a # k /\ b # k /\ t[i] = q[a] /\ t[j] = q[b]
  BY <1>1, <1>6
<1> QED
  BY <1>4, <1>5, <1>7, Zenon DEF Rest

\* RemoveFirst removes the element at some place.
LEMMA RemoveFirstShrinks ==
    ASSUME NEW K, NEW q \in Seq(K), NEW e \in ToSet(q)
    PROVE  \E k \in 1 .. Len(q) : q[k] = e /\ RemoveFirst(q, e) = RemoveAt(q, k)
<1> DEFINE I == {i \in 1 .. Len(q) : q[i] = e}
           k == Min(I)
<1>1. I # {} /\ I \in SUBSET Nat
  BY DEF ToSet
<1>2. k \in 1 .. Len(q) /\ q[k] = e
  BY <1>1, MinIsLeast
<1>3. RemoveFirst(q, e) = RemoveAt(q, k)
  BY <1>1 DEF RemoveFirst, SelectInSeq
<1> QED
  BY <1>2, <1>3

\* Taking an element out of it.
LEMMA RemoveFirstOnce ==
    ASSUME NEW K, NEW q \in Seq(K), NoDup(q), NEW e \in ToSet(q)
    PROVE  /\ RemoveFirst(q, e) \in Seq(K) /\ NoDup(RemoveFirst(q, e))
           /\ ToSet(RemoveFirst(q, e)) = ToSet(q) \ {e}
           /\ Len(RemoveFirst(q, e)) = Len(q) - 1
<1>0. DOMAIN q = 1 .. Len(q) /\ Len(q) \in Nat
  OBVIOUS
<1> DEFINE I == {i \in 1 .. Len(q) : q[i] = e}
           k == Min(I)
           p == RemoveFirst(q, e)
<1>1. I # {} /\ I \in SUBSET Nat
  BY <1>0 DEF ToSet
<1>2. k \in 1 .. Len(q) /\ q[k] = e
  BY <1>1, MinIsLeast
<1>3. p = SubSeq(q, 1, k - 1) \o SubSeq(q, k + 1, Len(q))
  BY <1>1 DEF RemoveFirst, RemoveAt, SelectInSeq
<1> HIDE DEF k, p, I
<1>4. /\ p \in Seq(K) /\ Len(p) = Len(q) - 1 /\ DOMAIN p = 1 .. Len(q) - 1
      /\ \A i \in 1 .. Len(q) - 1 : p[i] = IF i < k THEN q[i] ELSE q[i + 1]
  <2>1. p = RemoveAt(q, k)
    BY <1>3 DEF RemoveAt
  <2> QED BY <2>1, <1>2, RemovedAt
<1>5. ToSet(p) = ToSet(q) \ {e}
  <2>1. ASSUME NEW i \in DOMAIN p PROVE p[i] \in ToSet(q) \ {e}
    <3>1. PICK j \in DOMAIN q : p[i] = q[j] /\ j # k
      <4>1. CASE i < k
        BY <4>1, <1>0, <1>2, <1>4
      <4>2. CASE ~(i < k)
        <5>1. i + 1 \in DOMAIN q /\ p[i] = q[i + 1] /\ i + 1 # k
          BY <4>2, <1>0, <1>2, <1>4
        <5> QED BY <5>1
      <4> QED BY <4>1, <4>2
    <3> QED BY <3>1, <1>0, <1>2 DEF ToSet, NoDup
  <2>2. ASSUME NEW i \in DOMAIN q, q[i] # e PROVE q[i] \in ToSet(p)
    <3>1. CASE i < k
      BY <3>1, <1>0, <1>2, <1>4 DEF ToSet
    <3>2. CASE i > k
      <4>1. i - 1 \in DOMAIN p /\ p[i - 1] = q[i]
        BY <3>2, <1>0, <1>2, <1>4
      <4> QED BY <4>1 DEF ToSet
    <3> QED BY <3>1, <3>2, <2>2, <1>0, <1>2
  <2> QED BY <2>1, <2>2 DEF ToSet
<1>6. NoDup(p)
  <2> SUFFICES ASSUME NEW i \in DOMAIN p, NEW j \in DOMAIN p, p[i] = p[j] PROVE i = j
    BY DEF NoDup
  <2> DEFINE From(n) == IF n < k THEN n ELSE n + 1
  <2>1. From(i) \in DOMAIN q /\ From(j) \in DOMAIN q /\ p[i] = q[From(i)] /\ p[j] = q[From(j)]
    BY <1>0, <1>2, <1>4
  <2>2. From(i) = From(j)
    BY <2>1 DEF NoDup
  <2> QED BY <2>2, <1>0, <1>2, <1>4
<1> QED BY <1>4, <1>5, <1>6 DEF p

\* Appending a new element to it.
LEMMA AppendOnce ==
    ASSUME NEW K, NEW q \in Seq(K), NoDup(q), NEW e \in K, e \notin ToSet(q)
    PROVE  /\ Append(q, e) \in Seq(K) /\ NoDup(Append(q, e))
           /\ ToSet(Append(q, e)) = ToSet(q) \cup {e}
<1> DEFINE p == Append(q, e)
<1>1. /\ p \in Seq(K) /\ DOMAIN p = 1 .. Len(q) + 1 /\ DOMAIN q = 1 .. Len(q) /\ Len(q) \in Nat
      /\ p[Len(q) + 1] = e /\ \A i \in 1 .. Len(q) : p[i] = q[i]
  OBVIOUS
<1> HIDE DEF p
<1>2. ToSet(p) = ToSet(q) \cup {e}
  BY <1>1 DEF ToSet
<1>3. NoDup(p)
  BY <1>1 DEF NoDup, ToSet
<1> QED BY <1>1, <1>2, <1>3 DEF p

\* Dropping the first elements of it.
LEMMA DropFirst ==
    ASSUME NEW K, NEW q \in Seq(K), NoDup(q), NEW n \in 0 .. Len(q)
    PROVE  /\ SubSeq(q, n + 1, Len(q)) \in Seq(K) /\ NoDup(SubSeq(q, n + 1, Len(q)))
           /\ ToSet(SubSeq(q, n + 1, Len(q))) = ToSet(q) \ {q[i] : i \in 1 .. n}
           /\ {q[i] : i \in 1 .. n} \subseteq ToSet(q)
<1> DEFINE p == SubSeq(q, n + 1, Len(q))
<1>1. /\ p \in Seq(K) /\ DOMAIN p = 1 .. Len(q) - n /\ DOMAIN q = 1 .. Len(q) /\ Len(q) \in Nat
      /\ \A i \in 1 .. Len(q) - n : p[i] = q[i + n]
  OBVIOUS
<1> HIDE DEF p
<1>2. ToSet(p) = ToSet(q) \ {q[i] : i \in 1 .. n}
  <2>1. ASSUME NEW i \in DOMAIN p PROVE p[i] \in ToSet(q) \ {q[j] : j \in 1 .. n}
    <3>1. p[i] = q[i + n] /\ i + n \in DOMAIN q /\ i + n \notin 1 .. n
      BY <1>1
    <3>2. \A j \in 1 .. n : j \in DOMAIN q /\ j # i + n
      BY <1>1, <3>1
    <3>3. \A j \in 1 .. n : q[j] # q[i + n]
      BY <3>1, <3>2 DEF NoDup
    <3> QED BY <3>1, <3>3 DEF ToSet
  <2>2. ASSUME NEW j \in DOMAIN q, q[j] \notin {q[i] : i \in 1 .. n} PROVE q[j] \in ToSet(p)
    <3>1. j - n \in DOMAIN p /\ p[j - n] = q[j]
      BY <2>2, <1>1
    <3> QED BY <3>1 DEF ToSet
  <2> QED BY <2>1, <2>2 DEF ToSet
<1>3. NoDup(p)
  <2> SUFFICES ASSUME NEW i \in DOMAIN p, NEW j \in DOMAIN p, p[i] = p[j] PROVE i = j
    BY DEF NoDup
  <2>1. i + n \in DOMAIN q /\ j + n \in DOMAIN q /\ q[i + n] = q[j + n]
    BY <1>1, SMTT(20)
  <2> QED BY <1>1, <2>1 DEF NoDup
<1>4. {q[i] : i \in 1 .. n} \subseteq ToSet(q)
  BY <1>1 DEF ToSet
<1> QED BY <1>1, <1>2, <1>3, <1>4 DEF p

\* One such sequence behind another.
LEMMA JoinOnce ==
    ASSUME NEW K, NEW a \in Seq(K), NEW b \in Seq(K), NoDup(a), NoDup(b),
           ToSet(a) \cap ToSet(b) = {}
    PROVE  a \o b \in Seq(K) /\ NoDup(a \o b) /\ ToSet(a \o b) = ToSet(a) \cup ToSet(b)
<1> DEFINE p == a \o b
<1>0. /\ Len(a) \in Nat /\ Len(b) \in Nat /\ DOMAIN a = 1 .. Len(a) /\ DOMAIN b = 1 .. Len(b)
  OBVIOUS
<1>1. /\ p \in Seq(K) /\ DOMAIN p = 1 .. Len(a) + Len(b)
      /\ \A i \in 1 .. Len(a) : p[i] = a[i]
      /\ \A i \in 1 .. Len(b) : p[i + Len(a)] = b[i]
  BY Joined
<1> HIDE DEF p
<1>2. ASSUME NEW i \in DOMAIN p
      PROVE  \/ i \in DOMAIN a /\ p[i] = a[i] /\ p[i] \in ToSet(a)
             \/ i - Len(a) \in DOMAIN b /\ p[i] = b[i - Len(a)] /\ p[i] \in ToSet(b)
  <2>1. CASE i <= Len(a)
    <3>1. i \in DOMAIN a /\ p[i] = a[i]
      BY <2>1, <1>0, <1>1
    <3> QED BY <3>1 DEF ToSet
  <2>2. CASE ~(i <= Len(a))
    <3> DEFINE j == i - Len(a)
    <3>1. j \in 1 .. Len(b) /\ j + Len(a) = i
      BY <2>2, <1>0, <1>1
    <3> HIDE DEF j
    <3>2. p[j + Len(a)] = b[j]
      BY <3>1, <1>1
    <3>3. j \in DOMAIN b /\ p[i] = b[j]
      BY <1>0, <3>1, <3>2
    <3>4. p[i] \in ToSet(b)
      BY <3>3 DEF ToSet
    <3> QED BY <3>3, <3>4 DEF j
  <2> QED BY <2>1, <2>2
<1>3. ToSet(p) = ToSet(a) \cup ToSet(b)
  <2>1. ASSUME NEW i \in DOMAIN a PROVE a[i] \in ToSet(p)
    <3>1. i \in DOMAIN p /\ p[i] = a[i]
      BY <1>0, <1>1
    <3> QED BY <3>1 DEF ToSet
  <2>2. ASSUME NEW i \in DOMAIN b PROVE b[i] \in ToSet(p)
    <3>1. i + Len(a) \in DOMAIN p /\ p[i + Len(a)] = b[i]
      BY <1>0, <1>1
    <3> QED BY <3>1 DEF ToSet
  <2> QED BY <2>1, <2>2, <1>2 DEF ToSet
<1>4. ASSUME NEW i \in DOMAIN p, NEW j \in DOMAIN p, p[i] = p[j] PROVE i = j
  <2>0. i \in Int /\ j \in Int
    BY <1>0, <1>1
  <2>1. CASE /\ i \in DOMAIN a /\ p[i] = a[i] /\ j \in DOMAIN a /\ p[j] = a[j]
    BY <2>1, <1>4 DEF NoDup
  <2>2. CASE /\ i - Len(a) \in DOMAIN b /\ p[i] = b[i - Len(a)]
             /\ j - Len(a) \in DOMAIN b /\ p[j] = b[j - Len(a)]
    <3>1. i - Len(a) = j - Len(a)
      BY <2>2, <1>4 DEF NoDup
    <3> QED BY <3>1, <2>0, <1>0
  <2> QED BY <2>1, <2>2, <1>2, <1>4
<1> QED BY <1>1, <1>3, <1>4 DEF NoDup, p

\* FlattenSeq joins the sequences one by one.
Joins(f, s) == f = [i \in 1 .. Len(s) |-> IF i = 1 THEN s[i] ELSE f[i - 1] \o s[i]]

LEMMA JoinsExist ==
    ASSUME NEW K, NEW s \in Seq(Seq(K)), Len(s) > 0
    PROVE  \E f : Joins(f, s)
<1> DEFINE N == Len(s)
           Q == {m \in Nat : m <= N =>
                    \E f \in [1 .. m -> Seq(K)] :
                       \A i \in 1 .. m : f[i] = IF i = 1 THEN s[i] ELSE f[i - 1] \o s[i]}
<1>0. N \in Nat /\ \A i \in 1 .. N : s[i] \in Seq(K)
  OBVIOUS
<1> HIDE DEF N
<1>1. 0 \in Q
  <2>1. 1 .. 0 = {}
    OBVIOUS
  <2> DEFINE f == [i \in 1 .. 0 |-> <<>>]
  <2>2. f \in [1 .. 0 -> Seq(K)] /\ \A i \in 1 .. 0 : f[i] = IF i = 1 THEN s[i] ELSE f[i - 1] \o s[i]
    BY <2>1
  <2> QED BY <2>2
<1>2. ASSUME NEW m \in Q PROVE m + 1 \in Q
  <2>1. SUFFICES ASSUME m + 1 <= N
                 PROVE  \E f \in [1 .. m + 1 -> Seq(K)] :
                           \A i \in 1 .. m + 1 : f[i] = IF i = 1 THEN s[i] ELSE f[i - 1] \o s[i]
    <3>1. m + 1 \in Nat
      OBVIOUS
    <3> QED BY <3>1
  <2>2. m \in Nat /\ m <= N
    BY <2>1, <1>0
  <2>3. PICK g \in [1 .. m -> Seq(K)] :
             \A i \in 1 .. m : g[i] = IF i = 1 THEN s[i] ELSE g[i - 1] \o s[i]
    BY <2>2
  <2> DEFINE last == IF m = 0 THEN s[m + 1] ELSE g[m] \o s[m + 1]
             f == [i \in 1 .. m + 1 |-> IF i = m + 1 THEN last ELSE g[i]]
  <2>4. last \in Seq(K)
    <3>1. s[m + 1] \in Seq(K)
      BY <1>0, <2>1, <2>2
    <3>2. m # 0 => g[m] \in Seq(K)
      BY <2>2, <2>3
    <3> QED BY <3>1, <3>2, ConcatProperties
  <2> HIDE DEF last
  <2>5. f \in [1 .. m + 1 -> Seq(K)]
    BY <2>2, <2>3, <2>4
  <2>6. ASSUME NEW i \in 1 .. m + 1 PROVE f[i] = IF i = 1 THEN s[i] ELSE f[i - 1] \o s[i]
    <3>1. CASE i = m + 1
      <4>1. f[i] = last /\ (i = 1 <=> m = 0)
        BY <3>1, <2>2
      <4>2. m # 0 => f[i - 1] = g[m] /\ i - 1 = m
        BY <3>1, <2>2
      <4> QED BY <3>1, <4>1, <4>2, <2>2 DEF last
    <3>2. CASE i # m + 1
      <4>1. i \in 1 .. m /\ f[i] = g[i]
        BY <3>2, <2>2
      <4>2. i # 1 => i - 1 \in 1 .. m + 1 /\ i - 1 # m + 1 /\ f[i - 1] = g[i - 1]
        BY <4>1, <2>2
      <4> QED BY <4>1, <4>2, <2>3
    <3> QED BY <3>1, <3>2
  <2> QED BY <2>5, <2>6
<1>3. Q = Nat
  <2> HIDE DEF Q
  <2>1. Q \in SUBSET Nat
    BY DEF Q
  <2> QED BY <2>1, <1>1, <1>2, SetInduction
<1>4. PICK f \in [1 .. N -> Seq(K)] : \A i \in 1 .. N : f[i] = IF i = 1 THEN s[i] ELSE f[i - 1] \o s[i]
  <2>1. N \in Q
    BY <1>0, <1>3
  <2> QED BY <2>1, <1>0
<1>5. Joins(f, s)
  BY <1>4 DEF Joins, N
<1> QED BY <1>5

\* What FlattenSeq makes of sequences that have nothing in common.
LEMMA FlattenOnce ==
    ASSUME NEW K, NEW s \in Seq(Seq(K)), Len(s) > 0,
           \A i \in 1 .. Len(s) : NoDup(s[i]),
           \A i, j \in 1 .. Len(s) : i # j => ToSet(s[i]) \cap ToSet(s[j]) = {}
    PROVE  /\ FlattenSeq(s) \in Seq(K) /\ NoDup(FlattenSeq(s))
           /\ ToSet(FlattenSeq(s)) = UNION {ToSet(s[i]) : i \in 1 .. Len(s)}
<1> DEFINE f == CHOOSE g : Joins(g, s)
           Some(m) == UNION {ToSet(s[i]) : i \in 1 .. m}
           Q == {m \in Nat : m \in 1 .. Len(s) =>
                                f[m] \in Seq(K) /\ NoDup(f[m]) /\ ToSet(f[m]) = Some(m)}
<1>0. Len(s) \in Nat /\ \A i \in 1 .. Len(s) : s[i] \in Seq(K)
  OBVIOUS
<1>1. Joins(f, s)
  BY JoinsExist
<1>2. FlattenSeq(s) = f[Len(s)]
  BY DEF FlattenSeq, Joins
<1> HIDE DEF f
<1>3. \A i \in 1 .. Len(s) : f[i] = IF i = 1 THEN s[i] ELSE f[i - 1] \o s[i]
  BY <1>1 DEF Joins
<1>4. 0 \in Q
  BY <1>0
<1>5. ASSUME NEW m \in Q PROVE m + 1 \in Q
  <2>1. SUFFICES ASSUME m + 1 \in 1 .. Len(s)
                 PROVE  /\ f[m + 1] \in Seq(K) /\ NoDup(f[m + 1])
                        /\ ToSet(f[m + 1]) = Some(m + 1)
    OBVIOUS
  <2>2. CASE m = 0
    <3>1. f[m + 1] = s[1] /\ m + 1 = 1
      BY <2>1, <2>2, <1>3, SMTT(20)
    <3>2. Some(1) = ToSet(s[1])
      <4>1. 1 .. 1 = {1}
        OBVIOUS
      <4> QED BY <4>1
    <3> HIDE DEF Some
    <3> QED BY <3>1, <3>2, <2>1, <1>0
  <2>3. CASE m # 0
    <3>1. m \in 1 .. Len(s) /\ f[m + 1] = f[m] \o s[m + 1]
      <4>1. m \in Nat /\ m \in 1 .. Len(s) /\ m + 1 # 1 /\ (m + 1) - 1 = m
        BY <2>1, <2>3, <1>0
      <4> QED BY <4>1, <2>1, <1>3
    <3>2. f[m] \in Seq(K) /\ NoDup(f[m]) /\ ToSet(f[m]) = Some(m)
      BY <3>1
    <3>3. Some(m) \cap ToSet(s[m + 1]) = {}
      <4>1. ASSUME NEW i \in 1 .. m PROVE ToSet(s[i]) \cap ToSet(s[m + 1]) = {}
        <5>1. i \in 1 .. Len(s) /\ i # m + 1
          BY <3>1, <1>0
        <5> QED BY <5>1, <2>1
      <4> QED BY <4>1
    <3>4. Some(m + 1) = Some(m) \cup ToSet(s[m + 1])
      <4>1. 1 .. m + 1 = (1 .. m) \cup {m + 1}
        BY <3>1, <1>0
      <4> QED BY <4>1
    <3> HIDE DEF Some
    <3>5. s[m + 1] \in Seq(K) /\ NoDup(s[m + 1])
      BY <2>1, <1>0
    <3>6. /\ f[m] \o s[m + 1] \in Seq(K) /\ NoDup(f[m] \o s[m + 1])
          /\ ToSet(f[m] \o s[m + 1]) = ToSet(f[m]) \cup ToSet(s[m + 1])
      BY <3>2, <3>3, <3>5, JoinOnce
    <3> QED BY <3>1, <3>2, <3>4, <3>6
  <2> QED BY <2>2, <2>3
<1>6. Q = Nat
  <2> HIDE DEF Q
  <2>1. Q \in SUBSET Nat
    BY DEF Q
  <2> QED BY <2>1, <1>4, <1>5, SetInduction
<1>7. Len(s) \in 1 .. Len(s) /\ Len(s) \in Q
  <2> HIDE DEF Q
  <2> QED BY <1>0, <1>6
<1> QED BY <1>2, <1>7

-----------------------------------------------------------------------------
(* Sums.  The community module defines a sum by recursion over the subsets *)
(* of the set: the sum may be taken element by element and part by part,   *)
(* and depends on the summands only.                                       *)

SumOver(w, S) == MapThenSumSet(LAMBDA x : w[x], S)

Pick(s) == CHOOSE x \in s : TRUE

\* g sums w over the subsets of S.
Sums(g, w, S) ==
    g = [s \in SUBSET S |-> IF s = {} THEN 0 ELSE w[Pick(s)] + g[s \ {Pick(s)}]]

\* What is left of a finite set without one element.
LEMMA PickOne ==
    ASSUME NEW s, IsFiniteSet(s), s # {}, NEW x \in s
    PROVE  /\ Pick(s) \in s
           /\ IsFiniteSet(s \ {x}) /\ Cardinality(s) \in Nat
           /\ Cardinality(s \ {x}) = Cardinality(s) - 1 /\ Cardinality(s \ {x}) \in Nat
           /\ Cardinality(s) > 0
<1>1. Pick(s) \in s
  BY DEF Pick
<1>2. IsFiniteSet(s \ {x}) /\ Cardinality(s \ {x}) = Cardinality(s) - 1
  BY FS_RemoveElement
<1>3. Cardinality(s) \in Nat /\ Cardinality(s \ {x}) \in Nat
  BY <1>2, FS_CardinalityType
<1> QED BY <1>1, <1>2, <1>3

\* There is a function that sums.
LEMMA SumsExist ==
    ASSUME NEW D, NEW w \in [D -> Nat], NEW S \in SUBSET D, IsFiniteSet(S)
    PROVE  \E g \in [SUBSET S -> Nat] : Sums(g, w, S)
<1> DEFINE Small(n) == {s \in SUBSET S : Cardinality(s) <= n}
           Rec(g, s) == IF s = {} THEN 0 ELSE w[Pick(s)] + g[s \ {Pick(s)}]
           Q == {n \in Nat : \E g \in [Small(n) -> Nat] : \A s \in Small(n) : g[s] = Rec(g, s)}
<1>0. \A s \in SUBSET S : IsFiniteSet(s) /\ Cardinality(s) \in Nat /\ Cardinality(s) <= Cardinality(S)
  BY FS_Subset, FS_CardinalityType
<1>1. 0 \in Q
  <2>1. \A s \in Small(0) : s = {}
    BY <1>0, FS_EmptySet
  <2> DEFINE g == [s \in Small(0) |-> 0]
  <2>2. g \in [Small(0) -> Nat] /\ \A s \in Small(0) : g[s] = Rec(g, s)
    BY <2>1
  <2> QED BY <2>2
<1>2. ASSUME NEW n \in Q PROVE n + 1 \in Q
  <2>1. PICK g \in [Small(n) -> Nat] : \A s \in Small(n) : g[s] = Rec(g, s)
    OBVIOUS
  <2> DEFINE h == [s \in Small(n + 1) |-> IF s \in Small(n) THEN g[s] ELSE Rec(g, s)]
  <2>2. ASSUME NEW s \in Small(n + 1), s # {}
        PROVE  s \ {Pick(s)} \in Small(n) /\ s \ {Pick(s)} \in Small(n + 1) /\ w[Pick(s)] \in Nat
    <3>1. IsFiniteSet(s) /\ Cardinality(s) <= n + 1 /\ n \in Nat
      BY <1>0
    <3>2. Pick(s) \in s /\ Cardinality(s \ {Pick(s)}) = Cardinality(s) - 1 /\ Cardinality(s) \in Nat
      BY <2>2, <3>1, PickOne DEF Pick
    <3> QED BY <3>1, <3>2
  <2>3. h \in [Small(n + 1) -> Nat]
    BY <2>1, <2>2
  <2>4. ASSUME NEW s \in Small(n + 1) PROVE h[s] = Rec(h, s)
    BY <2>1, <2>2
  <2>5. n + 1 \in Nat
    OBVIOUS
  <2> QED BY <2>3, <2>4, <2>5
<1>3. Q = Nat
  <2> HIDE DEF Q
  <2>1. Q \in SUBSET Nat
    BY DEF Q
  <2> QED BY <2>1, <1>1, <1>2, SetInduction
<1>4. Cardinality(S) \in Q
  BY <1>0, <1>3
<1>5. PICK g \in [Small(Cardinality(S)) -> Nat] : \A s \in Small(Cardinality(S)) : g[s] = Rec(g, s)
  BY <1>4
<1>6. Small(Cardinality(S)) = SUBSET S
  BY <1>0
<1>7. Sums(g, w, S)
  BY <1>5, <1>6 DEF Sums
<1> QED BY <1>5, <1>6, <1>7

\* Such functions agree where their sets and summands do.
LEMMA SumsAgree ==
    ASSUME NEW S, IsFiniteSet(S), NEW T, NEW w, NEW v, NEW g, NEW h,
           Sums(g, w, S), Sums(h, v, T), S \subseteq T, \A x \in S : w[x] = v[x]
    PROVE  g[S] = h[S]
<1> DEFINE Q == {n \in Nat : \A s \in SUBSET S : Cardinality(s) = n => g[s] = h[s]}
<1>0. \A s \in SUBSET S : IsFiniteSet(s) /\ Cardinality(s) \in Nat
  BY FS_Subset, FS_CardinalityType
<1>1. ASSUME NEW s \in SUBSET S
      PROVE  /\ g[s] = IF s = {} THEN 0 ELSE w[Pick(s)] + g[s \ {Pick(s)}]
             /\ h[s] = IF s = {} THEN 0 ELSE v[Pick(s)] + h[s \ {Pick(s)}]
  BY DEF Sums
<1>2. 0 \in Q
  BY <1>0, <1>1, FS_EmptySet
<1>3. ASSUME NEW n \in Q PROVE n + 1 \in Q
  <2>1. SUFFICES ASSUME NEW s \in SUBSET S, Cardinality(s) = n + 1 PROVE g[s] = h[s]
    OBVIOUS
  <2>2. s # {}
    BY <2>1, FS_EmptySet
  <2>3. Pick(s) \in s /\ Cardinality(s \ {Pick(s)}) = n
    <3>1. IsFiniteSet(s) /\ n \in Nat
      BY <1>0
    <3>2. Pick(s) \in s
      BY <2>2 DEF Pick
    <3>3. Cardinality(s \ {Pick(s)}) = Cardinality(s) - 1
      BY <2>2, <3>1, <3>2, PickOne
    <3> QED BY <2>1, <3>1, <3>2, <3>3
  <2>4. g[s \ {Pick(s)}] = h[s \ {Pick(s)}]
    BY <2>3
  <2> QED BY <1>1, <2>2, <2>3, <2>4
<1>4. Q = Nat
  <2> HIDE DEF Q
  <2>1. Q \in SUBSET Nat
    BY DEF Q
  <2> QED BY <2>1, <1>2, <1>3, SetInduction
<1> QED BY <1>0, <1>4

\* The sum of the community module is the value of any such function.
LEMMA SumIsUnique ==
    ASSUME NEW D, NEW w \in [D -> Nat], NEW S \in SUBSET D, IsFiniteSet(S),
           NEW g, Sums(g, w, S)
    PROVE  SumOver(w, S) = g[S]
<1> DEFINE i == CHOOSE f : Sums(f, w, S)
<1>1. Sums(i, w, S)
  OBVIOUS
<1>2. SumOver(w, S) = i[S]
  BY DEF SumOver, MapThenSumSet, MapThenFoldSet, Sums, Pick
<1> QED BY <1>1, <1>2, SumsAgree

\* The sum over nothing, and of naturals.
LEMMA SumType ==
    ASSUME NEW D, NEW w \in [D -> Nat], NEW S \in SUBSET D, IsFiniteSet(S)
    PROVE  SumOver(w, S) \in Nat /\ (S = {} => SumOver(w, S) = 0)
<1>1. PICK g \in [SUBSET S -> Nat] : Sums(g, w, S)
  BY SumsExist
<1>2. SumOver(w, S) = g[S]
  BY <1>1, SumIsUnique
<1> QED BY <1>1, <1>2 DEF Sums

\* The sum depends on the summands only.
LEMMA SumSame ==
    ASSUME NEW D, NEW w \in [D -> Nat], NEW v \in [D -> Nat], NEW S \in SUBSET D,
           IsFiniteSet(S), \A x \in S : w[x] = v[x]
    PROVE  SumOver(w, S) = SumOver(v, S)
<1>1. PICK g \in [SUBSET S -> Nat] : Sums(g, w, S)
  BY SumsExist
<1>2. PICK h \in [SUBSET S -> Nat] : Sums(h, v, S)
  BY SumsExist
<1>3. SumOver(w, S) = g[S] /\ SumOver(v, S) = h[S]
  BY <1>1, <1>2, SumIsUnique
<1>4. g[S] = h[S]
  BY <1>1, <1>2, SumsAgree
<1> QED BY <1>3, <1>4

\* The element that is chosen comes first.
LEMMA SumPick ==
    ASSUME NEW D, NEW w \in [D -> Nat], NEW S \in SUBSET D, IsFiniteSet(S), S # {}
    PROVE  Pick(S) \in S /\ SumOver(w, S) = w[Pick(S)] + SumOver(w, S \ {Pick(S)})
<1> DEFINE T == S \ {Pick(S)}
<1>0. Pick(S) \in S /\ T \in SUBSET D /\ T \subseteq S
  BY DEF Pick
<1>1. IsFiniteSet(T)
  BY FS_Subset
<1>2. PICK g \in [SUBSET S -> Nat] : Sums(g, w, S)
  BY SumsExist
<1>3. PICK h \in [SUBSET T -> Nat] : Sums(h, w, T)
  BY <1>0, <1>1, SumsExist
<1>4. SumOver(w, S) = g[S] /\ SumOver(w, T) = h[T]
  BY <1>0, <1>1, <1>2, <1>3, SumIsUnique
<1>5. h[T] = g[T]
  BY <1>0, <1>1, <1>2, <1>3, SumsAgree
<1>6. g[S] = w[Pick(S)] + g[T]
  BY <1>2 DEF Sums
<1> QED BY <1>0, <1>4, <1>5, <1>6

\* The sum with one element more or less, whichever it is.
LEMMA SumElement ==
    ASSUME NEW D, NEW w \in [D -> Nat], NEW S \in SUBSET D, IsFiniteSet(S), NEW x \in S
    PROVE  SumOver(w, S) = w[x] + SumOver(w, S \ {x})
<1> DEFINE Law(T) == \A y \in T : SumOver(w, T) = w[y] + SumOver(w, T \ {y})
           Q == {n \in Nat : \A T \in SUBSET D : IsFiniteSet(T) /\ Cardinality(T) = n => Law(T)}
<1>1. 0 \in Q
  BY FS_EmptySet
<1>2. ASSUME NEW n \in Q PROVE n + 1 \in Q
  <2>1. SUFFICES ASSUME NEW T \in SUBSET D, IsFiniteSet(T), Cardinality(T) = n + 1, NEW y \in T
                 PROVE  SumOver(w, T) = w[y] + SumOver(w, T \ {y})
    OBVIOUS
  <2> DEFINE p == Pick(T)
  <2>2. p \in T /\ SumOver(w, T) = w[p] + SumOver(w, T \ {p})
    BY <2>1, SumPick
  <2>3. CASE p = y
    BY <2>2, <2>3
  <2>4. CASE p # y
    <3> HIDE DEF p
    <3>1. /\ IsFiniteSet(T \ {p}) /\ Cardinality(T \ {p}) = n
          /\ IsFiniteSet(T \ {y}) /\ Cardinality(T \ {y}) = n
      BY <2>1, <2>2, PickOne, SMTT(20)
    <3>2. Law(T \ {p}) /\ Law(T \ {y})
      BY <3>1
    <3> DEFINE R == T \ {p, y}
    <3>3. /\ SumOver(w, T \ {p}) = w[y] + SumOver(w, (T \ {p}) \ {y})
          /\ SumOver(w, T \ {y}) = w[p] + SumOver(w, (T \ {y}) \ {p})
      BY <2>2, <2>4, <3>2
    <3>4. (T \ {p}) \ {y} = R /\ (T \ {y}) \ {p} = R
      OBVIOUS
    <3>5. /\ SumOver(w, T \ {p}) = w[y] + SumOver(w, R)
          /\ SumOver(w, T \ {y}) = w[p] + SumOver(w, R)
      BY <3>3, <3>4
    <3>6. SumOver(w, R) \in Nat /\ w[p] \in Nat /\ w[y] \in Nat
      <4>1. IsFiniteSet(R) /\ R \in SUBSET D
        BY <2>1, FS_Subset
      <4> QED BY <4>1, <2>2, SumType
    <3> HIDE DEF R
    <3> QED BY <2>2, <3>5, <3>6
  <2> QED BY <2>3, <2>4
<1>3. Q = Nat
  <2> HIDE DEF Q
  <2>1. Q \in SUBSET Nat
    BY DEF Q
  <2> QED BY <2>1, <1>1, <1>2, SetInduction
<1>4. Cardinality(S) \in Q
  BY <1>3, FS_CardinalityType
<1> QED BY <1>4

\* The sum when one summand changes.
LEMMA SumUpdate ==
    ASSUME NEW S, IsFiniteSet(S), NEW f \in [S -> Nat], NEW g \in [S -> Nat], NEW x \in S,
           \A y \in S : y # x => f[y] = g[y]
    PROVE  /\ SumOver(f, S) \in Nat /\ SumOver(g, S) \in Nat
           /\ SumOver(g, S) = SumOver(f, S) - f[x] + g[x]
<1> DEFINE R == S \ {x}
<1>1. S \in SUBSET S /\ R \in SUBSET S /\ \A y \in R : f[y] = g[y]
  OBVIOUS
<1>2. IsFiniteSet(R)
  BY FS_RemoveElement
<1>3. SumOver(f, S) = f[x] + SumOver(f, R) /\ SumOver(g, S) = g[x] + SumOver(g, R)
  BY <1>1, SumElement
<1> HIDE DEF R
<1>4. SumOver(f, R) = SumOver(g, R) /\ SumOver(f, R) \in Nat
  BY <1>1, <1>2, SumSame, SumType
<1>5. f[x] \in Nat /\ g[x] \in Nat
  OBVIOUS
<1> QED
  BY <1>3, <1>4, <1>5

\* The sum of nothing but zeros.
LEMMA SumZero ==
    ASSUME NEW S, IsFiniteSet(S), NEW f \in [S -> Nat], \A y \in S : f[y] = 0
    PROVE  SumOver(f, S) = 0
<1> DEFINE Q == {n \in Nat : \A T \in SUBSET S : Cardinality(T) = n => SumOver(f, T) = 0}
<1>1. ASSUME NEW T \in SUBSET S PROVE IsFiniteSet(T) /\ Cardinality(T) \in Nat
  BY FS_Subset, FS_CardinalityType
<1>2. 0 \in Q
  <2> SUFFICES ASSUME NEW T \in SUBSET S, Cardinality(T) = 0 PROVE SumOver(f, T) = 0
    OBVIOUS
  <2>1. T = {}
    BY <1>1, FS_EmptySet
  <2> QED BY <1>1, <2>1, SumType
<1>3. ASSUME NEW n \in Q PROVE n + 1 \in Q
  <2>0. n \in Nat /\ n + 1 \in Nat
    OBVIOUS
  <2> SUFFICES ASSUME NEW T \in SUBSET S, Cardinality(T) = n + 1 PROVE SumOver(f, T) = 0
    BY <2>0
  <2>1. T # {} /\ IsFiniteSet(T)
    BY <1>1, <2>0, FS_EmptySet
  <2>2. PICK x \in T : TRUE
    BY <2>1
  <2>a. Cardinality(T \ {x}) = Cardinality(T) - 1
    BY <2>1, PickOne
  <2>3. Cardinality(T \ {x}) = n
    BY <2>0, <2>a
  <2>4. SumOver(f, T) = f[x] + SumOver(f, T \ {x})
    BY <2>1, SumElement
  <2>5. SumOver(f, T \ {x}) = 0
    BY <2>3
  <2> QED BY <2>4, <2>5
<1> HIDE DEF Q
<1>4. Q = Nat
  <2>1. Q \in SUBSET Nat
    BY DEF Q
  <2> QED BY <1>2, <1>3, <2>1, SetInduction
<1>5. Cardinality(S) \in Q
  BY <1>1, <1>4
<1> QED
  BY <1>5 DEF Q

\* The sum over a set is that over a part of it and that over the rest.
LEMMA SumParts ==
    ASSUME NEW D, NEW w \in [D -> Nat], NEW S \in SUBSET D, IsFiniteSet(S), NEW T \in SUBSET S
    PROVE  SumOver(w, S) = SumOver(w, T) + SumOver(w, S \ T)
<1> DEFINE Q == {n \in Nat : \A U \in SUBSET S : Cardinality(U) = n =>
                                SumOver(w, S) = SumOver(w, U) + SumOver(w, S \ U)}
<1>0. ASSUME NEW U \in SUBSET S
      PROVE  /\ IsFiniteSet(U) /\ Cardinality(U) \in Nat /\ IsFiniteSet(S \ U)
             /\ SumOver(w, U) \in Nat /\ SumOver(w, S \ U) \in Nat
  <2>1. IsFiniteSet(U) /\ IsFiniteSet(S \ U) /\ U \in SUBSET D /\ S \ U \in SUBSET D
    BY FS_Subset
  <2> QED BY <2>1, FS_CardinalityType, SumType
<1>1. 0 \in Q
  <2>1. SUFFICES ASSUME NEW U \in SUBSET S, Cardinality(U) = 0
                 PROVE  SumOver(w, S) = SumOver(w, U) + SumOver(w, S \ U)
    OBVIOUS
  <2>2. U = {} /\ S \ U = S
    BY <2>1, <1>0, FS_EmptySet
  <2>3. SumOver(w, U) = 0
    BY <2>2, <1>0, SumType
  <2> QED BY <2>2, <2>3, <1>0
<1>2. ASSUME NEW n \in Q PROVE n + 1 \in Q
  <2>1. SUFFICES ASSUME NEW U \in SUBSET S, Cardinality(U) = n + 1
                 PROVE  SumOver(w, S) = SumOver(w, U) + SumOver(w, S \ U)
    OBVIOUS
  <2>2. PICK x \in U : TRUE
    BY <2>1, FS_EmptySet
  <2> DEFINE V == U \ {x}
  <2>3. IsFiniteSet(U) /\ Cardinality(V) = n /\ V \in SUBSET S
    <3>1. IsFiniteSet(U) /\ n \in Nat /\ U # {}
      BY <1>0
    <3>2. Cardinality(V) = Cardinality(U) - 1
      BY <3>1, PickOne
    <3> QED BY <2>1, <3>1, <3>2
  <2>4. SumOver(w, S) = SumOver(w, V) + SumOver(w, S \ V)
    BY <2>3
  <2>5. SumOver(w, U) = w[x] + SumOver(w, V)
    BY <2>3, SumElement
  <2>6. SumOver(w, S \ V) = w[x] + SumOver(w, S \ U)
    <3>1. x \in S \ V /\ S \ V \in SUBSET D /\ IsFiniteSet(S \ V) /\ (S \ V) \ {x} = S \ U
      BY <2>3, <1>0
    <3>2. SumOver(w, S \ V) = w[x] + SumOver(w, (S \ V) \ {x})
      BY <3>1, SumElement
    <3> QED BY <3>1, <3>2
  <2>7. w[x] \in Nat /\ SumOver(w, V) \in Nat /\ SumOver(w, S \ U) \in Nat
    BY <1>0, <2>3
  <2> HIDE DEF V
  <2> QED BY <2>4, <2>5, <2>6, <2>7
<1>3. Q = Nat
  <2> HIDE DEF Q
  <2>1. Q \in SUBSET Nat
    BY DEF Q
  <2> QED BY <2>1, <1>1, <1>2, SetInduction
<1> QED BY <1>0, <1>3
=============================================================================

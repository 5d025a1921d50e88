---------------------------- MODULE MessageList ----------------------------
(***************************************************************************)
(* The doubly linked list inside ndk::message_queue (message_queue.cpp):   *)
(* the *_i methods, which run with queue_mutex_ held, so that each is one  *)
(* action.  Blocks are linked through their own next()/prev() fields, also *)
(* while a caller owns them: a chain returned by dequeue_head_n can be     *)
(* given to enqueue_tail again with whatever its prev() fields hold.       *)
(***************************************************************************)
EXTENDS Integers, Sequences, FiniteSets

CONSTANTS Blocks,    \* message blocks
          Null       \* the null pointer

VARIABLES
    head,      \* head_
    tail,      \* tail_
    mb_count,  \* mb_count_
    next,      \* next[b]: b->next()
    prev,      \* prev[b]: b->prev()
    chains,    \* first blocks of the chains that callers own
    ret        \* what the last operation returned; singles count 1

vars == <<head, tail, mb_count, next, prev, chains, ret>>

\* Type correctness: pointers point at blocks, and mb_count_ never goes below
\* zero, whatever mix of list and single operations ran.
TypeOK ==
    /\ head \in Blocks \cup {Null} /\ tail \in Blocks \cup {Null}
    /\ mb_count \in Nat /\ ret \in Nat
    /\ next \in [Blocks -> Blocks \cup {Null}]
    /\ prev \in [Blocks -> Blocks \cup {Null}]
    /\ chains \subseteq Blocks

Init ==
    /\ head = Null /\ tail = Null /\ mb_count = 0 /\ ret = 0
    /\ next = [b \in Blocks |-> Null]
    /\ prev = [b \in Blocks |-> Null]
    /\ chains = Blocks

\* The blocks reached from b over the next() fields nx.
Chain(b, nx) ==
    LET from[x \in Blocks \cup {Null}] == IF x = Null THEN <<>> ELSE <<x>> \o from[nx[x]]
    IN  from[b]

Last(s) == s[Len(s)]

----------------------------------------------------------------------------
\* A caller links one of its chains behind another (message_block::next).
Link(a, b) ==
    /\ a \in chains /\ b \in chains /\ a # b
    /\ next' = [next EXCEPT ![Last(Chain(a, next))] = b]
    /\ chains' = chains \ {b}
    /\ UNCHANGED <<head, tail, mb_count, prev, ret>>

\* The first loop of both enqueues: the prev() fields inside a chain.
Relinked(s) == [b \in Blocks |-> IF \E i \in 2 .. Len(s) : s[i] = b
                                 THEN s[CHOOSE i \in 1 .. (Len(s) - 1) : s[i + 1] = b]
                                 ELSE prev[b]]

enqueue_tail_i(new_item) ==
    LET s == Chain(new_item, next)
    IN  /\ new_item \in chains
        /\ IF tail = Null
           THEN /\ head' = new_item
                /\ prev' = [Relinked(s) EXCEPT ![new_item] = Null]
                /\ UNCHANGED next
           ELSE /\ prev' = [Relinked(s) EXCEPT ![new_item] = tail]
                /\ next' = [next EXCEPT ![tail] = new_item]
                /\ UNCHANGED head
        /\ tail' = Last(s)
        /\ mb_count' = mb_count + Len(s)
        /\ ret' = Len(s)
        /\ chains' = chains \ {new_item}

enqueue_head_i(new_item) ==
    LET s == Chain(new_item, next)
        p == [Relinked(s) EXCEPT ![new_item] = Null]
    IN  /\ new_item \in chains
        /\ next' = [next EXCEPT ![Last(s)] = head]
        /\ prev' = IF head # Null THEN [p EXCEPT ![head] = Last(s)] ELSE p
        /\ tail' = IF head # Null THEN tail ELSE Last(s)
        /\ head' = new_item
        /\ mb_count' = mb_count + Len(s)
        /\ ret' = Len(s)
        /\ chains' = chains \ {new_item}

dequeue_head_i ==
    /\ head # Null
    /\ head' = next[head]
    /\ tail' = IF next[head] = Null THEN Null ELSE tail
    /\ prev' = [b \in Blocks |-> IF b \in {head, next[head]} THEN Null ELSE prev[b]]
    /\ next' = [next EXCEPT ![head] = Null]
    /\ mb_count' = mb_count - 1
    /\ ret' = 1
    /\ chains' = chains \cup {head}

dequeue_tail_i ==
    /\ tail # Null
    /\ IF prev[tail] = Null
       THEN /\ head' = Null /\ tail' = Null
            /\ next' = [next EXCEPT ![tail] = Null]
       ELSE /\ next' = [next EXCEPT ![prev[tail]] = Null, ![tail] = Null]
            /\ tail' = prev[tail]
            /\ UNCHANGED head
    /\ prev' = [prev EXCEPT ![tail] = Null]
    /\ mb_count' = mb_count - 1
    /\ ret' = 1
    /\ chains' = chains \cup {tail}

\* number = -1, in both *_n_i methods: the whole list goes as it is.
dequeue_all_i ==
    /\ head # Null
    /\ head' = Null /\ tail' = Null
    /\ mb_count' = 0
    /\ ret' = mb_count
    /\ chains' = chains \cup {head}
    /\ UNCHANGED <<next, prev>>

\* The block reached from b after n steps over the links f, Null past the end.
Walk(b, n, f) ==
    LET after[i \in 0 .. n] == IF i = 0 THEN b
                               ELSE IF after[i - 1] = Null THEN Null ELSE f[after[i - 1]]
    IN  after[n]

\* How many steps of n such a walk takes before it runs off the end.
Steps(b, n, f) == Cardinality({i \in 0 .. (n - 1) : Walk(b, i, f) # Null})

\* Mutant: the chain handed out is not cut off.
dequeue_head_n_uncut(number) ==
    LET h == Walk(head, number, next)
        count == Steps(head, number, next)
    IN  /\ head # Null
        /\ head' = h
        /\ tail' = IF h = Null THEN Null ELSE tail
        /\ mb_count' = IF h = Null THEN 0 ELSE mb_count - count
        /\ prev' = [b \in Blocks |-> IF b = h THEN Null ELSE prev[b]]
        /\ ret' = count
        /\ chains' = chains \cup {head}
        /\ UNCHANGED next

dequeue_head_n_i(number) ==
    LET h == Walk(head, number, next)
        count == Steps(head, number, next)
    IN  /\ head # Null
        /\ head' = h
        /\ IF h = Null
           THEN tail' = Null /\ mb_count' = 0 /\ UNCHANGED <<next, prev>>
           ELSE /\ next' = [next EXCEPT ![prev[h]] = Null]
                /\ prev' = [prev EXCEPT ![h] = Null]
                /\ mb_count' = mb_count - count
                /\ UNCHANGED tail
        /\ ret' = count
        /\ chains' = chains \cup {head}

dequeue_tail_n_i(number) ==
    LET t == Walk(tail, number, prev)
        count == Steps(tail, number, prev)
    IN  /\ tail # Null
        /\ tail' = t
        /\ IF t = Null
           THEN /\ head' = Null /\ mb_count' = 0 /\ ret' = mb_count
                /\ chains' = chains \cup {head}
                /\ UNCHANGED <<next, prev>>
           ELSE /\ chains' = chains \cup {next[t]}
                /\ prev' = [prev EXCEPT ![next[t]] = Null]
                /\ next' = [next EXCEPT ![t] = Null]
                /\ mb_count' = mb_count - count
                /\ ret' = count
                /\ UNCHANGED head

Next ==
    \/ \E a, b \in Blocks : Link(a, b)
    \/ \E b \in Blocks : enqueue_tail_i(b) \/ enqueue_head_i(b)
    \/ dequeue_head_i
    \/ dequeue_tail_i
    \/ dequeue_all_i
    \/ \E n \in 1 .. (Len(Chain(head, next)) + 1) : dequeue_head_n_i(n) \/ dequeue_tail_n_i(n)

Spec == Init /\ [][Next]_vars

----------------------------------------------------------------------------
\* The list is sound in both directions after any sequence of operations:
\* walking next() from head_ and prev() from tail_ meets the same blocks, both
\* ends are closed, head_ and tail_ are null together, and mb_count_ is right.
WellLinked ==
    LET s == Chain(head, next)
    IN  /\ head = Null <=> tail = Null
        /\ mb_count = Len(s)
        /\ s # <<>> => tail = Last(s) /\ prev[head] = Null
        /\ \A i \in 2 .. Len(s) : prev[s[i]] = s[i - 1]

\* The pointer operations implement the double-ended queue: what each
\* dequeue hands out is exactly the chain cut off that end, in queue order and
\* closed at its end, with its length as return value; nothing is lost or shared.
D == INSTANCE Deque WITH q <- Chain(head, next),
                         held <- {Chain(b, next) : b \in chains}
ImplementsDeque == D!Spec
============================================================================

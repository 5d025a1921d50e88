------------------------------- MODULE Crontab -------------------------------
(***************************************************************************)
(* The crontab timers of ndk::timer_queue: the entries as parse_cron_entry *)
(* reads them, and the doubly linked list crontab_timers_ that the timer   *)
(* of the whole minute (handle_timeout) walks, calling the handlers of     *)
(* the entries that match.  A handler may register, change and cancel      *)
(* crontab timers inside its upcall, while the walk holds a pointer to the *)
(* node it will look at next.                                              *)
(*                                                                         *)
(* A field of an entry is a sequence of tokens (the commas); a token keeps *)
(* its form and its numbers: "n", "*", "b-e", "b-", "-e", "-", each range  *)
(* also with "/step", "*/n" and "b/n".  Names of months and days are their *)
(* numbers.  Numbers lie within the field: parsing checks that only for    *)
(* the forms with a step or two ends.                                      *)
(***************************************************************************)
EXTENDS Integers, Sequences, FiniteSets

CONSTANTS
    Field,      \* the fields, each with first, last and count
    Mday,       \* the field of the day of the month
    Wday,       \* the field of the weekday, whose last value means the first
    Entries,    \* entries offered to crontab, each a token sequence per field
    Handlers,   \* event handlers
    Nodes,      \* timer nodes the program may come to have
    Times,      \* the minutes that come, each a value per field
    MaxId,      \* bound: the timer ids handed out
    CancelsEnds,  \* whether the first and the last timer of the list may be
                  \* cancelled, which breaks the list
    Nil

VARIABLES
    crontab_timers,  \* crontab_timers_
    next, prev,      \* the links of each node
    free,            \* free_crontab_timers_
    node,            \* what a node carries: item is Nil once it is released
    made,            \* nodes that new has made
    min_timer_id,    \* min_timer_id_: crontab ids are never entered in timer_ids_
    minute,          \* the running handle_timeout, Nil if none: the minute, where
                     \* the walk began, iter, the nodes it called and whether a
                     \* handler is running
    started,         \* the minute timer is scheduled
    disturbed,       \* a crontab timer was cancelled, or reset in this walk
    hung             \* a loop that does not end

links == <<crontab_timers, next, prev, free>>
vars == <<links, node, made, min_timer_id, minute, started, disturbed, hung>>

----------------------------------------------------------------------------
(* Parsing.  The result is the set of values of the field that are marked, *)
(* or Nil for an entry that is refused.                                    *)

Numbers(f) == Field[f].first .. Field[f].last

Token(f) ==
    [form : {"star", "none"}]
        \cup [form : {"item"}, b : Numbers(f)]
        \cup [form : {"range"}, b : Numbers(f) \cup {Nil}, e : Numbers(f) \cup {Nil}]
        \cup [form : {"range/"}, b : Numbers(f) \cup {Nil}, e : Numbers(f) \cup {Nil}, step : 1 .. Field[f].last]
        \cup [form : {"star/"}, step : 1 .. Field[f].last]
        \cup [form : {"item/"}, b : Numbers(f), step : 1 .. Field[f].last]

\* The values from b to e, every step-th.
Marks(b, e, step) == {i \in b .. e : (i - b) % step = 0}

get_list_by_item(f, t) ==
    CASE t.form = "star" -> Numbers(f)
      [] t.form = "item" -> {t.b}
      [] OTHER -> Nil

\* "-" alone has no number: atoi reads 0.
get_list_by_range(f, t) ==
    CASE t.b = Nil -> Field[f].first .. (IF t.e = Nil THEN 0 ELSE t.e)
      [] t.b # Nil /\ t.e = Nil -> t.b .. Field[f].last
      [] OTHER -> IF t.b > t.e THEN (t.b .. Field[f].last) \cup (Field[f].first .. t.e)
                               ELSE t.b .. t.e

\* Mutant: the second half of a wrapped range starts at the first value again.
get_list_by_range_and_step_restart(f, t) ==
    LET b == IF t.b = Nil THEN (IF t.e = Nil THEN Field[f].first ELSE -1) ELSE t.b
        e == IF t.e = Nil THEN Field[f].last ELSE t.e
    IN  IF b < Field[f].first \/ t.step < Field[f].first THEN Nil
        ELSE IF b > e THEN Marks(b, Field[f].last, t.step) \cup Marks(Field[f].first, e, t.step)
        ELSE Marks(b, e, t.step)

\* A range that is open only at its lower end keeps b = -1 and is refused.
\* A range that wraps goes on counting past last and starts again from the rest.
get_list_by_range_and_step(f, t) ==
    LET b == IF t.b = Nil THEN (IF t.e = Nil THEN Field[f].first ELSE -1) ELSE t.b
        e == IF t.e = Nil THEN Field[f].last ELSE t.e
        past == CHOOSE i \in (Field[f].last + 1) .. (Field[f].last + t.step) : (i - b) % t.step = 0
        again == (past % Field[f].count) + Field[f].first
    IN  IF b < Field[f].first \/ t.step < Field[f].first THEN Nil
        ELSE IF b > e THEN Marks(b, Field[f].last, t.step) \cup Marks(again, e, t.step)
        ELSE Marks(b, e, t.step)

\* "b/n" marks b alone.
get_list_by_step(f, t) ==
    IF t.form = "star/" THEN Marks(Field[f].first, Field[f].last, t.step) ELSE {t.b}

get_token(f, t) ==
    CASE t.form = "range/" -> get_list_by_range_and_step(f, t)
      [] t.form = "range" -> get_list_by_range(f, t)
      [] t.form \in {"star/", "item/"} -> get_list_by_step(f, t)
      [] OTHER -> get_list_by_item(f, t)

\* The first token that is refused refuses the field.
parse_cron_entry_i(f, ts) ==
    LET parsed == [k \in 1 .. Len(ts) |-> get_token(f, ts[k])]
    IN  IF \E k \in 1 .. Len(ts) : parsed[k] = Nil THEN Nil
        ELSE UNION {parsed[k] : k \in 1 .. Len(ts)}

\* All fields, and the weekday's two names for sunday.
parse_cron_entry(en) ==
    LET item == [f \in DOMAIN Field |-> parse_cron_entry_i(f, en[f])]
        sunday == {Field[Wday].first, Field[Wday].last}
    IN  IF \E f \in DOMAIN Field : item[f] = Nil THEN Nil
        ELSE [item EXCEPT ![Wday] = IF @ \cap sunday # {} THEN @ \cup sunday ELSE @]

----------------------------------------------------------------------------
(* What the comment on crontab in timer_queue.h says the forms mean.       *)

\* The values of a field in a row from b to e, past the last one if need be.
\* On the weekdays the last value is the first one again.
Period(f) == Field[f].last - Field[f].first + (IF f = Wday THEN 0 ELSE 1)
Turn(f, v) == Field[f].first + ((v - Field[f].first) % Period(f))
Upto(f, b, e) == IF b <= e THEN e ELSE e + Period(f)

Meaning(f, t) ==
    CASE t.form = "star" -> Numbers(f)
      [] t.form = "item" -> {t.b}
      [] t.form = "star/" -> Marks(Field[f].first, Field[f].last, t.step)
      [] t.form \in {"range", "range/"} ->
            LET b == IF t.b = Nil THEN Field[f].first ELSE t.b
                e == IF t.e = Nil THEN Field[f].last ELSE t.e
                step == IF t.form = "range" THEN 1 ELSE t.step
            IN  {Turn(f, v) : v \in Marks(b, Upto(f, b, e), step)}

\* As days: the two names of sunday are one day.
Days(f, S) == {Turn(f, v) : v \in S}

\* The forms the comment defines.
Documented(f) == {t \in Token(f) : t.form \notin {"item/", "none"}}

\* Three of them are read otherwise: "-" alone, a step on a range without its
\* lower end, and a weekday range with a step that wraps.
ReadOtherwise(f, t) ==
    \/ t.form \in {"range", "range/"} /\ t.b = Nil /\ (t.form = "range/" <=> t.e # Nil)
    \/ f = Wday /\ t.form = "range/" /\ t.b # Nil /\ t.e # Nil /\ t.b > t.e

Agrees(f, t) == get_token(f, t) # Nil /\ Days(f, get_token(f, t)) = Days(f, Meaning(f, t))

----------------------------------------------------------------------------
(* The list.                                                               *)

Init ==
    /\ crontab_timers = Nil /\ free = Nil
    /\ next = [n \in Nodes |-> Nil] /\ prev = [n \in Nodes |-> Nil]
    /\ node = [n \in Nodes |-> [id |-> -1, handler |-> Nil, text |-> Nil, item |-> Nil]]
    /\ made = {} /\ min_timer_id = 0
    /\ minute = Nil /\ started = FALSE /\ disturbed = "no" /\ hung = FALSE

\* The nodes a pointer leads to.
Reach(from) ==
    LET at[i \in 0 .. Cardinality(Nodes)] ==
            IF i = 0 THEN from ELSE IF at[i - 1] = Nil THEN Nil ELSE next[at[i - 1]]
    IN  {at[i] : i \in 0 .. Cardinality(Nodes)} \ {Nil}

\* alloc_node: the first of the free list, else a new one.
alloc_node == IF free # Nil THEN free ELSE CHOOSE n \in Nodes \ made : TRUE
CanAlloc == free # Nil \/ made # Nodes

\* release_timerid: the search for an id starts there again.
release_timerid(id) == IF id >= 0 /\ id < min_timer_id THEN id ELSE min_timer_id

\* Mutant: a node that is freed keeps its entry.
released_keeps_entry(r) == [r EXCEPT !.text = Nil]

\* free_node, release_cron_entry: the id and the handler stay in the node.
released(r) == [r EXCEPT !.text = Nil, !.item = Nil]

\* crontab on an empty list schedules the minute timer first and takes any id
\* but 0 for a failure: it succeeds once.  The node goes to the front.  An
\* entry that is refused sends the node to the free list, its id released.
crontab(h, en) ==
    LET n == alloc_node
        item == parse_cron_entry(en)
        id == IF started THEN min_timer_id ELSE 1
    IN  /\ crontab_timers = Nil => ~started
        /\ CanAlloc /\ id < MaxId
        /\ started' = TRUE
        /\ made' = made \cup {n}
        /\ IF item = Nil
           THEN /\ node' = [node EXCEPT ![n].id = id, ![n].handler = h]
                /\ next' = [next EXCEPT ![n] = IF free = n THEN next[n] ELSE Nil]
                /\ prev' = [prev EXCEPT ![n] = Nil]
                /\ free' = n
                /\ min_timer_id' = id
                /\ UNCHANGED crontab_timers
           ELSE /\ node' = [node EXCEPT ![n] = [id |-> id, handler |-> h, text |-> en, item |-> item]]
                /\ prev' = IF crontab_timers = Nil THEN [prev EXCEPT ![n] = Nil]
                           ELSE [[prev EXCEPT ![n] = Nil] EXCEPT ![crontab_timers] = n]
                /\ next' = [next EXCEPT ![n] = crontab_timers]
                /\ free' = IF free = n THEN next[n] ELSE Nil
                /\ crontab_timers' = n
                /\ min_timer_id' = id + 1
        /\ UNCHANGED <<minute, disturbed, hung>>

\* reset_crontab parses into a node of its own, swaps the entries and frees that
\* node, with the id it last had.  The loop never leaves the first node.
reset_crontab(id, en) ==
    LET n == alloc_node
    IN  /\ crontab_timers # Nil
        /\ IF node[crontab_timers].id # id
           THEN hung' = TRUE /\ UNCHANGED <<links, node, made, min_timer_id, disturbed>>
           ELSE /\ CanAlloc
                /\ made' = made \cup {n}
                /\ free' = n
                /\ next' = IF free = n THEN next ELSE [next EXCEPT ![n] = Nil]
                /\ min_timer_id' = release_timerid(node[n].id)
                /\ node' = IF parse_cron_entry(en) = Nil THEN node
                           ELSE [node EXCEPT ![crontab_timers].text = en,
                                             ![crontab_timers].item = parse_cron_entry(en)]
                /\ disturbed' = IF minute # Nil /\ disturbed = "no" THEN "reset" ELSE disturbed
                /\ UNCHANGED <<crontab_timers, prev, hung>>
        /\ UNCHANGED <<minute, started>>

\* The first node of the list with that id.
First(id) ==
    LET at[i \in 0 .. Cardinality(Nodes)] ==
            IF i = 0 THEN crontab_timers
            ELSE IF at[i - 1] = Nil \/ node[at[i - 1]].id = id THEN at[i - 1] ELSE next[at[i - 1]]
    IN  at[Cardinality(Nodes)]

\* cancel: the first node of the list is freed where it stands; another one is
\* unlinked, but a last one takes the list with it.
cancel(id) ==
    LET n == First(id)
        p == prev[n]
        s == next[n]
    IN  /\ n # Nil /\ node[n].id = id
        /\ CancelsEnds \/ (n # crontab_timers /\ s # Nil)
        /\ node' = [node EXCEPT ![n] = released(@)]
        /\ min_timer_id' = release_timerid(id)
        /\ free' = n
        /\ disturbed' = "cancel"
        /\ IF n = crontab_timers
           THEN next' = [next EXCEPT ![n] = free] /\ UNCHANGED <<prev, crontab_timers>>
           ELSE /\ p # Nil
                /\ next' = [[next EXCEPT ![p] = s] EXCEPT ![n] = free]
                /\ prev' = IF s = Nil THEN [prev EXCEPT ![n] = Nil]
                           ELSE [[prev EXCEPT ![s] = p] EXCEPT ![n] = Nil]
                /\ crontab_timers' = IF s = Nil THEN Nil ELSE crontab_timers
        /\ UNCHANGED <<made, minute, started, hung>>

----------------------------------------------------------------------------
(* The minute timer.                                                       *)

handle_timeout(t) ==
    /\ started /\ minute = Nil
    /\ minute' = [now |-> t, from |-> crontab_timers, iter |-> crontab_timers, called |-> {}, busy |-> Nil]
    /\ disturbed' = IF disturbed = "reset" THEN "no" ELSE disturbed
    /\ UNCHANGED <<links, node, made, min_timer_id, started, hung>>

Matches(item, t) == \A f \in DOMAIN Field : t[f] \in item[f]

\* Mutant: a match in one field is enough.
Look_any ==
    /\ minute # Nil /\ minute.busy = Nil /\ minute.iter # Nil
    /\ LET n == minute.iter
           due == node[n].item # Nil /\ \E f \in DOMAIN Field : minute.now[f] \in node[n].item[f]
       IN  minute' = [minute EXCEPT !.iter = next[n],
                                    !.called = IF due THEN @ \cup {n} ELSE @,
                                    !.busy = IF due THEN n ELSE Nil]
    /\ UNCHANGED <<links, node, made, min_timer_id, started, disturbed, hung>>

\* One turn of the loop: the successor is read before the handler is called.
Look ==
    /\ minute # Nil /\ minute.busy = Nil /\ minute.iter # Nil
    /\ LET n == minute.iter
           due == node[n].item # Nil /\ Matches(node[n].item, minute.now)
       IN  minute' = [minute EXCEPT !.iter = next[n],
                                    !.called = IF due THEN @ \cup {n} ELSE @,
                                    !.busy = IF due THEN n ELSE Nil]
    /\ UNCHANGED <<links, node, made, min_timer_id, started, disturbed, hung>>

\* The handler returns; on another value than 0 its handle_close is called.
Returned ==
    /\ minute # Nil /\ minute.busy # Nil
    /\ minute' = [minute EXCEPT !.busy = Nil]
    /\ UNCHANGED <<links, node, made, min_timer_id, started, disturbed, hung>>

WalkEnds ==
    /\ minute # Nil /\ minute.busy = Nil /\ minute.iter = Nil
    /\ minute' = Nil
    /\ UNCHANGED <<links, node, made, min_timer_id, started, disturbed, hung>>

Spin == hung /\ UNCHANGED vars

\* Callers run between two walks or are the handler of the running upcall.
\* They name timers by their ids, and only timers they have not cancelled.
LiveIds == {node[n].id : n \in {n \in Nodes : node[n].text # Nil}}

Next ==
    \/ Spin
    \/ /\ ~hung
       /\ \/ /\ IF minute = Nil THEN TRUE ELSE minute.busy # Nil
             /\ \/ \E h \in Handlers, en \in Entries : crontab(h, en)
                \/ \E id \in LiveIds, en \in Entries : reset_crontab(id, en)
                \/ \E id \in LiveIds : cancel(id)
          \/ \E t \in Times : handle_timeout(t)
          \/ Look
          \/ Returned
          \/ WalkEnds

Spec == Init /\ [][Next]_vars

----------------------------------------------------------------------------
(* Properties.                                                             *)

\* Every form of a field that the comment on crontab defines marks the values
\* the comment says, wrapped ranges and steps included; three are read otherwise.
CronMeaning ==
    \A f \in DOMAIN Field : \A t \in Documented(f) : ReadOtherwise(f, t) \/ Agrees(f, t)

\* As long as nobody cancels, the walk of a minute calls exactly the entries
\* every field of which means this minute and that were registered when it began,
\* although handlers register new ones at the front of the list meanwhile.
Means(n, f, t) ==
    Days(f, {t[f]}) \subseteq UNION {Days(f, Meaning(f, node[n].text[f][k])) : k \in DOMAIN node[n].text[f]}
Due(n, t) == node[n].text # Nil /\ \A f \in DOMAIN Field : Means(n, f, t)
AtEndOfWalk == minute # Nil /\ minute.iter = Nil /\ disturbed = "no"
WalkIsComplete ==
    AtEndOfWalk => minute.called = {n \in Reach(minute.from) : Due(n, minute.now)}

\* "'* * 1,15 * Sun'  Will run on the first and fifteenth AND every Sunday"
\* (timer_queue.h:230): an entry that restricts both the day of the month and the
\* weekday is due on either.  The walk asks for both: it skips the first of a
\* month that is no sunday.
Restricts(n, f) == \A k \in DOMAIN node[n].text[f] : node[n].text[f][k].form # "star"
DueOnEitherDay(n, t) ==
    /\ node[n].text # Nil
    /\ \A f \in DOMAIN Field \ {Mday, Wday} : Means(n, f, t)
    /\ IF Restricts(n, Mday) /\ Restricts(n, Wday)
       THEN Means(n, Mday, t) \/ Means(n, Wday, t)
       ELSE Means(n, Mday, t) /\ Means(n, Wday, t)
EitherDayRuns ==
    AtEndOfWalk => minute.called = {n \in Reach(minute.from) : DueOnEitherDay(n, minute.now)}

\* A cancelled timer is never called: the walk holds a pointer across the
\* upcall, and may follow it into the free list, where entries are released.
CallsTheRegistered ==
    \A n \in Nodes : (minute # Nil /\ minute' # Nil /\ minute.busy = Nil /\ minute'.busy = n) => n \notin Reach(free)
CancelledNotCalled == [][CallsTheRegistered]_vars
=============================================================================

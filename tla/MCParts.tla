------------------------------ MODULE MCParts ------------------------------
(***************************************************************************)
(* The parts of the library and of fcache that are checked by themselves:  *)
(* those of Parts, and the structures and calculations that are only       *)
(* model-checked, with variables in the same way.                          *)
(***************************************************************************)
EXTENDS Parts

CONSTANTS
    Items,      \* items of the cache_heap
    CronNodes   \* crontab timer nodes

----------------------------------------------------------------------------
(* Crontab: three fields of four values each, one that counts from 0       *)
(* (minutes), one that counts from 1 (days of the month) and the weekdays, *)
(* where 3 is 0.                                                           *)

CronField == [min |-> [first |-> 0, last |-> 4, count |-> 5],
              mday |-> [first |-> 1, last |-> 4, count |-> 5],
              wday |-> [first |-> 0, last |-> 3, count |-> 4]]

Star == <<[form |-> "star"]>>
Item(b) == <<[form |-> "item", b |-> b]>>
FromTo(b, e, s) == [form |-> "range/", b |-> b, e |-> e, step |-> s]

CronEntries == {
    [min |-> Star, mday |-> Star, wday |-> Star],
    [min |-> <<FromTo(3, 1, 2)>>, mday |-> Star, wday |-> Item(3)],
    [min |-> Star, mday |-> <<FromTo(Nil, 2, 1)>>, wday |-> Star],
    [min |-> Star, mday |-> Item(1), wday |-> Item(3)]}

CronTimes == {[min |-> 0, mday |-> 1, wday |-> 0], [min |-> 4, mday |-> 1, wday |-> 1]}

(* Ini files: two sections, one in capitals, and values with comment signs. *)
IniLower == [n \in {"", "a", "A", "b", "k"} |-> IF n = "A" THEN "a" ELSE n]
IniCut == [v \in {"v", "", "v;w"} |-> IF v = "v;w" THEN "v" ELSE v]
Value(k, t, q) == [is |-> "value", key |-> <<k>>, text |-> t, quoted |-> q]
Section(n) == [is |-> "section", name |-> n]
IniLines == {Section("A"), Section("b"), Value("k", "v", FALSE), Value("k", "v;w", TRUE),
             Value("k", "v;w", FALSE), [is |-> "error"]}
IniNames == {<<"A">>, <<"b">>, <<"a", "k">>, <<"b", "k">>}

----------------------------------------------------------------------------
(* The parts.                                                              *)

List == INSTANCE MessageList WITH
    Null <- Nil, head <- v1, tail <- v2, mb_count <- v3, next <- v4, prev <- v5,
    chains <- v6, ret <- v7

Hits == INSTANCE CacheHeap WITH
    max_size <- 6, MaxHits <- 1, min_or_max <- v1, heap <- v2, heap_idx <- v3,
    hit_count <- v4

Slabs == INSTANCE MemPool WITH
    slab_size <- 8, header <- 2, prealloc_slab_num <- 1, max_slabs <- 2,
    RequestSizes <- {1, 3, 5}, Null <- Nil, slabs <- v1, slab <- v2

Time == INSTANCE TimeValue WITH
    Second <- 3, Longest <- 3, Forever <- Nil, tv <- v1, exact <- v2

Cron == INSTANCE Crontab WITH
    Field <- CronField, Mday <- "mday", Wday <- "wday", Entries <- CronEntries, Handlers <- {"h"},
    Nodes <- CronNodes, Times <- CronTimes, MaxId <- 5, CancelsEnds <- FALSE,
    crontab_timers <- v1, next <- v2, prev <- v3, free <- v4, node <- v5, made <- v6,
    min_timer_id <- v7, minute <- v8, started <- v9, disturbed <- v10, hung <- v11

Ini == INSTANCE IniParser WITH
    Lower <- IniLower, Cut <- IniCut, Lines <- IniLines, MaxLines <- 3,
    Entries <- IniNames, DICTMINSZ <- 1, MaxSlots <- 4, NULL <- Nil, dict <- v1,
    map <- v2

Timers == INSTANCE MCTimerHeap WITH
    max_size <- 12, PreAlloc <- 9, Handlers <- {"h"}, Delays <- 0 .. 2,
    Intervals <- {0}, MaxTime <- 2, MaxTimers <- 7, CancelsOwn <- FALSE, None <- Nil,
    timer_heap <- v1, timer_heap_size <- v2, timer_ids <- v3, min_timer_id <- v4,
    now <- v5, upcall <- v6, aborted <- v7, done <- v8

----------------------------------------------------------------------------
AllInit ==
    \/ PartsInit
    \/ part = "list" /\ List!Init /\ v8 = Nil /\ v9 = Nil /\ v10 = Nil /\ v11 = Nil
    \/ part = "heap" /\ Hits!Init /\ v5 = Nil /\ v6 = Nil /\ v7 = Nil /\ v8 = Nil /\ v9 = Nil /\ v10 = Nil /\ v11 = Nil
    \/ part = "slabs" /\ Slabs!Init /\ v3 = Nil /\ v4 = Nil /\ v5 = Nil /\ v6 = Nil /\ v7 = Nil /\ v8 = Nil /\ v9 = Nil /\ v10 = Nil /\ v11 = Nil
    \/ part = "time" /\ Time!Init /\ v3 = Nil /\ v4 = Nil /\ v5 = Nil /\ v6 = Nil /\ v7 = Nil /\ v8 = Nil /\ v9 = Nil /\ v10 = Nil /\ v11 = Nil
    \/ part = "crontab" /\ Cron!Init
    \/ part = "ini" /\ Ini!Init /\ v3 = Nil /\ v4 = Nil /\ v5 = Nil /\ v6 = Nil /\ v7 = Nil /\ v8 = Nil /\ v9 = Nil /\ v10 = Nil /\ v11 = Nil
    \/ part = "timers" /\ Timers!HeapInit /\ v9 = Nil /\ v10 = Nil /\ v11 = Nil

AllNext ==
    \/ PartsNext
    \/ UNCHANGED part /\ part = "list" /\ List!Next /\ UNCHANGED <<v8, v9, v10, v11>>
    \/ UNCHANGED part /\ part = "heap" /\ Hits!Next /\ UNCHANGED <<v5, v6, v7, v8, v9, v10, v11>>
    \/ UNCHANGED part /\ part = "slabs" /\ Slabs!Next /\ UNCHANGED <<v3, v4, v5, v6, v7, v8, v9, v10, v11>>
    \/ UNCHANGED part /\ part = "time" /\ Time!Next /\ UNCHANGED <<v3, v4, v5, v6, v7, v8, v9, v10, v11>>
    \/ UNCHANGED part /\ part = "crontab" /\ Cron!Next
    \/ UNCHANGED part /\ part = "ini" /\ Ini!Next /\ UNCHANGED <<v3, v4, v5, v6, v7, v8, v9, v10, v11>>
    \/ UNCHANGED part /\ part = "timers" /\ Timers!Operation /\ UNCHANGED <<v9, v10, v11>>

(* A behaviour that starts in PartsInit is one of PartsSpec. *)
AllSpec == AllInit /\ [][AllNext]_state /\ WF_state(CallGoesOn)

----------------------------------------------------------------------------
(* Properties.                                                             *)

(* message_queue: the list with its next() and prev() fields implements the
   double-ended queue (ImplementsDeque of MessageList): every chain handed out
   is the one cut off that end, and nothing is lost or shared. *)
ImplementsDeque ==
    [][part = "list" => List!D!Next \/ UNCHANGED List!D!vars]_state

(* cache_heap, which decides what a cache evicts, the heap of timer_queue,
   mem_pool and the dictionary of iniparser: the arrays are heaps and every item
   knows its slot; memory is given to one owner at a time and all of it is
   accounted for; the slots are a map, and a saved dictionary loads as the same
   one (HeapOrdered, SlotsKnown, SlabsSound, SlabsOrdered, IsMap and SavedLoads). *)
StructuresSound ==
    /\ part = "heap" => Hits!HeapOrdered /\ Hits!SlotsKnown
    /\ part = "timers" => Timers!HeapOrdered
    /\ part = "slabs" => Slabs!SlabsSound /\ Slabs!SlabsOrdered
    /\ part = "ini" => Ini!IsMap /\ Ini!SavedLoads

(* The wait the reactor is given is exact to the unit; the walk of a crontab
   minute calls exactly the entries that mean it although handlers register
   others meanwhile, and the forms of a field mean what they are documented to
   (WaitIsExact, WalkIsComplete and CronMeaning). *)
TimesExact ==
    /\ part = "time" => Time!WaitIsExact
    /\ part = "crontab" => Cron!WalkIsComplete /\ Cron!CronMeaning

(* What a step may never do either: disturb memory of the pool that has an owner,
   or call a crontab timer that was cancelled (OwnersUndisturbed and
   CancelledNotCalled). *)
OthersUndisturbed ==
    [][/\ part = "slabs" => Slabs!OwnersChangeByOne \/ UNCHANGED Slabs!vars
       /\ part = "crontab" => Cron!CallsTheRegistered]_state
=============================================================================

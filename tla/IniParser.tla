------------------------------ MODULE IniParser ------------------------------
(***************************************************************************)
(* The dictionary (ndk/dictionary.c) and the ini files read into it and     *)
(* saved from it (ndk/iniparser.c), the configuration of the log manager.   *)
(* An entry is the sequence of the names that colons join: <<s>> stands for *)
(* section s, whose value is NULL, and <<s, k>> for key k of section s.     *)
(***************************************************************************)
EXTENDS Integers, Sequences, SequencesExt, FiniteSetsExt

CONSTANTS
    Lower,        \* Lower[n]: name n in lower case
    Cut,          \* Cut[v]: value v up to a comment sign
    Lines,        \* lines of ini files
    MaxLines,     \* bound: lines of a file
    Entries,      \* entries set and unset by the program
    DICTMINSZ,    \* slots of a new dictionary
    MaxSlots,     \* bound: slots
    NULL

VARIABLES
    dict,         \* the dictionary, NULL before the first and after a failed load
    map           \* what it should hold

vars == <<dict, map>>

----------------------------------------------------------------------------
(* dictionary.c                                                            *)

dictionary_new ==
    [key |-> [i \in 1 .. DICTMINSZ |-> NULL], val |-> [i \in 1 .. DICTMINSZ |-> NULL], n |-> 0]

Slots(d, e) == {i \in DOMAIN d.key : d.key[i] = e}

dictionary_get(d, e, def) == IF Slots(d, e) = {} THEN def ELSE d.val[Min(Slots(d, e))]

mem_double(s) == s \o [i \in 1 .. Len(s) |-> NULL]

\* Mutant: the first empty slot is taken before the key is looked for.
dictionary_set_first_slot(d, e, v) ==
    LET g == IF d.n = Len(d.key) THEN [d EXCEPT !.key = mem_double(@), !.val = mem_double(@)] ELSE d
        i == Min(Slots(g, NULL) \cup Slots(g, e))
    IN  [g EXCEPT !.key[i] = e, !.val[i] = v, !.n = IF g.key[i] = e THEN @ ELSE @ + 1]

\* dictionary_set: the value of a key that is there, else the first empty slot.
dictionary_set(d, e, v) ==
    IF Slots(d, e) # {} THEN [d EXCEPT !.val[Min(Slots(d, e))] = v]
    ELSE LET g == IF d.n = Len(d.key) THEN [d EXCEPT !.key = mem_double(@), !.val = mem_double(@)] ELSE d
             i == Min(Slots(g, NULL))
         IN  [g EXCEPT !.key[i] = e, !.val[i] = v, !.n = @ + 1]

dictionary_unset(d, e) ==
    IF Slots(d, e) = {} THEN d
    ELSE [d EXCEPT !.key[Min(Slots(d, e))] = NULL, !.val[Min(Slots(d, e))] = NULL, !.n = @ - 1]

----------------------------------------------------------------------------
(* iniparser.c                                                             *)

strlwc(e) == [i \in DOMAIN e |-> Lower[e[i]]]

iniparser_getstring(d, e, def) == dictionary_get(d, strlwc(e), def)

\* iniparser_line: what one line does to the section and the dictionary; a
\* value in quotes keeps its comment signs.  The result of dictionary_set
\* replaces the number of errors.
iniparser_line(st, l) ==
    CASE l.is = "section" ->
             [st EXCEPT !.section = Lower[l.name], !.errs = 0, !.dict = dictionary_set(@, <<Lower[l.name]>>, NULL)]
      [] l.is = "value" ->
             [st EXCEPT !.errs = 0,
                        !.dict = dictionary_set(@, <<st.section>> \o strlwc(l.key), IF l.quoted THEN l.text ELSE Cut[l.text])]
      [] l.is = "error" -> [st EXCEPT !.errs = @ + 1]
      [] OTHER -> st

\* iniparser_load: NULL after an error that was not forgotten, or if the last
\* line has no end.
iniparser_load(lines, ended) ==
    LET st == FoldLeft(iniparser_line, [dict |-> dictionary_new, section |-> "", errs |-> 0], lines)
    IN  IF st.errs # 0 \/ (lines # <<>> /\ ~ended) THEN NULL ELSE st.dict

\* The sections in the order of their slots: iniparser_getnsec, iniparser_getsecname.
SecSlots(d) == {i \in DOMAIN d.key : d.key[i] # NULL /\ Len(d.key[i]) = 1}
iniparser_getnsec(d) == Cardinality(SecSlots(d))

\* Mutant: the section after the one asked for.
iniparser_getsecname_next(d, n) ==
    LET at == {i \in SecSlots(d) : Cardinality({j \in SecSlots(d) : j <= i}) > n + 1}
    IN  IF at = {} THEN d.key[Max(SecSlots(d))][1] ELSE d.key[Min(at)][1]

iniparser_getsecname(d, n) ==
    d.key[Min({i \in SecSlots(d) : Cardinality({j \in SecSlots(d) : j <= i}) > n})][1]

Line(key, text) == [is |-> "value", key |-> key, text |-> text, quoted |-> FALSE]
Text(v) == IF v = NULL THEN "" ELSE v

\* iniparser_dump_ini: the sections, each with its keys; without sections, all
\* entries under their whole names.
iniparser_dump_ini(d) ==
    LET used == SelectSeq([i \in DOMAIN d.key |-> i], LAMBDA i : d.key[i] # NULL)
        Keys(s) == SelectSeq(used, LAMBDA i : Len(d.key[i]) > 1 /\ d.key[i][1] = s)
        Part(s) == <<[is |-> "section", name |-> s]>>
                   \o [k \in DOMAIN Keys(s) |-> Line(Tail(d.key[Keys(s)[k]]), Text(d.val[Keys(s)[k]]))]
    IN  IF iniparser_getnsec(d) < 1 THEN [k \in DOMAIN used |-> Line(d.key[used[k]], Text(d.val[used[k]]))]
        ELSE FlattenSeq([n \in 1 .. iniparser_getnsec(d) |-> Part(iniparser_getsecname(d, n - 1))])

----------------------------------------------------------------------------
(* The program loads files and changes entries.                            *)

\* What a file says: of the lines for an entry the last one counts.
SectionAt(lines, i) ==
    LET before == {j \in 1 .. i : lines[j].is = "section"}
    IN  IF before = {} THEN "" ELSE Lower[lines[Max(before)].name]
EntryAt(lines, i) ==
    IF lines[i].is = "section" THEN <<Lower[lines[i].name]>> ELSE <<SectionAt(lines, i)>> \o strlwc(lines[i].key)
ValueAt(l) == IF l.is = "section" THEN NULL ELSE IF l.quoted THEN l.text ELSE Cut[l.text]
Says(lines) ==
    LET defs == {i \in DOMAIN lines : lines[i].is \in {"section", "value"}}
    IN  [e \in {EntryAt(lines, i) : i \in defs} |->
            ValueAt(lines[Max({i \in defs : EntryAt(lines, i) = e})])]

Without(m, e) == [x \in DOMAIN m \ {e} |-> m[x]]
With(m, e, v) == [x \in DOMAIN m \cup {e} |-> IF x = e THEN v ELSE m[x]]

Init == dict = NULL /\ map = NULL

load(lines, ended) ==
    /\ dict = NULL
    /\ dict' = iniparser_load(lines, ended)
    /\ map' = IF dict' = NULL THEN NULL ELSE Says(lines)

iniparser_freedict == dict # NULL /\ dict' = NULL /\ map' = NULL

iniparser_set(e, v) ==
    /\ dict # NULL
    /\ dict.n = Len(dict.key) => Len(dict.key) < MaxSlots
    /\ dict' = dictionary_set(dict, strlwc(e), v) /\ map' = With(map, strlwc(e), v)

iniparser_unset(e) ==
    /\ dict # NULL
    /\ dict' = dictionary_unset(dict, strlwc(e)) /\ map' = Without(map, strlwc(e))

Next ==
    \/ \E lines \in UNION {[1 .. n -> Lines] : n \in 0 .. MaxLines}, ended \in BOOLEAN : load(lines, ended)
    \/ iniparser_freedict
    \/ \E e \in Entries, v \in DOMAIN Cut : Len(e) > 1 /\ iniparser_set(e, v)
    \/ \E e \in Entries : Len(e) = 1 /\ iniparser_set(e, NULL)
    \/ \E e \in Entries : iniparser_unset(e)

Spec == Init /\ [][Next]_vars

----------------------------------------------------------------------------
(* Properties.                                                             *)

\* The slots are a map: each key has one, the lookup finds what the file or the
\* last change said, and n is the number of keys, through growing, through holes
\* that unset leaves and through repeated sections and keys.
IsMap ==
    dict # NULL =>
        /\ \A e \in DOMAIN map \cup Entries :
               iniparser_getstring(dict, e, "def") = IF strlwc(e) \in DOMAIN map THEN map[strlwc(e)] ELSE "def"
        /\ dict.n = Cardinality(DOMAIN map)
        /\ dict.n = Cardinality({i \in DOMAIN dict.key : dict.key[i] # NULL})

\* "If the given entry can be found in the dictionary, it is modified to contain
\* the provided value.  If it cannot be found, -1 is returned." (iniparser.c:420-421
\* of iniparser_set, iniparser.h:217-218 of iniparser_setstring): no call on a
\* dictionary brings a new key.  dictionary_set adds the entry and returns 0.
SetFindsItsEntry ==
    dict # NULL /\ dict' # NULL
        => {dict'.key[i] : i \in DOMAIN dict'.key} \subseteq {dict.key[i] : i \in DOMAIN dict.key} \cup {NULL}
OnlyFoundEntriesAreSet == [][SetFindsItsEntry]_vars

\* A dictionary saved by iniparser_dump_ini ("a loadable ini file") loads as the
\* same dictionary, if every key's section is there and no value has a comment sign.
Savable(m) ==
    /\ \E e \in DOMAIN m : Len(e) = 1
    /\ \A e \in DOMAIN m : <<e[1]>> \in DOMAIN m
    /\ \A e \in DOMAIN m : Len(e) > 1 => m[e] \in DOMAIN Cut /\ Cut[m[e]] = m[e]

SavedLoads ==
    dict # NULL /\ Savable(map) =>
        LET again == iniparser_load(iniparser_dump_ini(dict), TRUE)
        IN  /\ again # NULL
            /\ \A e \in DOMAIN map : dictionary_get(again, e, "def") = map[e]
            /\ again.n = dict.n
=============================================================================

----------------------------- MODULE LogManager -----------------------------
(***************************************************************************)
(* ndk::log_manager with its loggers (ndk/log_manager.cpp, ndk/logger.h,   *)
(* ndk/logger.cpp): loggers are made once per module name and kept; every  *)
(* log call looks, at most once per check_config_interval, whether the     *)
(* configuration file was modified, and if so loads it, deletes outputs    *)
(* that it no longer has, and gives every logger a new module_entry and    *)
(* new pointers to outputs.  All of it runs under log_mutex_, except       *)
(* logger::shutdown(bool), which writes into the module_entry without it.  *)
(*                                                                         *)
(* A configuration is what the file says of modules (type, output, the     *)
(* negated outputs, length of a record; 0 if there is none) and of outputs *)
(* (mode); ok is FALSE for a file iniparser cannot load.                   *)
(***************************************************************************)
EXTENDS Integers, FiniteSets, FiniteSetsExt

CONSTANTS
    Modules, Ancestors,  \* module names, and the modules above each one
    Outputs,             \* names of outputs
    Configs,             \* the configurations the file may be given
    interval,            \* check_config_interval_
    DefaultLen,          \* 511
    MaxTime,             \* bound: the clock, in seconds
    MaxReloads,          \* bound: reloads
    None

VARIABLES
    file,         \* the configuration file: its contents (cfg) and st_mtime
    now,          \* the time in seconds
    last_check,   \* last_check_time_
    last_modify,  \* last_modify_time_
    ini,          \* ini_obj_: the configuration loaded, None if that failed
    loggers,      \* the list from root_node_, by module: module_entry_ (type,
                  \* outputs, len, born) and output_list_ (outs)
    output_list,  \* output_list_: name -> the output object
    max_len,      \* max_len_of_one_record_
    record_size,  \* the size of log_record_
    reloads,      \* configurations loaded so far
    toggling      \* a running logger::shutdown(bool), None if none

cfgVars == <<last_check, last_modify, ini>>
bufVars == <<max_len, record_size>>
vars == <<file, now, cfgVars, loggers, output_list, bufVars, reloads, toggling>>

\* An output object: what it writes to and when it was made.
Object(mode, k) == [mode |-> mode, born |-> k]

----------------------------------------------------------------------------
(* Reading a configuration.                                                *)

\* get_log_type and get_parent_log_type: a module has its ancestors' types too.
get_log_type(c, m) == UNION {c.type[a] : a \in {m} \cup Ancestors[m]}

\* get_log_output and get_parent_output: the outputs of the module and of its
\* ancestors, without those the module itself negates.
get_log_output(c, m) == UNION {c.output[a] : a \in {m} \cup Ancestors[m]} \ c.neg[m]

\* get_parent_max_len_of_one_record: the nearest ancestor that has a length.
get_log_len(c, m) ==
    LET given == {a \in {m} \cup Ancestors[m] : c.len[a] # 0}
        nearest == CHOOSE a \in given : \A b \in given : b = a \/ b \in Ancestors[a]
    IN  IF given = {} THEN DefaultLen ELSE c.len[nearest]

\* get_module_cfg_entry: nothing at all while no configuration is loaded.
get_module_cfg_entry(c, m, k) ==
    IF c = None THEN [type |-> {}, outputs |-> {}, len |-> DefaultLen, born |-> k]
    ELSE [type |-> get_log_type(c, m), outputs |-> get_log_output(c, m), len |-> get_log_len(c, m), born |-> k]

\* The outputs of an entry that the configuration does not shut down.
Wanted(c, entry) == IF c = None THEN {} ELSE {o \in entry.outputs : c.mode[o] # "shutdown"}

\* get_output_list: outputs that exist are updated, others are opened, which
\* fails for the outputs in bad; the loggers share the objects.
get_output_list(c, list, wanted, bad, k) ==
    [o \in DOMAIN list \cup (wanted \ bad) |-> IF o \in DOMAIN list THEN list[o] ELSE Object(c.mode[o], k)]

\* A logger with its entry and the outputs of it that could be opened.
Logger(entry, c, list) ==
    [entry |-> entry, outs |-> {<<o, list[o]>> : o \in Wanted(c, entry) \cap DOMAIN list}]

\* Mutant: an output whose mode changed is kept.
check_unused_output_by_name(c, list) == [o \in {o \in DOMAIN list : c.mode[o] # "shutdown"} |-> list[o]]

\* check_unused_output: an output that is shut down, gone or of another type is
\* deleted.
check_unused_output(c, list) == [o \in {o \in DOMAIN list : c.mode[o] = list[o].mode} |-> list[o]]

\* build_record_buffer: as long as the longest record of a logger there is; the
\* length it keeps for the next time is one less.
build_record_buffer(ls) ==
    LET longest == Max({max_len} \cup {ls[m].entry.len : m \in DOMAIN ls})
    IN  record_size' = longest + 1 /\ max_len' = longest - 1

----------------------------------------------------------------------------
(* Loading.                                                                *)

\* Mutant: loggers keep the pointers they have.
apply_config_keeps_outs(c, list, k) ==
    [m \in DOMAIN loggers |-> [entry |-> get_module_cfg_entry(c, m, k), outs |-> loggers[m].outs]]

\* apply_config: every logger gets its entry and its outputs anew.
apply_config(c, list, k) ==
    [m \in DOMAIN loggers |-> Logger(get_module_cfg_entry(c, m, k), c, list)]

AllWanted(c, k) == UNION {Wanted(c, get_module_cfg_entry(c, m, k)) : m \in DOMAIN loggers}

\* load_config, check_unused_output, apply_config, build_record_buffer.
Load(c, list, bad) ==
    IF ~c.ok
    THEN ini' = None /\ UNCHANGED <<loggers, output_list, bufVars, reloads>>
    ELSE /\ ini' = c
         /\ reloads' = reloads + 1
         /\ output_list' = get_output_list(c, list, AllWanted(c, reloads'), bad, reloads')
         /\ loggers' = apply_config(c, output_list', reloads')
         /\ build_record_buffer(loggers')

\* init: the program starts with a file it can read.
Init ==
    /\ \E c \in {c \in Configs : c.ok} : file = [cfg |-> c, mtime |-> 0] /\ ini = c
    /\ now = 0 /\ last_check = 0 /\ last_modify = 0
    /\ loggers = <<>> /\ output_list = <<>>
    /\ max_len = DefaultLen /\ record_size = DefaultLen + 2
    /\ reloads = 0 /\ toggling = None

\* update_config: at most one look per interval; a file with another time is
\* loaded.
update_config(bad) ==
    IF now - last_check < interval
    THEN UNCHANGED <<cfgVars, loggers, output_list, bufVars, reloads>>
    ELSE /\ last_check' = now
         /\ IF file.mtime = last_modify
            THEN UNCHANGED <<last_modify, ini, loggers, output_list, bufVars, reloads>>
            ELSE /\ last_modify' = file.mtime
                 /\ Load(file.cfg, check_unused_output(file.cfg, output_list), bad)

----------------------------------------------------------------------------
(* Operations.                                                             *)

\* log: the configuration is brought up to date; the record then goes to the
\* outputs of the logger unless it is shut down or not enabled for the type.
log(m, bad) ==
    /\ m \in DOMAIN loggers
    /\ update_config(bad)
    /\ UNCHANGED <<file, now, toggling>>

\* get_logger: the one there is, or a new one behind the others.
get_logger(m, bad) ==
    /\ m \notin DOMAIN loggers
    /\ LET entry == get_module_cfg_entry(ini, m, reloads)
       IN  /\ output_list' = get_output_list(ini, output_list, Wanted(ini, entry), bad, reloads)
           /\ loggers' = [n \in DOMAIN loggers \cup {m} |->
                             IF n = m THEN Logger(entry, ini, output_list') ELSE loggers[n]]
    /\ UNCHANGED <<file, now, cfgVars, bufVars, reloads, toggling>>

\* logger::shutdown(bool) reads module_entry_ and then changes the entry, which
\* a load on another thread may have deleted in between.
shutdown_reads(m, off) ==
    /\ m \in DOMAIN loggers /\ toggling = None
    /\ toggling' = [module |-> m, born |-> loggers[m].entry.born, off |-> off]
    /\ UNCHANGED <<file, now, cfgVars, loggers, output_list, bufVars, reloads>>

shutdown_writes ==
    /\ toggling # None
    /\ toggling' = None
    /\ LET m == toggling.module
       IN  loggers' = IF loggers[m].entry.born # toggling.born THEN loggers
                      ELSE [loggers EXCEPT ![m].entry.type =
                               IF toggling.off THEN @ \cup {"SHUTDOWN"} ELSE @ \ {"SHUTDOWN"}]
    /\ UNCHANGED <<file, now, cfgVars, output_list, bufVars, reloads>>

\* Somebody edits the file, in a later second than the last edit.
Edit(c) ==
    /\ now > file.mtime /\ reloads < MaxReloads
    /\ file' = [cfg |-> c, mtime |-> now]
    /\ UNCHANGED <<now, cfgVars, loggers, output_list, bufVars, reloads, toggling>>

Tick ==
    /\ now < MaxTime
    /\ now' = now + 1
    /\ UNCHANGED <<file, cfgVars, loggers, output_list, bufVars, reloads, toggling>>

Next ==
    \/ \E m \in Modules, bad \in SUBSET Outputs : log(m, bad)
    \/ \E m \in Modules, bad \in SUBSET Outputs : get_logger(m, bad)
    \/ \E m \in Modules, off \in BOOLEAN : shutdown_reads(m, off)
    \/ shutdown_writes
    \/ \E c \in Configs : Edit(c)
    \/ Tick

Spec == Init /\ [][Next]_vars

----------------------------------------------------------------------------
(* Properties.                                                             *)

\* Every output a logger writes to is one the manager still has: loads delete
\* outputs that loggers point to, and a load may fail half way.
OutputsAlive ==
    \A m \in DOMAIN loggers : \A p \in loggers[m].outs : p[1] \in DOMAIN output_list /\ output_list[p[1]] = p[2]

\* Loggers made before and after a load agree on the configuration: what a
\* logger is enabled for and where it writes is what its module and the modules
\* above it say in the configuration loaded last (SHUTDOWN may be the program's).
LoggersAgree ==
    ini # None =>
        \A m \in DOMAIN loggers :
            /\ loggers[m].entry.type \ {"SHUTDOWN"} = get_log_type(ini, m) \ {"SHUTDOWN"}
            /\ \A p \in loggers[m].outs : p[1] \in get_log_output(ini, m) /\ p[2].mode = ini.mode[p[1]]
=============================================================================

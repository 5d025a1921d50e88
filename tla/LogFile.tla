------------------------------- MODULE LogFile -------------------------------
(***************************************************************************)
(* ndk::log_to_file (ndk/log_to_file.cpp): a log file with a limit on its  *)
(* size and, if asked for, on its age, and rolloever_ older files behind   *)
(* it: name.1 is the youngest of them.  The caller holds log_mutex_.       *)
(* Sizes count in bytes, and the bytes ever written are numbered.  The     *)
(* program may end at any time and start again on the files it left.       *)
(***************************************************************************)
EXTENDS Integers, Sequences, SequencesExt

CONSTANTS
    Names,        \* file names, directory included
    OutputEntries,\* output_entries, each with name, size, rolloever and period
    Longest,      \* bound: bytes of a record
    MaxBytes,     \* bound: bytes written
    MaxClock,     \* bound: the clock
    MaxShort,     \* bound: how far interrupted writes take the size below 0
    None

VARIABLES
    disk,         \* disk[n][i]: bytes in file n (i = 0) or n.i, None if none
    entry,        \* *output_entry_, None while the program is down
    log_open,     \* log_handle_ is open, on the file entry names
    file_size,    \* current_file_size_
    last_period,  \* last_generate_period_file_time_
    clock,        \* the time
    written,      \* written[n]: all bytes ever written to n, in order
    interrupted   \* a write was interrupted since the size was last right

vars == <<disk, entry, log_open, file_size, last_period, clock, written, interrupted>>

Count == Len(FoldSet(LAMBDA n, all : all \o written[n], <<>>, Names))

Init ==
    /\ disk = [n \in Names |-> <<>>]
    /\ entry = None /\ log_open = FALSE /\ file_size = 0
    /\ last_period = 0 /\ clock = 0
    /\ written = [n \in Names |-> <<>>]
    /\ interrupted = FALSE

Openings == {"yes", "no directory", "no file"}

Contents(files) == IF 0 \in DOMAIN files THEN files[0] ELSE <<>>

\* Mutant: the current file is renamed before the older ones.
rolloever_files_current_first(files, e) ==
    LET renamed == [i \in (DOMAIN files \cup {1}) \ {0} |-> IF i = 1 /\ 0 \in DOMAIN files THEN files[0] ELSE files[i]]
    IN  IF 0 \notin DOMAIN files \/ e.rolloever < 2 THEN files
        ELSE [i \in {i \in 2 .. e.rolloever : i - 1 \in DOMAIN renamed} |-> renamed[i - 1]]

\* rolloever_files: name.i becomes name.(i+1), the last first, then the file
\* name.1; a name with no file behind it leaves the next one where it is.
rolloever_files(files, e) ==
    [i \in {i \in 1 .. e.rolloever : i - 1 \in DOMAIN files} \cup {i \in DOMAIN files : i >= e.rolloever} |->
        IF i <= e.rolloever /\ i - 1 \in DOMAIN files THEN files[i - 1] ELSE files[i]]

\* The file makes room for a new one: it becomes the first of the older ones,
\* or is removed where none are kept.
Rolled(files, e) ==
    IF e.rolloever > 0 THEN rolloever_files(files, e) ELSE [i \in DOMAIN files \ {0} |-> files[i]]

\* The result of open(O_CREAT | O_APPEND).
Opened(files) == [i \in DOMAIN files \cup {0} |-> IF i = 0 THEN Contents(files) ELSE files[i]]

\* Mutant: the size of a file that is there already is not looked up.
create_file_from_zero(e, opens) ==
    LET files == disk[e.name]
    IN  /\ log_open' = (opens = "yes")
        /\ file_size' = 0
        /\ interrupted' = interrupted
        /\ disk' = [disk EXCEPT ![e.name] = IF opens = "yes" THEN Opened(files) ELSE files]

\* create_file, after reset has closed the old one: a file that is there
\* already tells its size, and is rolled if it is full.  The size is not reset
\* for a file that is not there.  The directory or the file may not open.
create_file(e, opens) ==
    LET there == opens # "no directory" /\ 0 \in DOMAIN disk[e.name]
        size == IF there THEN Len(Contents(disk[e.name])) ELSE file_size
        full == there /\ size >= e.size
        files == IF full THEN Rolled(disk[e.name], e) ELSE disk[e.name]
    IN  /\ log_open' = (opens = "yes")
        /\ file_size' = IF full THEN 0 ELSE size
        /\ disk' = [disk EXCEPT ![e.name] = IF opens = "yes" THEN Opened(files) ELSE files]
        /\ interrupted' = (interrupted /\ ~there)

\* The program starts and opens its output.
open(e, opens) ==
    /\ entry = None
    /\ entry' = e
    /\ last_period' = clock
    /\ create_file(e, opens)
    /\ UNCHANGED <<clock, written>>

\* update_config: another name or period resets the output.
update_config(e, opens) ==
    /\ entry # None
    /\ entry' = e
    /\ IF e.period # entry.period \/ e.name # entry.name
       THEN create_file(e, opens)
       ELSE UNCHANGED <<disk, log_open, file_size, interrupted>>
    /\ UNCHANGED <<last_period, clock, written>>

\* log: a full file is rolled, or one whose period is over; the size is reset
\* only in the first case.  Then the record is written, as large as it is: all of
\* it, or as many of its bytes as a short write takes, and the rest is dropped.
\* An interrupted write is not repeated and takes one off the size, a full disk
\* drops the record, any other error closes the output.
Full == file_size >= entry.size
Over == entry.period > 0 /\ clock - last_period >= entry.period

log(works, outcome, n) ==
    /\ entry # None /\ log_open
    /\ Count + n <= MaxBytes
    /\ outcome = "EINTR" => file_size > -MaxShort
    /\ LET e == entry
           rolls == Full \/ Over
           files == IF rolls THEN Rolled(disk[e.name], e) ELSE disk[e.name]
           ready == IF rolls THEN works ELSE TRUE
           size == IF Full THEN 0 ELSE file_size
           ok == ready /\ outcome = "ok"
           bytes == [i \in 1 .. n |-> Count + i]
       IN  /\ disk' = [disk EXCEPT ![e.name] =
                  IF ~ready THEN files
                  ELSE IF ok THEN [Opened(files) EXCEPT ![0] = @ \o bytes] ELSE Opened(files)]
           /\ written' = IF ok THEN [written EXCEPT ![e.name] = @ \o bytes] ELSE written
           /\ file_size' = CASE ok -> size + n
                             [] ready /\ outcome = "EINTR" -> size - 1
                             [] OTHER -> size
           /\ log_open' = (ready /\ outcome # "error")
           /\ interrupted' = ((ready /\ outcome = "EINTR") \/ (interrupted /\ ~Full))
           /\ last_period' = IF ~Full /\ Over THEN clock ELSE last_period
    /\ UNCHANGED <<entry, clock>>

\* The program ends, in whatever way.
Crash ==
    /\ entry # None
    /\ entry' = None /\ log_open' = FALSE /\ file_size' = 0 /\ last_period' = 0 /\ interrupted' = FALSE
    /\ UNCHANGED <<disk, clock, written>>

Tick ==
    /\ clock < MaxClock
    /\ clock' = clock + 1
    /\ UNCHANGED <<disk, entry, log_open, file_size, last_period, written, interrupted>>

Next ==
    \/ \E e \in OutputEntries, opens \in Openings : open(e, opens)
    \/ \E e \in OutputEntries, opens \in Openings : update_config(e, opens)
    \/ \E works \in BOOLEAN, outcome \in {"ok", "EINTR", "ENOSPC", "error"}, n \in 1 .. Longest :
           log(works, outcome, n)
    \/ Crash
    \/ Tick

Spec == Init /\ [][Next]_vars

----------------------------------------------------------------------------
(* Properties.                                                             *)

\* The files of a name, the oldest first, hold the last of what was written to
\* it, each byte once, in order and without a gap: rolling drops only from the
\* old end, and only once all the older files are in use, through restarts,
\* failures to open and changes of configuration that leave their number alone.
KeepsTheNewest ==
    \A n \in Names :
        LET back == IF DOMAIN disk[n] = {} THEN 0 ELSE CHOOSE i \in DOMAIN disk[n] : \A j \in DOMAIN disk[n] : j <= i
            kept == FlattenSeq([k \in 1 .. (back + 1) |->
                        IF back + 1 - k \in DOMAIN disk[n] THEN disk[n][back + 1 - k] ELSE <<>>])
        IN  /\ IsSuffix(kept, written[n])
            /\ kept # written[n] => \A e \in OutputEntries : e.name = n => 1 .. e.rolloever \subseteq DOMAIN disk[n]

\* A record is only written to a file that was below its limit, also when the
\* program was restarted on it or its configuration changed, unless writes were
\* interrupted.  (It may take the file past the limit: see FileBounded.)
WritesWithin ==
    written' # written =>
        LET n == entry.name
            before == Len(disk'[n][0]) - (Len(written'[n]) - Len(written[n]))
        IN  before < entry.size \/ interrupted

\* A file does not outgrow its limit: not so, as the size is tested before the
\* write and not with it.
FileBounded == [][written' # written => Len(disk'[entry.name][0]) <= entry.size \/ interrupted]_vars
=============================================================================

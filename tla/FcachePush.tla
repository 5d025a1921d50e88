----------------------------- MODULE FcachePush -----------------------------
(* The push side of the fcache server (apps/fcache): http clients that the   *)
(* reactor thread opens, reads and deletes, the dispatch_data_task thread    *)
(* that sends them their files, and the aio threads that read these files.   *)
(* The reactor and the dispatch thread share dispatch_queue_ under           *)
(* dispatch_queue_mtx_, held for a whole round of dispatch_data; a transfer  *)
(* shares its buffers with the aio threads under its own buffer_mtx_, so one *)
(* step below is one stretch of code under that lock, or one send.  Byte     *)
(* counts are kept, bytes are not: a buffer is its size and the position in  *)
(* the file it was read from.                                                *)
EXTENDS Integers, Sequences, FiniteSets, SequencesExt

CONSTANTS Clients,       \* connections; a session id is never used twice
          Requests,      \* what clients may send: records as IsRequest says
          FileLen,       \* length of the one file asked for
          Block,         \* file_io_cache_mgr->block_size()
          Packet,        \* ONCE_TRANSFER_PACKET_SIZE
          Quantum,       \* bytes a client's bandwidth allows per round
          MaxBudget,     \* what they add up to before the clock resets them
          Concurrency,   \* g_concurrency_num
          PipeSize       \* notifications that fit in the reactor's pipe

(* A request: its method, whether its uri names a file with url= and bw=,    *)
(* its Range header (absent, two ranges, not a number, "-end", "begin-" or   *)
(* "begin-end"), whether its If-Modified-Since is absent or not a date; and  *)
(* what the server knows of the file: missing, uncompleted or completed.     *)
IsRequest(q) ==
  /\ q.method \in {"GET", "HEAD", "other"}
  /\ q.uri \in {"bad", "status", "noparams", "file"}
  /\ q.range \in {"absent", "many", "garbage", "suffix", "open", "closed"}
  /\ {q.begin, q.end} \subseteq Nat
  /\ q.since \in {"absent", "date", "nodate"}
  /\ q.file \in {"missing", "uncompleted", "completed"}

ASSUME PushAssumption ==
  /\ \A q \in Requests : IsRequest(q)
  /\ {FileLen, Block, Packet, Quantum, MaxBudget} \subseteq Nat \ {0}
  /\ {Concurrency, PipeSize} \subseteq Nat

VARIABLES client,   \* life of the http_client object of a connection
          session,  \* ids in push_sessionmgr
          payload,  \* g_payload
          dispatch_queue,  \* the clients whose transfers are dispatched
          job,      \* the flags and the budget of a queued job
          agent,    \* the transfer_agent of a client
          aio,      \* its read: in the aio queue or running
          orphan,   \* clients whose agent was deleted with that read pending
          notes,    \* NOTIFY_DELETE_CLIENT events in the reactor's pipe
          disp      \* the dispatch thread: where it is in svc

push_vars == <<client, session, payload, dispatch_queue, job, agent, aio, orphan, notes, disp>>

NoAgent == [kind |-> "none"]
NoJob == [stopped |-> FALSE, closing |-> FALSE, budget |-> 0]
Null == -1                       \* a buffer pointer that is 0

SmallerOf(a, b) == IF a < b THEN a ELSE b

(* The two agents http_client chooses between. *)
mem_cache_transfer(r) ==
  [kind |-> "mem", begin |-> r[1], len |-> r[2] - r[1] + 1, sent |-> 0]

serial_file_transfer(r) ==
  [kind |-> "serial", begin |-> r[1], len |-> r[2] - r[1] + 1, sent |-> 0,
   off |-> r[1], eof |-> FALSE, err |-> FALSE,
   buf |-> Null, pos |-> 0, out |-> 0,      \* buffer_, its place, send_bytes_
   res |-> Null, rpos |-> 0, want |-> 0]    \* reserve_buffer_

(* start_read: allocate the reserve buffer and queue a read at offset_.  The *)
(* size is cut to what has not been SENT yet; a negative one is an enormous  *)
(* size_t, which pread refuses.                                              *)
start_read(a) ==
  [a EXCEPT !.res = 0, !.rpos = a.off, !.want = SmallerOf(Block, a.len - a.sent)]

PushInit ==
  /\ client = [c \in Clients |-> "none"]
  /\ session = {} /\ payload = 0 /\ dispatch_queue = <<>>
  /\ job = [c \in Clients |-> NoJob]
  /\ agent = [c \in Clients |-> NoAgent]
  /\ aio = [c \in Clients |-> "none"]
  /\ orphan = {} /\ notes = {}
  /\ disp = [pc |-> "top", idle |-> TRUE, i |-> 1, stopped |-> 0, sent |-> 0]

Unlocked == disp.pc \in {"top", "wait"}      \* dispatch_queue_mtx_ is free

(* start_read of c's agent a; start_aio may refuse, and the reserve buffer   *)
(* is freed again.                                                           *)
start_aio(c, a) ==
  \/ /\ agent' = [agent EXCEPT ![c] = start_read(a)]
     /\ aio' = [aio EXCEPT ![c] = "queued"]
  \/ /\ agent' = [agent EXCEPT ![c] = a]
     /\ UNCHANGED aio

(* An aio thread that takes the read of an agent that was deleted reads into *)
(* a block that went back to buffer_manager and calls the agent: what the    *)
(* program does from then on is undefined, and its behaviour ends here.      *)
Defined == \A c \in orphan : aio[c] # "running"

-----------------------------------------------------------------------------
(* The reactor thread. *)

(* transfer_agent::close: a read that still waits is cancelled, one that     *)
(* runs is not and makes close fail.                                         *)
close_fails(c) == aio[c] = "running"

forget(c) == /\ dispatch_queue' = RemoveFirst(dispatch_queue, c)
             /\ job' = [job EXCEPT ![c] = NoJob]
             /\ agent' = [agent EXCEPT ![c] = NoAgent]
             /\ aio' = [aio EXCEPT ![c] = "none"]

(* Variant of delete_client without the check of close: the read goes on.    *)
delete_client_at_once(c) ==
  IF c \notin ToSet(dispatch_queue) THEN UNCHANGED <<dispatch_queue, job, agent, aio>>
  ELSE /\ dispatch_queue' = RemoveFirst(dispatch_queue, c)
       /\ job' = [job EXCEPT ![c] = NoJob]
       /\ agent' = [agent EXCEPT ![c] = NoAgent]
       /\ UNCHANGED aio

delete_client(c) ==
  IF c \notin ToSet(dispatch_queue) THEN UNCHANGED <<dispatch_queue, job, agent, aio>>
  ELSE IF close_fails(c)
  THEN /\ job' = [job EXCEPT ![c].closing = TRUE]
       /\ UNCHANGED <<dispatch_queue, agent, aio>>
  ELSE forget(c)

(* ~http_client of a client that was given a session: it leaves the books,   *)
(* and its job goes.                                                         *)
leave(c) ==
  /\ Unlocked
  /\ payload' = payload - 1
  /\ session' = session \ {c}
  /\ client' = [client EXCEPT ![c] = "gone"]

(* Variant of destroy: the job is left to the dispatch thread. *)
destroy_keeps_job(c) == leave(c) /\ UNCHANGED <<dispatch_queue, job, agent, aio>>

destroy(c) == leave(c) /\ delete_client(c)

(* open: a connection is accepted, registered and given 3 seconds. *)
Open(c) ==
  /\ client[c] = "none"
  /\ client' = [client EXCEPT ![c] = "recv"]
  /\ UNCHANGED <<session, payload, dispatch_queue, job, agent, aio, orphan, notes, disp>>

(* handle_timeout of a client without a request, and handle_input when the   *)
(* peer hangs up or fills recv_buff_ without completing its request.         *)
NoRequest(c) ==
  /\ client[c] = "recv"
  /\ client' = [client EXCEPT ![c] = "gone"]
  /\ UNCHANGED <<session, payload, dispatch_queue, job, agent, aio, orphan, notes, disp>>

(* get_range: the status and the range.  "-end" is taken for "0-end".        *)
get_range(q) ==
  CASE q.range = "absent"  -> [code |-> 200, begin |-> 0, end |-> -1]
    [] q.range = "many"    -> [code |-> 501, begin |-> 0, end |-> -1]
    [] q.range = "garbage" -> [code |-> 416, begin |-> 0, end |-> -1]
    [] q.range = "suffix"  -> [code |-> 206, begin |-> 0, end |-> q.end]
    [] q.range = "open"    -> [code |-> 206, begin |-> q.begin, end |-> -1]
    [] q.range = "closed"  -> [code |-> 206, begin |-> q.begin, end |-> q.end]

(* The range, its end filled in from the length of the file. *)
asked(q) == LET g == get_range(q)
            IN  <<g.begin, IF g.end = -1 THEN FileLen - 1 ELSE g.end>>

(* handle_data and the start of handle_request: the request is answered with *)
(* an error, or with the status page, before it is given a session.          *)
get_uri(q) == q.uri # "bad"
parse_params(q) == q.uri # "noparams"

handle_data(q) ==
  \/ q.method = "other"
  \/ ~get_uri(q) \/ q.uri = "status" \/ ~parse_params(q)
  \/ payload > Concurrency
  \/ get_range(q).code \notin {200, 206}

(* check_modified takes a date it can parse for a missing one; one it cannot *)
(* parse leaves the time to compare with undefined.                          *)
check_modified(q) == q.file = "completed" /\ q.since = "nodate"

(* The rest of handle_request up to the choice of an agent: requests of a    *)
(* known file that are answered and closed without a transfer.               *)
declined(q) ==
  \/ q.method = "HEAD"
  \/ q.file = "uncompleted"
  \/ get_range(q).code = 206 /\ asked(q)[2] = asked(q)[1] - 1

Refuse(c, q) ==
  /\ client[c] = "recv" /\ handle_data(q)
  /\ client' = [client EXCEPT ![c] = "gone"]
  /\ UNCHANGED <<session, payload, dispatch_queue, job, agent, aio, orphan, notes, disp>>

(* An answer that closes the client once it has a session: not modified,     *)
(* declined, or a pull that fails at once.                                   *)
Decline(c, q) ==
  /\ client[c] = "recv" /\ ~handle_data(q)
  /\ q.file = "missing" \/ check_modified(q) \/ declined(q)
  /\ destroy(c)
  /\ UNCHANGED <<orphan, notes, disp>>

(* handle_request finds no file: the client waits for handle_pull_file. *)
Miss(c, q) ==
  /\ client[c] = "recv" /\ ~handle_data(q) /\ q.file = "missing"
  /\ client' = [client EXCEPT ![c] = "got"]
  /\ session' = session \union {c}
  /\ UNCHANGED <<payload, dispatch_queue, job, agent, aio, orphan, notes, disp>>

Served(q) == ~handle_data(q) /\ q.file # "missing" /\ ~declined(q)

(* Neither the cache has room for the file nor does it open. *)
OpenFails(c, q) ==
  /\ client[c] = "recv" /\ Served(q)
  /\ destroy(c)
  /\ UNCHANGED <<orphan, notes, disp>>

(* The first read of a serial transfer has been queued by open when          *)
(* response_to_client fails: its agent is deleted all the same, its read     *)
(* stays in the queue.  (An agent in memory has none, nor has one whose read *)
(* was refused.)                                                             *)
ResponseFails(c, q) ==
  /\ client[c] = "recv" /\ Served(q)
  /\ leave(c)
  /\ \/ aio' = [aio EXCEPT ![c] = "queued"] /\ orphan' = orphan \union {c}
     \/ UNCHANGED <<aio, orphan>>
  /\ UNCHANGED <<dispatch_queue, job, agent, notes, disp>>

push_job(c) == Unlocked /\ dispatch_queue' = Append(dispatch_queue, c)

(* Variant of handle_start_transfer_data: the caller counts as well. *)
start_counts_twice(c) == push_job(c) /\ payload' = payload + 2

(* handle_start_transfer_data: queue the job, then count the client. *)
handle_start_transfer_data(c) == push_job(c) /\ payload' = payload + 1

Transfer(c, q) ==
  /\ client[c] = "recv" /\ Served(q)
  /\ client' = [client EXCEPT ![c] = "got"]
  /\ session' = session \union {c}
  /\ handle_start_transfer_data(c)
  /\ \/ /\ agent' = [agent EXCEPT ![c] = mem_cache_transfer(asked(q))]
        /\ UNCHANGED aio
     \/ start_aio(c, serial_file_transfer(asked(q)))
  /\ disp' = IF disp.pc = "wait" THEN [disp EXCEPT !.pc = "begin"] ELSE disp
  /\ UNCHANGED <<job, orphan, notes>>

(* handle_input of a client that has its answer: hung up, or spoke again. *)
HangUp(c) ==
  /\ client[c] = "got"
  /\ destroy(c)
  /\ UNCHANGED <<orphan, notes, disp>>

(* reactor_event_handler::handle_msg, NOTIFY_DELETE_CLIENT. *)
handle_msg(c) ==
  /\ c \in notes
  /\ notes' = notes \ {c}
  /\ IF c \in session
     THEN destroy(c)
     ELSE UNCHANGED <<client, session, payload, dispatch_queue, job, agent, aio>>
  /\ UNCHANGED <<orphan, disp>>

-----------------------------------------------------------------------------
(* The aio threads: asynch_file_io as AsynchFileIO shows it to behave. *)

AioStart(c) ==
  /\ aio[c] = "queued"
  /\ aio' = [aio EXCEPT ![c] = "running"]
  /\ UNCHANGED <<client, session, payload, dispatch_queue, job, agent, orphan, notes, disp>>

(* Variant of handle_aio_read: the offset moves too far. *)
aio_read_skips(a, closing, n, error) ==
  IF closing THEN a
  ELSE IF error THEN [a EXCEPT !.err = TRUE]
  ELSE IF n = 0 THEN [a EXCEPT !.eof = TRUE]
  ELSE [a EXCEPT !.off = @ + n + 1, !.res = n]

(* handle_aio_read with n bytes, or with an error; nothing but the id        *)
(* changes when a close waits for it.                                        *)
handle_aio_read(a, closing, n, error) ==
  IF closing THEN a
  ELSE IF error THEN [a EXCEPT !.err = TRUE]
  ELSE IF n = 0 THEN [a EXCEPT !.eof = TRUE]
  ELSE [a EXCEPT !.off = @ + n, !.res = n]

AioDone(c) ==
  /\ aio[c] = "running"
  /\ aio' = [aio EXCEPT ![c] = "none"]
  /\ LET a == agent[c]
         left == IF a.off > FileLen THEN 0 ELSE FileLen - a.off
     IN  \E error \in BOOLEAN :
           /\ a.want < 0 => error
           /\ agent' = [agent EXCEPT ![c] =
                handle_aio_read(a, job[c].closing, SmallerOf(a.want, left), error)]
  /\ UNCHANGED <<client, session, payload, dispatch_queue, job, orphan, notes, disp>>

-----------------------------------------------------------------------------
(* The dispatch thread. *)

Goto(d, pc) == [d EXCEPT !.pc = pc]
Next_i(d) == [d EXCEPT !.pc = "visit", !.i = @ + 1]

(* svc: wait for a job when the last round left the task idle. *)
svc ==
  /\ disp.pc = "top"
  /\ disp' = Goto(disp, IF disp.idle /\ dispatch_queue = <<>> THEN "wait" ELSE "begin")
  /\ UNCHANGED <<client, session, payload, dispatch_queue, job, agent, aio, orphan, notes>>

RoundBegins ==
  /\ disp.pc = "begin"
  /\ disp' = [disp EXCEPT !.pc = "visit", !.i = 1, !.stopped = 0]
  /\ UNCHANGED <<client, session, payload, dispatch_queue, job, agent, aio, orphan, notes>>

RoundEnds ==
  /\ disp.pc = "visit" /\ disp.i > Len(dispatch_queue)
  /\ disp' = [disp EXCEPT !.pc = "top", !.i = 1, !.stopped = 0,
                          !.idle = disp.stopped = Len(dispatch_queue)]
  /\ UNCHANGED <<client, session, payload, dispatch_queue, job, agent, aio, orphan, notes>>

(* Variant of CheckPending: the job is passed over like a stopped one. *)
pending_ignored(c) ==
  /\ disp' = Next_i(disp)
  /\ UNCHANGED <<client, session, payload, dispatch_queue, job, agent, aio, orphan, notes>>

(* A job whose client is gone: ask its agent again whether it may go. *)
CheckPending(c) ==
  /\ IF close_fails(c)
     THEN disp' = Next_i(disp) /\ UNCHANGED <<dispatch_queue, job, agent, aio>>
     ELSE forget(c) /\ UNCHANGED disp
  /\ UNCHANGED <<client, session, payload, orphan, notes>>

(* More than a second has gone by: the job begins a new one with nothing.    *)
out_of_bandwidth(c) ==
  /\ ~job[c].stopped
  /\ job' = [job EXCEPT ![c].budget = 0]
  /\ disp' = Next_i(disp)

Visit ==
  /\ disp.pc = "visit" /\ disp.i <= Len(dispatch_queue)
  /\ LET c == dispatch_queue[disp.i]
     IN  IF job[c].closing THEN CheckPending(c)
         ELSE /\ UNCHANGED <<client, session, payload, dispatch_queue, agent, aio, orphan, notes>>
              /\ \/ /\ job[c].stopped
                    /\ disp' = [Next_i(disp) EXCEPT !.stopped = @ + 1]
                    /\ UNCHANGED job
                 \/ out_of_bandwidth(c)
                 \/ /\ ~job[c].stopped /\ job[c].budget + Quantum <= MaxBudget
                    /\ job' = [job EXCEPT ![c].budget = @ + Quantum]
                    /\ disp' = [disp EXCEPT !.pc = "transfer", !.sent = 0]

(* What dispatch_data does with a result of transfer_data. *)
After(c, sent, total, result) ==
  LET end == total = agent[c].len \/ result < 0
  IN  /\ job' = [job EXCEPT ![c].budget = @ - sent, ![c].stopped = end]
      /\ disp' = IF end \/ result = 0 THEN [Next_i(disp) EXCEPT !.sent = 0]
                 ELSE [disp EXCEPT !.pc = "transfer", !.sent = 0]
      /\ \/ end /\ Cardinality(notes) < PipeSize /\ notes' = notes \union {c}
         \/ /\ ~end \/ Cardinality(notes) >= PipeSize  \* notify failed: logged
            /\ UNCHANGED notes

(* transfer_data up to the first send: the buffers are shared, so locked. *)
FetchBuffer ==
  /\ disp.pc = "transfer"
  /\ UNCHANGED <<client, session, payload, dispatch_queue, orphan>>
  /\ LET c == dispatch_queue[disp.i]
         a == agent[c]
     IN  \/ /\ job[c].budget <= 0
            /\ disp' = Next_i(disp)
            /\ UNCHANGED <<job, agent, aio, notes>>
         \/ /\ job[c].budget > 0
            /\ \/ a.kind = "mem"
               \/ a.kind = "serial" /\ a.buf # Null
            /\ disp' = Goto(disp, "send")
            /\ UNCHANGED <<job, agent, aio, notes>>
         \/ /\ job[c].budget > 0 /\ a.kind = "serial" /\ a.buf = Null
            /\ \/ /\ aio[c] # "none"
                  /\ After(c, 0, a.sent, 0)
                  /\ UNCHANGED <<agent, aio>>
               \/ /\ aio[c] = "none" /\ a.res = Null
                  /\ start_aio(c, a)
                  /\ After(c, 0, a.sent, 0)
               \/ /\ aio[c] = "none" /\ a.res # Null
                  /\ agent' = [agent EXCEPT ![c] =
                       [a EXCEPT !.buf = a.res, !.pos = a.rpos, !.out = 0,
                                  !.res = Null, !.rpos = 0, !.want = 0]]
                  /\ disp' = Goto(disp, "send")
                  /\ UNCHANGED <<job, aio, notes>>

MayGoOn(c, a) ==
  /\ disp.sent < job[c].budget /\ a.sent < a.len
  /\ a.kind = "serial" => a.out < a.buf

Left(a) == IF a.kind = "mem" THEN a.len - a.sent ELSE a.buf - a.out

(* One send of at most a packet; it may take less, block or fail. *)
Send ==
  /\ disp.pc = "send"
  /\ UNCHANGED <<client, session, payload, dispatch_queue, aio, orphan>>
  /\ LET c == dispatch_queue[disp.i]
         a == agent[c]
     IN  /\ MayGoOn(c, a)
         /\ \/ \E n \in 1..SmallerOf(Packet, Left(a)) :
                 /\ agent' = [agent EXCEPT ![c] =
                      IF a.kind = "mem" THEN [a EXCEPT !.sent = @ + n]
                      ELSE [a EXCEPT !.sent = @ + n, !.out = @ + n]]
                 /\ disp' = [disp EXCEPT !.sent = @ + n]
                 /\ UNCHANGED <<job, notes>>
            \/ \E result \in {0, -1} :
                 /\ After(c, disp.sent, a.sent, result)
                 /\ UNCHANGED agent

Drained(a) == IF a.out = a.buf THEN [a EXCEPT !.buf = Null, !.pos = 0, !.out = 0] ELSE a

(* The rest of transfer_data: drop an empty buffer, prefetch the next.  A    *)
(* read error is returned as a positive number, which dispatch_data takes    *)
(* for progress.                                                             *)
Prefetch ==
  /\ disp.pc = "send"
  /\ UNCHANGED <<client, session, payload, dispatch_queue, orphan>>
  /\ LET c == dispatch_queue[disp.i]
         a == agent[c]
     IN  /\ ~MayGoOn(c, a)
         /\ IF a.kind = "mem" \/ a.sent = a.len \/ a.out < a.buf \div 2
            THEN /\ After(c, disp.sent, a.sent, disp.sent)
                 /\ UNCHANGED <<agent, aio>>
            ELSE LET e == Drained(a)
                     over == a.eof \/ a.err
                     read == ~over /\ aio[c] = "none" /\ a.res = Null
                             /\ a.off - a.begin # a.len
                 IN  /\ IF read THEN start_aio(c, e)
                        ELSE agent' = [agent EXCEPT ![c] = e] /\ UNCHANGED aio
                     /\ After(c, disp.sent, a.sent,
                              IF over /\ e.buf = Null
                              THEN IF a.err THEN 1 ELSE -1 ELSE disp.sent)

-----------------------------------------------------------------------------
ReactorThread == \E c \in Clients :
  \/ Open(c) \/ NoRequest(c) \/ HangUp(c) \/ handle_msg(c)
  \/ \E q \in Requests : Refuse(c, q) \/ Decline(c, q) \/ Miss(c, q)
                         \/ OpenFails(c, q) \/ ResponseFails(c, q) \/ Transfer(c, q)
AioThread == \E c \in Clients : AioStart(c) \/ AioDone(c)
DispatchThread == svc \/ RoundBegins \/ RoundEnds \/ Visit \/ FetchBuffer \/ Send \/ Prefetch

PushNext == Defined /\ (ReactorThread \/ AioThread \/ DispatchThread)
PushSpec == PushInit /\ [][PushNext]_push_vars

(* The dispatch thread runs and every read is served (AllServed of           *)
(* AsynchFileIO); peers and the reactor need do nothing.                     *)
FairPushSpec == /\ PushSpec /\ WF_push_vars(Defined /\ DispatchThread)
                /\ \A c \in Clients : /\ WF_push_vars(Defined /\ AioStart(c))
                                      /\ WF_push_vars(Defined /\ AioDone(c))

-----------------------------------------------------------------------------
(* Every byte is sent from its own place: what a serial transfer holds in    *)
(* its buffer continues what it has sent, whatever reads were short, early,  *)
(* late or repeated after an error (serial_file_transfer::transfer_data).    *)
InOrder ==
  \A c \in Clients : agent[c].kind = "serial" /\ agent[c].buf # Null =>
    agent[c].pos + agent[c].out = agent[c].begin + agent[c].sent

(* dispatch_data uses client_ of every job that is not being closed, so such *)
(* a job never outlives its http_client.                                     *)
ClientOutlivesJob ==
  \A c \in ToSet(dispatch_queue) : job[c].closing \/ client[c] = "got"

(* Whoever deletes the agent of a job has waited for its read, in whichever  *)
(* order the peer's hang-up, the end of the transfer and the disk come: the  *)
(* only reads whose agent is gone are those of clients that could not be     *)
(* answered, and these agents never had a job (http_client.cpp:425).         *)
AgentOutlivesRead ==
  \A c \in Clients : aio[c] # "none" =>
    \/ agent[c].kind = "serial"
    \/ c \in orphan /\ client[c] = "gone" /\ c \notin ToSet(dispatch_queue)

(* handle_aio_read is called on agents that exist (AgentOutlivesRead without *)
(* its exception: the code breaks it).                                       *)
ReadsHaveAgents ==
  \A c \in Clients : aio[c] # "none" => agent[c].kind = "serial"

(* g_payload never counts a client that is not being served, so requests are *)
(* not refused by a server that has room.  (It may count less: it goes down  *)
(* for every session and up for transfers only.)                             *)
PayloadNotOver ==
  payload <= Cardinality({c \in ToSet(dispatch_queue) : client[c] = "got"})

(* The three threads use each other's objects only while they exist, but for *)
(* the agents of clients that could not be answered.                         *)
UsesTheLiving == ClientOutlivesJob /\ AgentOutlivesRead

(* What is served is in order, and a client is counted at most once.         *)
ServedRight == InOrder /\ PayloadNotOver

(* The job of a client that is gone is released, unless the program comes to *)
(* the read of a deleted agent first.                                        *)
Released ==
  \A c \in Clients : (client[c] = "gone" /\ c \in ToSet(dispatch_queue))
                        ~> (c \notin ToSet(dispatch_queue) \/ ~Defined)

(* response_to_client promised Content-Length bytes: no more are sent.       *)
SentWithinContent ==
  \A c \in Clients : agent[c].kind # "none" /\ agent[c].len >= 0 => agent[c].sent <= agent[c].len
=============================================================================

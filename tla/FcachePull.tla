----------------------------- MODULE FcachePull -----------------------------
(* The pull side of fcache: a file the server does not have is fetched from  *)
(* its origin by a pull_http_agent on the reactor thread, which writes it    *)
(* into pipe_buffers of one chunk each; the pull_file_transfer of the client *)
(* that asked for it reads them on the dispatch thread; the last one to      *)
(* close a pipe_buffer has it written to disk by an aio thread, which frees  *)
(* it.  The transfer makes the next pipe_buffer and resumes the agent, which *)
(* suspends itself when a buffer is full.  One request for a whole file.     *)
EXTENDS Integers, FiniteSets

CONSTANTS Length,    \* length of the file
          Chunk,     \* PIPE_CHUNK_SIZE
          RecvBuff,  \* size of the agent's recv_buff_
          PipeSize   \* notifications that fit in the reactor's pipe

(* A read never overfills the first chunk, as 32k never overfill 1M: the     *)
(* model is for RecvBuff <= Chunk.                                           *)

VARIABLES client,   \* the client and its push session exist
          pulling,  \* the url is in queue_pull_sessionmgr
          agent,    \* the pull_http_agent
          step,     \* where its handle_content is
          susp,     \* the reactor has suspended its handle
          xfer,     \* the pull_file_transfer
          pipe,     \* the pipe_buffer of each chunk
          disk,     \* chunks marked in the bitmap of the file_info
          notes,    \* NOTIFY_RESUME_HANDLE events in the reactor's pipe
          fault,    \* what went wrong: see Fine
          stray     \* chunks with a second write queued after a short one

vars == <<client, pulling, agent, step, susp, xfer, pipe, disk, notes, fault, stray>>

Chunks == 0..(Length \div Chunk)
None == -1
Lesser(a, b) == IF a < b THEN a ELSE b

NoPipe == [live |-> FALSE, size |-> 0, wr |-> 0, ref |-> 0, io |-> FALSE]
NoXfer == [life |-> "none"]

Init ==
  /\ client = TRUE /\ pulling = FALSE /\ step = "idle" /\ susp = FALSE
  /\ agent = [life |-> "none", chunk |-> 0, pb |-> None, recv |-> 0,
              rd |-> 0, wr |-> 0, first |-> TRUE]
  /\ xfer = NoXfer
  /\ pipe = [k \in Chunks |-> NoPipe]
  /\ disk = {} /\ notes = 0 /\ fault = "none" /\ stray = {}

(* An assertion failed, an object that is gone was called, or a null pointer *)
(* was used: what the program does from then on is undefined, and its        *)
(* behaviour ends.                                                           *)
Fault(what) == fault' = what
Fine == fault = "none"

-----------------------------------------------------------------------------
(* pipe_buffer *)

(* A new buffer of a chunk or of what remains, opened by its maker. *)
create_pipe_buffer(remain) ==
  [live |-> TRUE, size |-> Lesser(Chunk, remain), wr |-> 0, ref |-> 1, io |-> FALSE]

pipe_write(p, n) == [p EXCEPT !.wr = Lesser(@ + n, p.size)]
pipe_read(p, offset) == IF p.wr <= offset THEN 0 ELSE p.wr - offset

(* insert_pipe_buffer asserts that the chunk is one of the file's, unused. *)
insert_pipe_buffer(pipes, k) == k \in Chunks /\ ~pipes[k].live

(* Variant of close: the buffer is freed at once. *)
close_frees(p) ==
  {IF p.ref > 0 /\ p.wr = p.size THEN NoPipe ELSE [p EXCEPT !.ref = @ - 1]}

(* close: the last one has a buffer that holds anything written to disk.     *)
(* When start_aio refuses, the buffer keeps a count that nobody stands for.  *)
pipe_close(p) ==
  IF p.ref > 1 THEN {[p EXCEPT !.ref = @ - 1]}
  ELSE IF p.wr = 0 THEN {NoPipe}
  ELSE {[p EXCEPT !.ref = 0, !.io = TRUE], p}

(* The pipes when one of them is closed. *)
close_pipe(pipes, k) == {[pipes EXCEPT ![k] = p] : p \in pipe_close(pipes[k])}

(* handle_aio_write: all of the buffer was written, filled or not; or the    *)
(* write failed and the chunk stays unmarked; or it was short: the chunk is  *)
(* marked, a second write of the rest is queued, if start_aio takes it, and  *)
(* the buffer is freed under it.                                             *)
handle_aio_write(k) ==
  /\ pipe[k].io
  /\ \/ UNCHANGED <<disk, stray>>
     \/ /\ disk' = disk \union {k}
        /\ stray' \in {stray, stray \union {k}}
  /\ pipe' = [pipe EXCEPT ![k] = IF pipe[k].ref = 0 THEN NoPipe ELSE [pipe[k] EXCEPT !.io = FALSE]]
  /\ UNCHANGED <<client, pulling, agent, step, susp, xfer, notes, fault>>

(* An aio thread takes up such a second write, from the memory of the buffer *)
(* that was freed, and calls its handle_aio_write.                           *)
SecondWrite(k) ==
  /\ k \in stray
  /\ Fault("handle_aio_write")
  /\ UNCHANGED <<client, pulling, agent, step, susp, xfer, pipe, disk, notes, stray>>

-----------------------------------------------------------------------------
(* The reactor thread: the client *)

(* ~http_client: delete_client deletes the transfer, which closes its pipe.  *)
(* The dispatch thread is not inside transfer_data then.                     *)
DropClient(pipes) ==
  /\ client' = FALSE
  /\ IF xfer.life = "live"
     THEN /\ xfer' = [xfer EXCEPT !.life = "deleted", !.pb = None, !.buf = 0, !.out = 0, !.pc = "start"]
          /\ IF xfer.pb = None THEN pipe' = pipes ELSE pipe' \in close_pipe(pipes, xfer.pb)
     ELSE UNCHANGED xfer /\ pipe' = pipes

Outside == xfer.life = "live" => xfer.pc = "start"    \* the queue's lock is free

HangUp ==
  /\ client /\ step = "idle" /\ Outside
  /\ DropClient(pipe)
  /\ UNCHANGED <<pulling, agent, step, susp, disk, notes, fault, stray>>

(* handle_pull_file: a bad url, a pull of the same url or a full disk leave  *)
(* no trace but a refused client; otherwise an agent connects.               *)
handle_pull_file ==
  /\ agent.life = "none" /\ client
  /\ pulling' = TRUE
  /\ agent' = [agent EXCEPT !.life = "connecting"]
  /\ UNCHANGED <<client, step, susp, xfer, pipe, disk, notes, fault, stray>>

(* open: the agent is connected, registered, and has sent its request. *)
AgentOpen ==
  /\ agent.life = "connecting"
  /\ agent' = [agent EXCEPT !.life = "waiting"]
  /\ UNCHANGED <<client, pulling, step, susp, xfer, pipe, disk, notes, fault, stray>>

(* queue_pull_sessionmgr::remove asserts that the url is there. *)
remove_url == /\ pulling' = FALSE
              /\ IF pulling THEN UNCHANGED fault ELSE Fault("remove")

(* handle_close before the header: handle_pull_file_failed. *)
PullFails ==
  /\ agent.life \in {"connecting", "waiting"} /\ Outside
  /\ agent' = [agent EXCEPT !.life = "gone"]
  /\ remove_url
  /\ IF client THEN DropClient(pipe) ELSE UNCHANGED <<client, xfer, pipe>>
  /\ UNCHANGED <<step, susp, disk, notes, stray>>

(* handle_pull_file_ok takes the url off the queue and answers the client,   *)
(* if it is still there; a response that fails, and HEAD, close the client.  *)
handle_pull_file_ok(made) ==
  /\ IF client THEN remove_url ELSE UNCHANGED <<pulling, fault>>
  /\ \/ client /\ DropClient(made)
     \/ UNCHANGED <<client, xfer>> /\ pipe' = made

(* Variant of handle_response: a failed answer leaves pull_info_ok_ at 0. *)
response_forgets ==
  /\ agent.life = "waiting" /\ Outside
  /\ handle_pull_file_ok(pipe)
  /\ UNCHANGED <<agent, step, susp, disk, notes, stray>>

(* handle_close after the header: the agent goes, its pipe stays open. *)
Gone == agent' = [agent EXCEPT !.life = "gone", !.pb = None]

(* handle_response of a good header: the client is answered whatever became  *)
(* of it, and the first pipe_buffer made; or there is no content, or no file *)
(* to write it to, and the agent goes.  Any other header is PullFails.       *)
handle_response ==
  /\ agent.life = "waiting" /\ Outside
  /\ \/ /\ handle_pull_file_ok([pipe EXCEPT ![0] = create_pipe_buffer(Length)])
        /\ agent' = [agent EXCEPT !.life = "content", !.pb = 0, !.chunk = 1]
     \/ handle_pull_file_ok(pipe) /\ Gone
  /\ UNCHANGED <<step, susp, disk, notes, stray>>

-----------------------------------------------------------------------------
(* The reactor thread: the agent's content *)

Content == agent.life = "content" /\ ~susp

(* handle_input reads what the origin has sent, be it more than the Length   *)
(* it announced, at most what recv_buff_ has room for; if it has none it     *)
(* goes on with what is there.                                               *)
handle_input ==
  /\ Content /\ step = "idle"
  /\ \/ /\ agent.wr = RecvBuff
        /\ UNCHANGED agent
     \/ \E n \in 1..RecvBuff - agent.wr : agent' = [agent EXCEPT !.wr = @ + n]
  /\ step' = "write"
  /\ UNCHANGED <<client, pulling, susp, xfer, pipe, disk, notes, fault, stray>>

(* The origin hangs up: what recv_buff_ still holds is dropped. *)
ClosedByPeer ==
  /\ Content /\ step = "idle" /\ agent.wr < RecvBuff
  /\ Gone
  /\ UNCHANGED <<client, pulling, step, susp, xfer, pipe, disk, notes, fault, stray>>

(* The first half of handle_content: find the pipe, which asserts that there *)
(* is such a chunk, and fill it.                                             *)
WritePipe ==
  /\ step = "write"
  /\ UNCHANGED <<client, pulling, susp, xfer, disk, notes, stray>>
  /\ LET k == IF agent.pb = None THEN agent.chunk ELSE agent.pb
         n == Lesser(agent.wr - agent.rd, pipe[k].size - pipe[k].wr)
         rd == agent.rd + n
     IN  IF k \notin Chunks
         THEN Fault("find_pipe_buffer") /\ UNCHANGED <<agent, step, pipe>>
         ELSE IF ~pipe[k].live
         THEN Gone /\ step' = "idle" /\ UNCHANGED <<pipe, fault>>
         ELSE /\ UNCHANGED fault
              /\ pipe' = [pipe EXCEPT ![k] =
                  [pipe_write(pipe[k], n) EXCEPT !.ref = IF agent.pb = None THEN @ + 1 ELSE @]]
              /\ agent' = [agent EXCEPT !.pb = k, !.recv = @ + n,
                             !.chunk = IF agent.pb = None THEN @ + 1 ELSE @,
                             !.rd = IF rd = agent.wr THEN 0 ELSE rd,
                             !.wr = IF rd = agent.wr THEN 0 ELSE @]
              /\ step' = IF rd = agent.wr THEN "all" ELSE "full"

(* A pipe that took less than there was: close it, suspend the handle.  With *)
(* the client gone the agent goes too.                                       *)
PipeFull ==
  /\ step = "full"
  /\ pipe' \in close_pipe(pipe, agent.pb)
  /\ IF client THEN /\ agent' = [agent EXCEPT !.pb = None]
                    /\ susp' = TRUE /\ step' = "suspended"
               ELSE Gone /\ step' = "idle" /\ UNCHANGED susp
  /\ UNCHANGED <<client, pulling, xfer, disk, notes, fault, stray>>

Start(x) == IF x.life = "live" THEN xfer' = [x EXCEPT !.run = TRUE] /\ UNCHANGED fault
            ELSE UNCHANGED xfer /\ Fault("start_transfer")

(* pull_file_transfer and its open, which takes the first pipe. *)
NewTransfer ==
  [life |-> "live", run |-> TRUE, pc |-> "start", chunk |-> 0, pb |-> 0, rd |-> 0,
   buf |-> 0, out |-> 0, pos |-> 0, sent |-> 0, remain |-> Length]

(* The second half of handle_content: the first package starts the transfer  *)
(* of a client that is there; a suspension starts it again; the end of the   *)
(* content closes the pipe and starts it once more.  The job is queued when  *)
(* no transfer is there, and start_transfer takes the lock of state_ only:   *)
(* the dispatch thread may be anywhere in transfer_data.                     *)
FirstPackage(over) ==
  IF client
  THEN /\ xfer' = NewTransfer
       /\ pipe' = IF over THEN pipe ELSE [pipe EXCEPT ![0].ref = @ + 1]
       /\ agent' = [agent EXCEPT !.first = FALSE,
                      !.life = IF over THEN "gone" ELSE @,
                      !.pb = IF over THEN None ELSE @]
       /\ UNCHANGED fault
  ELSE Gone /\ UNCHANGED <<xfer, pipe, fault>>

Package(over) ==
  /\ agent' = [agent EXCEPT !.life = IF over THEN "gone" ELSE @,
                            !.pb = IF over THEN None ELSE @]
  /\ IF over THEN pipe' \in close_pipe(pipe, agent.pb) ELSE UNCHANGED pipe
  /\ IF over \/ step = "suspended" THEN Start(xfer) ELSE UNCHANGED <<xfer, fault>>

(* The content ended in a pipe that took less than there was, so that it is  *)
(* closed already and pipe_buffer_ is null; in a first package it is the     *)
(* open of the transfer that asserts the pipe.                               *)
ClosesNull(over) == over /\ step = "suspended"

Proceed ==
  /\ step \in {"all", "suspended"}
  /\ LET over == agent.recv = Length
     IN  IF ClosesNull(over)
         THEN Fault("pipe_buffer_") /\ UNCHANGED <<agent, step, xfer, pipe>>
         ELSE /\ step' = "idle"
              /\ IF agent.first THEN FirstPackage(over) ELSE Package(over)
  /\ UNCHANGED <<client, pulling, susp, disk, notes, stray>>

(* handle_msg, NOTIFY_RESUME_HANDLE, while the pull session exists. *)
resume ==
  /\ notes > 0 /\ step = "idle"
  /\ notes' = notes - 1
  /\ susp' = FALSE
  /\ UNCHANGED <<client, pulling, agent, step, xfer, pipe, disk, fault, stray>>

-----------------------------------------------------------------------------
(* The dispatch thread: transfer_data of a job that is not stopped *)

Sending(pc) == xfer.life = "live" /\ xfer.pc = pc

TransferData ==
  /\ Sending("start") /\ xfer.run /\ xfer.sent < Length
  /\ IF xfer.pb = None
     THEN Fault("transfer_data") /\ UNCHANGED xfer
     ELSE /\ xfer' = [xfer EXCEPT !.pc = IF xfer.buf = 0 THEN "read" ELSE "send"]
          /\ UNCHANGED fault
  /\ UNCHANGED <<client, pulling, agent, step, susp, pipe, disk, notes, stray>>

(* read_pipe_buffer, first half: copy what there is. *)
ReadPipe ==
  /\ Sending("read")
  /\ LET n == pipe_read(pipe[xfer.pb], xfer.rd)
     IN  xfer' = IF n > 0
                 THEN [xfer EXCEPT !.buf = n, !.out = 0, !.rd = @ + n, !.pc = "start",
                                   !.pos = xfer.chunk * Chunk + xfer.rd]
                 ELSE [xfer EXCEPT !.pc = "eof"]
  /\ UNCHANGED <<client, pulling, agent, step, susp, pipe, disk, notes, fault, stray>>

(* read_pipe_buffer, second half: a full pipe is closed, the next one made   *)
(* and the agent resumed; a notification that fails undoes it.               *)
NextPipe ==
  /\ Sending("eof")
  /\ LET p == pipe[xfer.pb]
         remain == xfer.remain - p.size
         k == xfer.chunk + 1
     IN  IF p.wr < p.size
         THEN xfer' = [xfer EXCEPT !.pc = "start"] /\ UNCHANGED <<pipe, notes, fault>>
         ELSE /\ xfer' = [xfer EXCEPT !.pc = "start", !.run = FALSE, !.rd = 0, !.chunk = k,
                            !.remain = remain,
                            !.pb = IF notes < PipeSize THEN k ELSE None]
              /\ notes' = IF notes < PipeSize THEN notes + 1 ELSE notes
              /\ \E closed \in close_pipe(pipe, xfer.pb) :
                   IF insert_pipe_buffer(closed, k)
                   THEN /\ pipe' = IF notes < PipeSize
                                   THEN [closed EXCEPT ![k] = create_pipe_buffer(remain)]
                                   ELSE closed
                        /\ UNCHANGED fault
                   ELSE Fault("insert_pipe_buffer") /\ UNCHANGED pipe
  /\ UNCHANGED <<client, pulling, agent, step, susp, disk, stray>>

(* A send of part or all of the buffer, or one that fails or blocks. *)
SendData ==
  /\ Sending("send")
  /\ \E n \in 0..(xfer.buf - xfer.out) :
       LET sent == xfer.sent + n
           done == sent = Length
           empty == xfer.out + n = xfer.buf
       IN  /\ xfer' = [xfer EXCEPT !.sent = sent,
                         !.out = IF empty THEN 0 ELSE @ + n,
                         !.buf = IF empty THEN 0 ELSE @,
                         !.pos = IF empty THEN 0 ELSE @,
                         !.run = ~done,
                         !.pb = IF done THEN None ELSE @,
                         !.pc = IF empty /\ ~done THEN "read" ELSE "start"]
           /\ IF done THEN pipe' \in close_pipe(pipe, xfer.pb) ELSE UNCHANGED pipe
  /\ UNCHANGED <<client, pulling, agent, step, susp, disk, notes, fault, stray>>

-----------------------------------------------------------------------------
Next ==
  /\ Fine
  /\ \/ HangUp \/ handle_pull_file \/ AgentOpen \/ PullFails \/ handle_response
     \/ handle_input \/ ClosedByPeer \/ WritePipe \/ PipeFull \/ Proceed \/ resume
     \/ TransferData \/ ReadPipe \/ NextPipe \/ SendData
     \/ \E k \in Chunks : handle_aio_write(k) \/ SecondWrite(k)

Spec == Init /\ [][Next]_vars

-----------------------------------------------------------------------------
(* A pipe_buffer that the agent or the transfer points to exists and counts  *)
(* them, and one that is being written to disk is nobody's: whatever the     *)
(* order in which client, origin and disk end, no closed buffer is used by   *)
(* either, up to the first fault.  (An aio thread may: see StrayWrites.)     *)
PipeHeld ==
  \A k \in Chunks :
    LET holders == Cardinality({o \in {"agent", "xfer"} :
                     IF o = "agent" THEN agent.pb = k
                     ELSE xfer.life = "live" /\ xfer.pb = k})
    IN  /\ holders > 0 => pipe[k].live
        /\ pipe[k].live => holders <= pipe[k].ref
        /\ pipe[k].io => pipe[k].ref = 0

(* What was received is not dropped before the disk was tried: a pipe_buffer *)
(* that holds anything is freed when its write is over, by nobody else.  (Of *)
(* a short write the rest is not in the file: see StrayWrites.)              *)
FreesTheWritten == \A k \in Chunks : pipe[k].live /\ ~pipe'[k].live => pipe[k].wr = 0 \/ pipe[k].io
FreedWhenWritten == [][FreesTheWritten]_vars

(* queue_pull_sessionmgr::remove never misses its url: of the failure and    *)
(* the success of a pull exactly one takes it off, and only once.            *)
UrlRemovedOnce == fault # "remove"

(* A write to disk has its pipe_buffer, and a chunk is marked in the bitmap  *)
(* when all of it was written: what a short write breaks, as its second      *)
(* write is queued, the chunk marked and the buffer deleted.                 *)
StrayWrites == \A k \in stray : pipe[k].live /\ k \notin disk

(* The agent closes a pipe_buffer that it has, although an origin may send   *)
(* more than it announced.                                                   *)
ClosesItsPipe == fault # "pipe_buffer_"

(* A pipe_buffer that nobody holds is on its way to the disk: what a refusal *)
(* of start_aio breaks, and an agent that goes (Gone).                       *)
NoPipeForgotten ==
  \A k \in Chunks : pipe[k].live =>
    agent.pb = k \/ (xfer.life = "live" /\ xfer.pb = k) \/ pipe[k].io

(* The client receives the file: what the transfer is about to send is what  *)
(* comes next.  "ensure pipe buffer is empty" (pull_file_transfer.cpp:142).  *)
PullInOrder == xfer.life = "live" /\ xfer.buf > 0 => xfer.pos + xfer.out = xfer.sent

(* start_transfer is called on a transfer that exists, although the chunk is *)
(* downloaded "even if client closed" (pull_http_agent.cpp:235).             *)
CallsALiveTransfer == fault # "start_transfer"
=============================================================================

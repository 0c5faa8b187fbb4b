------------------------------- MODULE AccessLog -------------------------------
(***************************************************************************)
(* The way of a log record from packet_ringbuf to the access log: the      *)
(* worker thread of AccessLogWriter (with libbpf's ring_buffer__poll), its *)
(* buffer, the bounded queue and the single thread of the spdlog pool, and *)
(* the part of main() that stops them.  xdp_filter stays attached all the  *)
(* while and goes on producing records.                                    *)
(***************************************************************************)
EXTENDS PacketRing

CONSTANTS
  BufferSize,  \* DEFAULT_LOG_ACCESS_BUFFER_SIZE
  QueueSize,   \* slots of the spdlog queue (8192), which blocks when full
  PollMax      \* records one ring_buffer__poll may take (INT_MAX)

ASSUME LogAssumption ==
  BufferSize \in Nat \ {0} /\ QueueSize \in Nat \ {0} /\ PollMax \in Nat \ {0}

VARIABLES
  worker,   \* where the worker thread is in process()
  after,    \* where flush() returns to
  cnt,      \* records taken by the present ring_buffer__poll
  buffer,   \* BufferContext::buffer
  flushed,  \* entries of buffer that flush() has handed to the logger
  expired,  \* more than timeout_ms have passed since lastWrite
  queue,    \* entries queued for the spdlog thread
  exiting,  \* AccessLogWriter::exiting
  main      \* where main() is in its shutdown sequence

vars == <<ring, worker, after, cnt, buffer, flushed, expired, queue, exiting, main>>
others == <<exiting, main>>

Workers == {"none", "start", "loop", "poll", "process", "advance", "check",
            "flush", "final", "free", "exited"}

TypeOK ==
  /\ RingTypeOK
  /\ worker \in Workers
  /\ after \in {"advance", "loop", "free"}
  /\ cnt \in 0 .. PollMax
  /\ buffer \in Seq(Records) /\ Len(buffer) <= BufferSize
  /\ flushed \in 0 .. Len(buffer)
  /\ expired \in BOOLEAN
  /\ queue \in Seq(Records) /\ Len(queue) <= QueueSize
  /\ exiting \in BOOLEAN
  /\ main \in {"running", "join", "drain", "done"}

\* startLogListener: the thread may have failed to start.
Init ==
  /\ RingInit
  /\ worker \in {"start", "none"}
  /\ after = "loop" /\ cnt = 0
  /\ buffer = <<>> /\ flushed = 0 /\ expired = FALSE
  /\ queue = <<>>
  /\ exiting = FALSE /\ main = "running"

-----------------------------------------------------------------------------
(* The worker thread: AccessLogWriter::process. *)

\* getLogger or ring_buffer__new may fail: the thread ends at once.
Start ==
  /\ worker = "start"
  /\ worker' \in {"loop", "exited"}
  /\ UNCHANGED <<ring, after, cnt, buffer, flushed, expired, queue, others>>

Loop ==
  /\ worker = "loop"
  /\ worker' = IF exiting THEN "final" ELSE "poll"
  /\ UNCHANGED <<ring, after, cnt, buffer, flushed, expired, queue, others>>

\* epoll_wait: ready at once when the ring holds a record, even a busy one;
\* timed out or interrupted when it does not; or failed, which ends the loop.
Poll ==
  /\ worker = "poll"
  /\ \/ worker' = IF ring = <<>> THEN "check" ELSE "process"
     \/ worker' = "final"
  /\ cnt' = 0
  /\ UNCHANGED <<ring, after, buffer, flushed, expired, queue, others>>

\* Mutant: > instead of >= in the test of the buffer size.
handle_log_event_late ==
  /\ worker = "process" /\ Readable
  /\ buffer' = Append(buffer, ring[1])
  /\ IF Len(buffer') > BufferSize \/ expired
     THEN worker' = "flush" /\ after' = "advance"
     ELSE worker' = "advance" /\ UNCHANGED after
  /\ UNCHANGED <<ring, cnt, flushed, expired, queue, others>>

\* ringbuf_process_ring calls handle_log_event for a submitted record; the
\* record keeps its place in the ring until the callback has returned.  Its
\* catch clauses are for running out of memory, which is not modelled.
handle_log_event ==
  /\ worker = "process" /\ Readable
  /\ buffer' = Append(buffer, ring[1])
  /\ IF Len(buffer') >= BufferSize \/ expired
     THEN worker' = "flush" /\ after' = "advance"
     ELSE worker' = "advance" /\ UNCHANGED after
  /\ UNCHANGED <<ring, cnt, flushed, expired, queue, others>>

\* Mutant: no limit on the records one call takes.
AdvanceUnlimited ==
  /\ worker = "advance"
  /\ ring' = Tail(ring)
  /\ worker' = "process"
  /\ UNCHANGED <<after, cnt, buffer, flushed, expired, queue, others>>

\* Mutant: consumer_pos is not stored.
AdvanceForgets ==
  /\ worker = "advance"
  /\ cnt' = cnt + 1
  /\ worker' = IF cnt' >= PollMax THEN "check" ELSE "process"
  /\ UNCHANGED <<ring, after, buffer, flushed, expired, queue, others>>

\* consumer_pos moves on; at most PollMax records per call.
Advance ==
  /\ worker = "advance"
  /\ ring' = Tail(ring)
  /\ cnt' = cnt + 1
  /\ worker' = IF cnt' >= PollMax THEN "check" ELSE "process"
  /\ UNCHANGED <<after, buffer, flushed, expired, queue, others>>

\* The ring is empty, or its head is busy.
ProcessEnds ==
  /\ worker = "process" /\ ~Readable
  /\ worker' = "check"
  /\ UNCHANGED <<ring, after, cnt, buffer, flushed, expired, queue, others>>

\* Mutant: no flush after the poll, only in the callback.
CheckNoFlush ==
  /\ worker = "check"
  /\ worker' = "loop"
  /\ UNCHANGED <<ring, after, cnt, buffer, flushed, expired, queue, others>>

Check ==
  /\ worker = "check"
  /\ IF expired /\ buffer # <<>>
     THEN worker' = "flush" /\ after' = "loop"
     ELSE worker' = "loop" /\ UNCHANGED after
  /\ UNCHANGED <<ring, cnt, buffer, flushed, expired, queue, others>>

\* Mutant: the loop ends without a flush.
FinalNoFlush ==
  /\ worker = "final"
  /\ worker' = "free"
  /\ UNCHANGED <<ring, after, cnt, buffer, flushed, expired, queue, others>>

\* After the loop: flush what is buffered, then ring_buffer__free.
Final ==
  /\ worker = "final"
  /\ IF buffer # <<>> THEN worker' = "flush" /\ after' = "free"
                      ELSE worker' = "free" /\ UNCHANGED after
  /\ UNCHANGED <<ring, cnt, buffer, flushed, expired, queue, others>>

Free ==
  /\ worker = "free"
  /\ worker' = "exited"
  /\ UNCHANGED <<ring, after, cnt, buffer, flushed, expired, queue, others>>

\* flush: logger->info for each entry, blocking while the queue is full.
FlushEntry ==
  /\ worker = "flush" /\ flushed < Len(buffer)
  /\ Len(queue) < QueueSize
  /\ queue' = Append(queue, buffer[flushed + 1])
  /\ flushed' = flushed + 1
  /\ UNCHANGED <<ring, worker, after, cnt, buffer, expired, others>>

\* Mutant: the buffer is not cleared.
FlushKeeps ==
  /\ worker = "flush" /\ flushed = Len(buffer)
  /\ flushed' = 0 /\ expired' = FALSE
  /\ worker' = after
  /\ UNCHANGED <<ring, after, cnt, buffer, queue, others>>

FlushEnds ==
  /\ worker = "flush" /\ flushed = Len(buffer)
  /\ buffer' = <<>> /\ flushed' = 0 /\ expired' = FALSE
  /\ worker' = after
  /\ UNCHANGED <<ring, after, cnt, queue, others>>

process ==
  \/ Start \/ Loop \/ Poll \/ handle_log_event \/ Advance \/ ProcessEnds
  \/ Check \/ Final \/ Free \/ FlushEntry \/ FlushEnds

-----------------------------------------------------------------------------
(* The other actors. *)

\* The spdlog thread writes the oldest queued entry to the file.
PoolWrite ==
  /\ queue # <<>>
  /\ queue' = Tail(queue)
  /\ UNCHANGED <<ring, worker, after, cnt, buffer, flushed, expired, others>>

Expire ==
  /\ ~expired
  /\ expired' = TRUE
  /\ UNCHANGED <<ring, worker, after, cnt, buffer, flushed, queue, others>>

\* xdp_filter, until main() detaches it on return.
Produce ==
  /\ main # "done"
  /\ \E c \in CPUs :
       \/ ~InFlight(c) /\ ~RingFull /\ \E ip \in IPs : reserve(c, ip)
       \/ InFlight(c) /\ \E v \in Verdicts : submit(c, v)
  /\ UNCHANGED <<worker, after, cnt, buffer, flushed, expired, queue, others>>

\* A signal has arrived: stopLogListener, in two steps.
StopLogListener ==
  /\ main = "running"
  /\ exiting' = TRUE /\ main' = "join"
  /\ UNCHANGED <<ring, worker, after, cnt, buffer, flushed, expired, queue>>

Join ==
  /\ main = "join" /\ worker \in {"none", "exited"}
  /\ main' = "drain"
  /\ UNCHANGED <<ring, worker, after, cnt, buffer, flushed, expired, queue, exiting>>

\* spdlog::shutdown waits for the pool to work off its queue.
Shutdown ==
  /\ main = "drain" /\ queue = <<>>
  /\ main' = "done"
  /\ UNCHANGED <<ring, worker, after, cnt, buffer, flushed, expired, queue, exiting>>

Finished == main = "done" /\ UNCHANGED vars

Next == process \/ PoolWrite \/ Expire \/ Produce
        \/ StopLogListener \/ Join \/ Shutdown \/ Finished

\* Threads are scheduled, time passes and main() goes on once a join is
\* possible.  Neither traffic nor a signal is ever certain.
Fairness == /\ WF_vars(process) /\ WF_vars(PoolWrite) /\ WF_vars(Expire)
            /\ WF_vars(Join) /\ WF_vars(Shutdown)

Spec == Init /\ [][Next]_vars /\ Fairness

-----------------------------------------------------------------------------
(* Properties. *)

\* What has not reached the file: queued, then buffered, then in the ring.
\* A record whose callback has run is in the buffer and still in the ring.
Pending ==
  queue \o SubSeq(buffer, flushed + 1, Len(buffer))
        \o (IF worker = "advance" \/ (worker = "flush" /\ after = "advance")
            THEN Tail(ring) ELSE ring)

Fifo == INSTANCE PacketRing WITH ring <- Pending

\* Ring, buffer and queue together are one queue in reservation order: no
\* record is lost, written twice or overtaken on its way to the file, through
\* any interleaving of producers, flushes, poll errors and shutdown.
LogIsFifo == Fifo!FifoSpec

\* When main() is past spdlog::shutdown, every record the worker took from
\* the ring is in the file.
NothingHeldBack == main = "done" => queue = <<>> /\ buffer = <<>>

\* stopLogListener and shutdown end, however much traffic keeps coming in.
StopTerminates == main = "join" ~> main = "done"

\* A buffered entry is handed over without waiting for more traffic.
BufferFlushed == buffer # <<>> ~> buffer = <<>>

\* While the worker lives, a full ring with a submitted head gets room again.
RingRelieved ==
  RingFull /\ Readable ~> ~RingFull \/ worker \in {"none", "exited"}
=============================================================================

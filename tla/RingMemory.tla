------------------------------ MODULE RingMemory ------------------------------
(***************************************************************************)
(* packet_ringbuf as memory: the pages that the kernel's producers (the    *)
(* bpf_ringbuf_* helpers called by xdp_filter) and libbpf's consumer       *)
(* (ringbuf.c) share without a common lock.  Addresses count 4-byte words. *)
(* Positions only grow and are taken modulo the size of the ring, so that  *)
(* records wrap around its end: both sides map the data pages twice.       *)
(*                                                                         *)
(* The consumer publishes consumer_pos with smp_store_release and goes on  *)
(* with smp_load_acquire, which a processor may perform first: what the    *)
(* kernel reads as consumer_pos lags behind the consumer's own cons_pos.   *)
(* The abstract queue is the one of PacketRing, which XdpFilter and        *)
(* AccessLog are built on; the limit of one poll, its errors and the end   *)
(* of the thread are in AccessLog.                                         *)
(***************************************************************************)
EXTENDS Integers, Sequences

CONSTANTS
  CPUs, IPs,
  Words,       \* max_entries of packet_ringbuf in words (2^22)
  BusyBit,     \* BPF_RINGBUF_BUSY_BIT
  MaxRecords   \* bound: records ever reserved

SampleLen == 3  \* struct packet_logs: ip, bytes, is_passed
HeaderLen == 2  \* BPF_RINGBUF_HDR_SZ: len, pg_off

ASSUME MemoryAssumption ==
  /\ IPs \subseteq Nat
  /\ Words \in Nat /\ Words > 6
  /\ BusyBit \in Nat /\ BusyBit > SampleLen
  /\ MaxRecords \in Nat

VARIABLES
  mem,           \* the data pages
  producer_pos,  \* written by the kernel
  consumer_pos,  \* written by libbpf, as the kernel sees it
  cpu,           \* CPU -> where it is between reserve and submit
  log,           \* CPU -> position of the record it has reserved
  reader,        \* where the access-log thread is
  cons_pos, prod_pos, got_new_data,  \* locals of ringbuf_process_ring
  ready,         \* the ring is on the ready list of the epoll instance
  written,       \* history: the records in the order of their reservation
  delivered      \* history: the samples handle_log_event was given

kernelVars == <<producer_pos, cpu, log, written>>
readerVars == <<reader, cons_pos, prod_pos, got_new_data, delivered>>
vars == <<mem, consumer_pos, ready, kernelVars, readerVars>>

Samples == [cpu : CPUs, ip : IPs, st : {"busy", "DROP", "PASS"}]

TypeOK ==
  /\ mem \in [0 .. Words - 1 -> Nat]
  /\ {producer_pos, consumer_pos, cons_pos, prod_pos} \subseteq Nat
  /\ cpu \in [CPUs -> {"idle", "fill", "judge", "submit", "wakeup"}]
  /\ log \in [CPUs -> Nat]
  /\ reader \in {"add", "poll", "process", "head", "sample", "store"}
  /\ got_new_data \in BOOLEAN /\ ready \in BOOLEAN
  /\ written \in Seq(Samples)
  /\ delivered \in Seq([ip : IPs, is_passed : {0, 1}])

Init ==
  /\ mem = [w \in 0 .. Words - 1 |-> 0]
  /\ producer_pos = 0 /\ consumer_pos = 0
  /\ cpu = [c \in CPUs |-> "idle"]
  /\ log = [c \in CPUs |-> 0]
  /\ reader = "add" /\ cons_pos = 0 /\ prod_pos = 0 /\ got_new_data = FALSE
  /\ ready = FALSE
  /\ written = <<>> /\ delivered = <<>>

-----------------------------------------------------------------------------

Word(pos) == mem[pos % Words]

Store(pos, v) == mem' = [mem EXCEPT ![pos % Words] = v]

\* Mutant: the length of the header is forgotten.
roundup_len_bare(len) == (((len % BusyBit) + 1) \div 2) * 2

\* The busy bit is cleared, the header added, and the sum rounded up to 8
\* bytes.  The kernel computes the same.
roundup_len(len) == (((len % BusyBit) + HeaderLen + 1) \div 2) * 2

RecordLen == roundup_len(SampleLen)

-----------------------------------------------------------------------------
(* A producer: xdp_filter on CPU c and the kernel's helpers. *)

\* Mutant: the room is computed without the record to come.
ReserveOverrun(c, ip) ==
  /\ cpu[c] = "idle" /\ Len(written) < MaxRecords
  /\ producer_pos - consumer_pos < Words
  /\ Store(producer_pos, SampleLen + BusyBit)
  /\ producer_pos' = producer_pos + RecordLen
  /\ log' = [log EXCEPT ![c] = producer_pos]
  /\ written' = Append(written, [cpu |-> c, ip |-> ip, st |-> "busy"])
  /\ cpu' = [cpu EXCEPT ![c] = "fill"]
  /\ UNCHANGED <<consumer_pos, ready, readerVars>>

\* bpf_ringbuf_reserve, under the spin lock of the ring.  Without room for the
\* record it fails and leaves everything as it is.
Reserve(c, ip) ==
  /\ cpu[c] = "idle" /\ Len(written) < MaxRecords
  /\ producer_pos + RecordLen - consumer_pos < Words
  /\ Store(producer_pos, SampleLen + BusyBit)
  /\ producer_pos' = producer_pos + RecordLen
  /\ log' = [log EXCEPT ![c] = producer_pos]
  /\ written' = Append(written, [cpu |-> c, ip |-> ip, st |-> "busy"])
  /\ cpu' = [cpu EXCEPT ![c] = "fill"]
  /\ UNCHANGED <<consumer_pos, ready, readerVars>>

\* The record of c in the history.
Own(c) == CHOOSE i \in DOMAIN written : (i - 1) * RecordLen = log[c]

\* log->ip; log->bytes is left out, its value makes no difference to anything.
Fill(c) ==
  /\ cpu[c] = "fill"
  /\ Store(log[c] + HeaderLen, written[Own(c)].ip)
  /\ cpu' = [cpu EXCEPT ![c] = "judge"]
  /\ UNCHANGED <<producer_pos, consumer_pos, log, written, ready, readerVars>>

\* log->is_passed = 0 or 1 in log_drop or log_pass.
Judge(c, is_passed) ==
  /\ cpu[c] = "judge"
  /\ Store(log[c] + HeaderLen + 2, is_passed)
  /\ written' = [written EXCEPT ![Own(c)].st = IF is_passed = 1 THEN "PASS" ELSE "DROP"]
  /\ cpu' = [cpu EXCEPT ![c] = "submit"]
  /\ UNCHANGED <<producer_pos, consumer_pos, log, ready, readerVars>>

\* bpf_ringbuf_submit(log, 0): the busy bit is cleared with xchg ...
Submit(c) ==
  /\ cpu[c] = "submit"
  /\ Store(log[c], SampleLen)
  /\ cpu' = [cpu EXCEPT ![c] = "wakeup"]
  /\ UNCHANGED <<producer_pos, consumer_pos, log, written, ready, readerVars>>

\* ... and the reader is woken only when it has come up to this record.  There
\* is nobody to wake before epoll_ctl.
Wakeup(c) ==
  /\ cpu[c] = "wakeup"
  /\ ready' = (ready \/ (reader # "add" /\ consumer_pos % Words = log[c] % Words))
  /\ cpu' = [cpu EXCEPT ![c] = "idle"]
  /\ UNCHANGED <<mem, producer_pos, consumer_pos, log, written, readerVars>>

Produce(c) == \/ Fill(c) \/ \E p \in {0, 1} : Judge(c, p)
              \/ Submit(c) \/ Wakeup(c)

-----------------------------------------------------------------------------
(* The consumer: the access-log thread in libbpf. *)

\* ring_buffer__add: epoll_ctl puts a ring with data on the ready list.
Add ==
  /\ reader = "add"
  /\ ready' = (producer_pos # consumer_pos)
  /\ reader' = "poll"
  /\ UNCHANGED <<mem, consumer_pos, kernelVars, cons_pos, prod_pos, got_new_data, delivered>>

\* Mutant: the ring is registered with EPOLLET.
PollEdge ==
  /\ reader = "poll" /\ ready
  /\ consumer_pos = cons_pos
  /\ ready' = FALSE
  /\ reader' = IF producer_pos # consumer_pos THEN "process" ELSE "poll"
  /\ UNCHANGED <<mem, consumer_pos, kernelVars, cons_pos, prod_pos, got_new_data, delivered>>

\* epoll_wait, level-triggered (EPOLLIN): a ring on the ready list is asked for
\* its data; it stays on the list if it has some and is taken off if not.  The
\* locks of the system call make the store of consumer_pos visible.  A ring
\* that is not on the list is not looked at: epoll_wait times out and
\* ring_buffer__poll returns without touching it.
Poll ==
  /\ reader = "poll" /\ ready
  /\ consumer_pos = cons_pos
  /\ ready' = (producer_pos # consumer_pos)
  /\ reader' = IF producer_pos # consumer_pos THEN "process" ELSE "poll"
  /\ UNCHANGED <<mem, consumer_pos, kernelVars, cons_pos, prod_pos, got_new_data, delivered>>

\* The outer loop of ringbuf_process_ring.
Process ==
  /\ reader = "process"
  /\ got_new_data' = FALSE
  /\ prod_pos' = producer_pos
  /\ reader' = "head"
  /\ UNCHANGED <<mem, consumer_pos, ready, kernelVars, cons_pos, delivered>>

\* Mutant: the busy bit is not looked at.
InspectBusyToo ==
  /\ reader = "head"
  /\ IF cons_pos < prod_pos
     THEN reader' = "sample" /\ got_new_data' = TRUE
     ELSE /\ reader' = IF got_new_data THEN "process" ELSE "poll"
          /\ UNCHANGED got_new_data
  /\ UNCHANGED <<mem, consumer_pos, ready, kernelVars, cons_pos, prod_pos, delivered>>

\* The inner loop: a record that is still busy ends the call; without a record
\* the producer's position is read again if there has been one.
Inspect ==
  /\ reader = "head"
  /\ IF cons_pos < prod_pos
     THEN IF Word(cons_pos) >= BusyBit
          THEN reader' = "poll" /\ UNCHANGED got_new_data
          ELSE reader' = "sample" /\ got_new_data' = TRUE
     ELSE /\ reader' = IF got_new_data THEN "process" ELSE "poll"
          /\ UNCHANGED got_new_data
  /\ UNCHANGED <<mem, consumer_pos, ready, kernelVars, cons_pos, prod_pos, delivered>>

\* handle_log_event reads the sample in place.
Sample ==
  /\ reader = "sample"
  /\ delivered' = Append(delivered, [ip |-> Word(cons_pos + HeaderLen),
                                     is_passed |-> Word(cons_pos + HeaderLen + 2)])
  /\ reader' = "store"
  /\ UNCHANGED <<mem, consumer_pos, ready, kernelVars, cons_pos, prod_pos, got_new_data>>

\* The store of consumer_pos is issued.
Advance ==
  /\ reader = "store"
  /\ cons_pos' = cons_pos + roundup_len(Word(cons_pos))
  /\ reader' = "head"
  /\ UNCHANGED <<mem, consumer_pos, ready, kernelVars, prod_pos, got_new_data, delivered>>

\* An issued store becomes visible, the oldest first.
Visible ==
  /\ consumer_pos < cons_pos
  /\ consumer_pos' = consumer_pos + RecordLen
  /\ UNCHANGED <<mem, ready, kernelVars, readerVars>>

Consume == Add \/ Poll \/ Process \/ Inspect \/ Sample \/ Advance

Next ==
  \/ \E c \in CPUs : (\E ip \in IPs : Reserve(c, ip)) \/ Produce(c)
  \/ Consume \/ Visible

\* A producer runs to the end of xdp_filter, the thread keeps polling, and a
\* store does not stay in the processor for ever.
Fairness == (\A c \in CPUs : WF_vars(Produce(c))) /\ WF_vars(Consume) /\ WF_vars(Visible)

Spec == Init /\ [][Next]_vars /\ Fairness

-----------------------------------------------------------------------------
(* Properties. *)

\* The records between the two positions as the kernel sees them.  A record is
\* submitted when its header says so; who reserved it is in the history.
AbstractRing ==
  [i \in 1 .. (producer_pos - consumer_pos) \div RecordLen |->
     LET pos == consumer_pos + (i - 1) * RecordLen
         own == written[pos \div RecordLen + 1]
     IN  IF Word(pos) >= BusyBit THEN [own EXCEPT !.st = "busy"]
         ELSE [cpu |-> own.cpu, ip |-> Word(pos + HeaderLen),
               st |-> IF Word(pos + HeaderLen + 2) = 1 THEN "PASS" ELSE "DROP"]]

Ring == INSTANCE PacketRing WITH
          ring <- AbstractRing, RingSize <- Words \div RecordLen, AddrBits <- 0

\* Headers, samples and positions in shared memory implement the queue that
\* XdpFilter and AccessLog take the ring for: a reservation appears at the
\* end, a submit changes one record in place, and only submitted records
\* leave, from the head, whatever wraps around the end of the pages and
\* whenever the consumer's stores become visible.
MemoryIsRing == Ring!FifoSpec

\* handle_log_event is given every record once, in the order of reservation,
\* with the address and the verdict xdp_filter has written into it: no
\* producer overwrites a record before it has been read.
DeliveredAsWritten ==
  /\ Len(delivered) <= Len(written)
  /\ \A i \in DOMAIN delivered :
       /\ delivered[i].ip = written[i].ip
       /\ written[i].st = IF delivered[i].is_passed = 1 THEN "PASS" ELSE "DROP"

\* While epoll_wait would sleep on records that have not been delivered, the
\* producer of the first of them has its wake-up still to come, and will find
\* that the reader has come up to its record, however late consumer_pos became
\* visible: no wake-up is left out, or given, too early.
SleeperIsWoken ==
  reader = "poll" /\ ~ready /\ Len(delivered) < Len(written) =>
    \E c \in CPUs : cpu[c] # "idle" /\ log[c] = consumer_pos

\* Every reserved record reaches handle_log_event: the wake-up that submit
\* leaves out when the reader has not come up to the record is never the one
\* the reader waits for.
NoRecordStranded ==
  \A n \in 1 .. MaxRecords : Len(written) >= n ~> Len(delivered) >= n
=============================================================================

------------------------------ MODULE PacketRing ------------------------------
(***************************************************************************)
(* packet_ringbuf: the BPF ring buffer between xdp_filter (many producers, *)
(* one record in flight per CPU) and the access-log thread (one consumer). *)
(* Records lie in reservation order.  A reserved record is busy until its  *)
(* producer submits it, and a busy record at the head stops the consumer.  *)
(***************************************************************************)
EXTENDS Addresses, Sequences

CONSTANTS
  CPUs,     \* processors that run xdp_filter
  RingSize  \* records that fit into the ring (16 MB in the code)

ASSUME RingAssumption == RingSize \in Nat \ {0}

VARIABLE ring

Verdicts == {"DROP", "PASS"}
Records == [cpu : CPUs, ip : IPs, st : Verdicts \cup {"busy"}]

RingTypeOK == ring \in Seq(Records) /\ Len(ring) <= RingSize

RingInit == ring = <<>>

RingFull == Len(ring) >= RingSize

Busy(i, c) == ring[i].cpu = c /\ ring[i].st = "busy"

\* bpf_ringbuf_reserve; the caller has seen that the ring is not full.
reserve(c, ip) == ring' = Append(ring, [cpu |-> c, ip |-> ip, st |-> "busy"])

\* is_passed is set and bpf_ringbuf_submit clears the busy bit, in place.
submit(c, verdict) ==
  ring' = [i \in DOMAIN ring |->
             IF Busy(i, c) THEN [ring[i] EXCEPT !.st = verdict] ELSE ring[i]]

Readable == ring # <<>> /\ ring[1].st # "busy"

\* One record leaves the ring: consumer_pos moves past it.
consume == Readable /\ ring' = Tail(ring)

-----------------------------------------------------------------------------
(* What the ring promises, its size aside: a queue in reservation order from *)
(* which only submitted records leave, each CPU having one record in flight. *)

InFlight(c) == \E i \in DOMAIN ring : Busy(i, c)

FifoNext ==
  \/ \E c \in CPUs, ip \in IPs : ~InFlight(c) /\ reserve(c, ip)
  \/ \E c \in CPUs, v \in Verdicts : InFlight(c) /\ submit(c, v)
  \/ consume

FifoSpec == RingInit /\ [][FifoNext]_ring
=============================================================================

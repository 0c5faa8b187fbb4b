------------------------------- MODULE XdpFilter -------------------------------
(***************************************************************************)
(* xdp_filter (src/packetfilter.bpf.c), run concurrently on every CPU of   *)
(* the receiving host while user space updates the maps and the access-log *)
(* thread drains the ring.  One action per access to shared state.         *)
(*                                                                         *)
(* Hash-map elements have an identity, so that a CPU can go on using an    *)
(* element that a BPF_ANY update on another CPU has replaced.  The maps are *)
(* preallocated: a new address takes an element from the free list (named  *)
(* here after the address), and an update that replaces an element writes  *)
(* the spare one of its CPU and keeps the replaced one as the next spare.  *)
(***************************************************************************)
EXTENDS FilterMaps, PacketRing, FiniteSetsExt

CONSTANTS
  Steer,       \* address -> CPUs whose receive queue may get its packets
  NotIPv4,     \* a frame that is too short or does not carry IPv4
  TimeMod,     \* 2^64: current_time - last_timestamp is unsigned
  MaxTime,     \* bound: readings of bpf_ktime_get_ns
  MaxPackets,  \* bound: frames received
  MaxUpdates   \* bound: map updates by user space

ASSUME XdpAssumption ==
  /\ IsFiniteSet(CPUs) /\ CPUs \cap IPs = {}
  /\ None \notin IPs \cup CPUs
  /\ Steer \in [IPs -> SUBSET CPUs]
  /\ NotIPv4 \notin IPs
  /\ MaxTime \in Nat /\ TimeMod \in Nat /\ TimeMod > MaxTime
  /\ MaxPackets \in Nat /\ MaxUpdates \in Nat

VARIABLES
  pc,                 \* CPU -> where it is in xdp_filter
  pkt,                \* CPU -> the locals of xdp_filter
  ip_stats_map,       \* hash map of counters [DROP, PASS]
  global_stats_map,   \* [DROP, PASS]
  ip_timestamps_map,  \* hash map of last_timestamp
  clock,              \* what bpf_ktime_get_ns returns now
  received,           \* frames received so far
  updates,            \* map updates so far
  reserved,           \* history: records ever reserved (producer_pos)
  verdicts,           \* history: address -> logged verdicts [DROP, PASS]
  admitted,           \* history: address -> admissions by the rate limiter
  seen                \* history: CPU -> what the list checks would have said
                      \*          at each moment since the packet arrived

statsVars == <<ip_stats_map, global_stats_map, verdicts>>
rateVars == <<ip_timestamps_map, admitted>>
envVars == <<configMaps, clock, received, updates, seen>>
vars == <<pc, pkt, ring, reserved, statsVars, rateVars, envVars>>

Labels == {"idle", "reserve", "stats", "stats_init", "stats_again",
           "wl_state", "wl_lookup", "bl_state", "bl_lookup",
           "rl_state", "rl_lookup", "ts_lookup", "ts_init", "ts_check", "ts_store",
           "count_ip", "count_all", "submit", "return"}

Time == 0 .. MaxTime
Counts == [DROP : Nat, PASS : Nat]
Zero == [DROP |-> 0, PASS |-> 0]
Elements == IPs \cup CPUs
Pointers == Elements \cup {None}
Packets == [src_ip : IPs \cup {NotIPv4}, current_time : Time, log : BOOLEAN,
            ip_stats : Pointers, interval : Intervals \cup {None},
            timestamp : Pointers, ret : Verdicts \cup {"none"}]
NoPacket == [src_ip |-> NotIPv4, current_time |-> 0, log |-> FALSE, ip_stats |-> None,
             interval |-> None, timestamp |-> None, ret |-> "none"]
NothingSeen == [updates |-> 0, lists |-> {}]

\* A hash map: the element linked for each address, what the elements hold
\* and the spare element of each CPU.
HashMaps(values) == [link : [IPs -> Pointers], value : [Elements -> values],
                     spare : [CPUs -> Elements]]
HashInit(value) == [link |-> [ip \in IPs |-> None], value |-> [e \in Elements |-> value],
                    spare |-> [c \in CPUs |-> c]]

TypeOK ==
  /\ MapsTypeOK /\ RingTypeOK
  /\ pc \in [CPUs -> Labels]
  /\ pkt \in [CPUs -> Packets]
  /\ ip_stats_map \in HashMaps(Counts)
  /\ global_stats_map \in Counts
  /\ ip_timestamps_map \in HashMaps(Time)
  /\ clock \in Time
  /\ received \in 0 .. MaxPackets
  /\ updates \in 0 .. MaxUpdates
  /\ reserved \in Nat
  /\ verdicts \in [IPs -> Counts]
  /\ admitted \in [IPs -> Seq([at : Time, interval : Intervals])]
  /\ seen \in [CPUs -> [updates : Nat, lists : SUBSET Verdicts]]

Init ==
  /\ MapsInit /\ RingInit
  /\ pc = [c \in CPUs |-> "idle"]
  /\ pkt = [c \in CPUs |-> NoPacket]
  /\ ip_stats_map = HashInit(Zero)
  /\ global_stats_map = Zero
  /\ ip_timestamps_map = HashInit(0)
  /\ clock = 0 /\ received = 0 /\ updates = 0 /\ reserved = 0
  /\ verdicts = [ip \in IPs |-> Zero]
  /\ admitted = [ip \in IPs |-> <<>>]
  /\ seen = [c \in CPUs |-> NothingSeen]

-----------------------------------------------------------------------------
(* Helpers. *)

At(c, l) == pc[c] = l

Goto(c, l) == pc' = [pc EXCEPT ![c] = l]

\* A verdict is reached: the packet goes on to log_drop or log_pass.
Decide(c, verdict) ==
  /\ Goto(c, "count_ip")
  /\ pkt' = [pkt EXCEPT ![c].ret = verdict]

HashFull(map) == Cardinality({ip \in IPs : map.link[ip] # None}) >= MaxEntries

\* bpf_map_update_elem(BPF_ANY) on CPU c.  A full map refuses an address that
\* it does not hold.
HashUpdate(map, c, ip, v) ==
  LET old == map.link[ip]
      new == map.spare[c]
  IN  IF old # None
      THEN [link |-> [map.link EXCEPT ![ip] = new],
            value |-> [map.value EXCEPT ![new] = v],
            spare |-> [map.spare EXCEPT ![c] = old]]
      ELSE IF HashFull(map) THEN map
      ELSE [map EXCEPT !.link[ip] = ip, !.value[ip] = v]

-----------------------------------------------------------------------------
(* xdp_filter on CPU c. *)

\* A frame arrives and the clock is read, before anything else.  A frame
\* without a complete IPv4 header is passed at once.
Receive(c, frame) ==
  /\ At(c, "idle")
  /\ received < MaxPackets
  /\ frame \in IPs => c \in Steer[frame]
  /\ Goto(c, IF frame = NotIPv4 THEN "return" ELSE "reserve")
  /\ pkt' = [pkt EXCEPT ![c] = [NoPacket EXCEPT
                !.src_ip = frame, !.current_time = clock,
                !.ret = IF frame = NotIPv4 THEN "PASS" ELSE "none"]]
  /\ received' = received + 1
  /\ seen' = [seen EXCEPT ![c].lists =
                IF frame = NotIPv4 THEN {} ELSE {ListVerdict(frame)}]
  /\ UNCHANGED <<ring, reserved, statsVars, rateVars, configMaps, clock, updates>>

\* Mutant: bpf_ringbuf_reserve that overruns the ring.
ReserveUnchecked(c) ==
  /\ At(c, "reserve")
  /\ reserve(c, pkt[c].src_ip)
  /\ reserved' = reserved + 1
  /\ pkt' = [pkt EXCEPT ![c].log = TRUE]
  /\ Goto(c, "stats")
  /\ UNCHANGED <<statsVars, rateVars, envVars>>

Reserve(c) ==
  /\ At(c, "reserve") /\ ~RingFull
  /\ reserve(c, pkt[c].src_ip)
  /\ reserved' = reserved + 1
  /\ pkt' = [pkt EXCEPT ![c].log = TRUE]
  /\ Goto(c, "stats")
  /\ UNCHANGED <<statsVars, rateVars, envVars>>

\* No room for a log record: the packet is passed without any check.
ReserveFails(c) ==
  /\ At(c, "reserve") /\ RingFull
  /\ pkt' = [pkt EXCEPT ![c].ret = "PASS"]
  /\ Goto(c, "return")
  /\ UNCHANGED <<ring, reserved, statsVars, rateVars, envVars>>

StatsLookup(c) ==
  LET elem == ip_stats_map.link[pkt[c].src_ip]
  IN  /\ pc[c] \in {"stats", "stats_again"}
      /\ pkt' = [pkt EXCEPT ![c].ip_stats = elem]
      /\ Goto(c, IF elem = None /\ At(c, "stats") THEN "stats_init" ELSE "wl_state")
      /\ UNCHANGED <<ring, reserved, statsVars, rateVars, envVars>>

\* Mutant: new_stats is not zeroed.
StatsInitGarbage(c) ==
  /\ At(c, "stats_init")
  /\ ip_stats_map' = HashUpdate(ip_stats_map, c, pkt[c].src_ip, [DROP |-> 1, PASS |-> 0])
  /\ Goto(c, "stats_again")
  /\ UNCHANGED <<pkt, ring, reserved, global_stats_map, verdicts, rateVars, envVars>>

\* Mutant: no second lookup after the insertion, ip_stats stays NULL.
StatsInitNoLookup(c) ==
  /\ At(c, "stats_init")
  /\ ip_stats_map' = HashUpdate(ip_stats_map, c, pkt[c].src_ip, Zero)
  /\ Goto(c, "wl_state")
  /\ UNCHANGED <<pkt, ring, reserved, global_stats_map, verdicts, rateVars, envVars>>

StatsInit(c) ==
  /\ At(c, "stats_init")
  /\ ip_stats_map' = HashUpdate(ip_stats_map, c, pkt[c].src_ip, Zero)
  /\ Goto(c, "stats_again")
  /\ UNCHANGED <<pkt, ring, reserved, global_stats_map, verdicts, rateVars, envVars>>

\* is_config_enabled of one of the three checks: enter it or skip it.
StateCheck(c) ==
  /\ \/ /\ At(c, "wl_state")
        /\ Goto(c, IF is_config_enabled("whitelist") THEN "wl_lookup" ELSE "bl_state")
     \/ /\ At(c, "bl_state")
        /\ Goto(c, IF is_config_enabled("blacklist") THEN "bl_lookup" ELSE "rl_state")
     \/ /\ At(c, "rl_state") /\ is_config_enabled("ratelimit")
        /\ Goto(c, "rl_lookup")
  /\ UNCHANGED <<pkt, ring, reserved, statsVars, rateVars, envVars>>

\* Mutant: a whitelisted address is not checked against the blacklist.
WhitelistWins(c) ==
  /\ At(c, "wl_lookup")
  /\ IF Listed("whitelist", pkt[c].src_ip)
     THEN Goto(c, "rl_state") /\ UNCHANGED pkt
     ELSE Decide(c, "DROP")
  /\ UNCHANGED <<ring, reserved, statsVars, rateVars, envVars>>

\* Mutant: XDP_DROP without log_drop.
WhitelistNoLog(c) ==
  /\ At(c, "wl_lookup")
  /\ IF Listed("whitelist", pkt[c].src_ip)
     THEN Goto(c, "bl_state") /\ UNCHANGED pkt
     ELSE Goto(c, "return") /\ pkt' = [pkt EXCEPT ![c].ret = "DROP"]
  /\ UNCHANGED <<ring, reserved, statsVars, rateVars, envVars>>

WhitelistLookup(c) ==
  /\ At(c, "wl_lookup")
  /\ IF Listed("whitelist", pkt[c].src_ip)
     THEN Goto(c, "bl_state") /\ UNCHANGED pkt
     ELSE Decide(c, "DROP")
  /\ UNCHANGED <<ring, reserved, statsVars, rateVars, envVars>>

BlacklistLookup(c) ==
  /\ At(c, "bl_lookup")
  /\ IF Listed("blacklist", pkt[c].src_ip)
     THEN Decide(c, "DROP")
     ELSE Goto(c, "rl_state") /\ UNCHANGED pkt
  /\ UNCHANGED <<ring, reserved, statsVars, rateVars, envVars>>

\* Rate limiting is off, or the address has no limit.
NotLimited(c) ==
  /\ \/ At(c, "rl_state") /\ ~is_config_enabled("ratelimit")
     \/ At(c, "rl_lookup") /\ ip_rate_limits_map[pkt[c].src_ip] = None
  /\ Decide(c, "PASS")
  /\ UNCHANGED <<ring, reserved, statsVars, rateVars, envVars>>

RateLookup(c) ==
  /\ At(c, "rl_lookup") /\ ip_rate_limits_map[pkt[c].src_ip] # None
  /\ pkt' = [pkt EXCEPT ![c].interval = ip_rate_limits_map[pkt[c].src_ip]]
  /\ Goto(c, "ts_lookup")
  /\ UNCHANGED <<ring, reserved, statsVars, rateVars, envVars>>

TimestampLookup(c) ==
  LET elem == ip_timestamps_map.link[pkt[c].src_ip]
  IN  /\ At(c, "ts_lookup")
      /\ pkt' = [pkt EXCEPT ![c].timestamp = elem]
      /\ Goto(c, IF elem = None THEN "ts_init" ELSE "ts_check")
      /\ UNCHANGED <<ring, reserved, statsVars, rateVars, envVars>>

\* The rate limiter lets the packet go on to log_pass.
Admit(c) ==
  /\ Decide(c, "PASS")
  /\ admitted' = [admitted EXCEPT ![pkt[c].src_ip] =
                    Append(@, [at |-> pkt[c].current_time, interval |-> pkt[c].interval])]

\* First limited packet of this address, as far as this CPU has seen.
TimestampInit(c) ==
  /\ At(c, "ts_init")
  /\ ip_timestamps_map' =
       HashUpdate(ip_timestamps_map, c, pkt[c].src_ip, pkt[c].current_time)
  /\ Admit(c)
  /\ UNCHANGED <<ring, reserved, statsVars, envVars>>

\* current_time - timestamp->last_timestamp, in unsigned arithmetic.
Elapsed(c) ==
  (pkt[c].current_time - ip_timestamps_map.value[pkt[c].timestamp]) % TimeMod

\* rate_limit->packet_interval_ns, through the pointer from RateLookup.  User
\* space replaces an element as a whole and leaves the old one as it was, but
\* its next update, of any address, may put another limit into the freed one.
PacketInterval(c) ==
  {pkt[c].interval} \cup (IF seen[c].updates >= 2 THEN Intervals ELSE {})

\* Mutant: a packet one nanosecond early is admitted.
TimestampCheckEarly(c) ==
  /\ At(c, "ts_check")
  /\ \E interval \in PacketInterval(c) :
       IF Elapsed(c) + 1 < interval
       THEN Decide(c, "DROP")
       ELSE Goto(c, "ts_store") /\ pkt' = [pkt EXCEPT ![c].interval = interval]
  /\ UNCHANGED <<ring, reserved, statsVars, rateVars, envVars>>

\* Mutant: XDP_DROP without log_drop.
TimestampCheckNoLog(c) ==
  /\ At(c, "ts_check")
  /\ \E interval \in PacketInterval(c) :
       IF Elapsed(c) < interval
       THEN Goto(c, "return") /\ pkt' = [pkt EXCEPT ![c].ret = "DROP"]
       ELSE Goto(c, "ts_store") /\ pkt' = [pkt EXCEPT ![c].interval = interval]
  /\ UNCHANGED <<ring, reserved, statsVars, rateVars, envVars>>

TimestampCheck(c) ==
  /\ At(c, "ts_check")
  /\ \E interval \in PacketInterval(c) :
       IF Elapsed(c) < interval
       THEN Decide(c, "DROP")
       ELSE Goto(c, "ts_store") /\ pkt' = [pkt EXCEPT ![c].interval = interval]
  /\ UNCHANGED <<ring, reserved, statsVars, rateVars, envVars>>

\* Mutant: last_timestamp is not refreshed.
TimestampStoreForgets(c) ==
  /\ At(c, "ts_store")
  /\ Admit(c)
  /\ UNCHANGED <<ip_timestamps_map, ring, reserved, statsVars, envVars>>

\* A plain store into the element found by TimestampLookup.
TimestampStore(c) ==
  /\ At(c, "ts_store")
  /\ ip_timestamps_map' = [ip_timestamps_map EXCEPT
       !.value[pkt[c].timestamp] = pkt[c].current_time]
  /\ Admit(c)
  /\ UNCHANGED <<ring, reserved, statsVars, envVars>>

\* Mutant: without ip_stats nothing is logged.
CountIpOrReturn(c) ==
  LET ip == pkt[c].src_ip
      elem == pkt[c].ip_stats
  IN  /\ At(c, "count_ip")
      /\ ip_stats_map' = IF elem = None THEN ip_stats_map
                         ELSE [ip_stats_map EXCEPT !.value[elem][pkt[c].ret] = @ + 1]
      /\ verdicts' = [verdicts EXCEPT ![ip][pkt[c].ret] = @ + 1]
      /\ Goto(c, IF elem = None THEN "return" ELSE "count_all")
      /\ UNCHANGED <<pkt, ring, reserved, global_stats_map, rateVars, envVars>>

\* log_drop / log_pass: the per-address counter, unless the pointer is NULL;
\* the global counter; the record.
CountIp(c) ==
  LET ip == pkt[c].src_ip
      elem == pkt[c].ip_stats
  IN  /\ At(c, "count_ip")
      /\ ip_stats_map' = IF elem = None THEN ip_stats_map
                         ELSE [ip_stats_map EXCEPT !.value[elem][pkt[c].ret] = @ + 1]
      /\ verdicts' = [verdicts EXCEPT ![ip][pkt[c].ret] = @ + 1]
      /\ Goto(c, "count_all")
      /\ UNCHANGED <<pkt, ring, reserved, global_stats_map, rateVars, envVars>>

CountAll(c) ==
  /\ At(c, "count_all")
  /\ global_stats_map' = [global_stats_map EXCEPT ![pkt[c].ret] = @ + 1]
  /\ Goto(c, "submit")
  /\ UNCHANGED <<pkt, ring, reserved, ip_stats_map, verdicts, rateVars, envVars>>

Submit(c) ==
  /\ At(c, "submit")
  /\ submit(c, pkt[c].ret)
  /\ Goto(c, "return")
  /\ UNCHANGED <<pkt, reserved, statsVars, rateVars, envVars>>

Return(c) ==
  /\ At(c, "return")
  /\ pkt' = [pkt EXCEPT ![c] = NoPacket]
  /\ seen' = [seen EXCEPT ![c] = NothingSeen]
  /\ Goto(c, "idle")
  /\ UNCHANGED <<ring, reserved, statsVars, rateVars, configMaps, clock, received, updates>>

xdp_filter(c) ==
  \/ Reserve(c) \/ ReserveFails(c)
  \/ StatsLookup(c) \/ StatsInit(c)
  \/ StateCheck(c) \/ WhitelistLookup(c) \/ BlacklistLookup(c)
  \/ NotLimited(c) \/ RateLookup(c)
  \/ TimestampLookup(c) \/ TimestampInit(c) \/ TimestampCheck(c) \/ TimestampStore(c)
  \/ CountIp(c) \/ CountAll(c) \/ Submit(c) \/ Return(c)

-----------------------------------------------------------------------------
(* The environment of the program. *)

\* Blacklist, Whitelist or RateLimit changes a map.
Update ==
  /\ updates < MaxUpdates
  /\ MapUpdate
  /\ updates' = updates + 1
  /\ UNCHANGED <<pc, pkt, ring, reserved, statsVars, rateVars, clock, received>>
  /\ seen' = [c \in CPUs |->
       IF pkt[c].src_ip = NotIPv4 THEN seen[c]
       ELSE [updates |-> seen[c].updates + 1,
             lists |-> seen[c].lists \cup {ListVerdict(pkt[c].src_ip)'}]]

\* The access-log thread takes one record.
Drain ==
  /\ consume
  /\ UNCHANGED <<pc, pkt, reserved, statsVars, rateVars, envVars>>

Tick ==
  /\ clock < MaxTime
  /\ clock' = clock + 1
  /\ UNCHANGED <<pc, pkt, ring, reserved, statsVars, rateVars, configMaps,
                 received, updates, seen>>

Traffic == \E c \in CPUs : \/ \E frame \in IPs \cup {NotIPv4} : Receive(c, frame)
                           \/ xdp_filter(c)

Next == Traffic \/ Update \/ Drain \/ Tick

\* The kernel runs the program to its end once it has started, and the
\* access-log thread keeps polling.
Fairness == (\A c \in CPUs : WF_vars(xdp_filter(c))) /\ WF_vars(Drain)

Spec == Init /\ [][Next]_vars /\ Fairness

\* The access-log thread never started, or has ended.
SpecNoReader == Init /\ [][Traffic \/ Update \/ Tick]_vars

-----------------------------------------------------------------------------
(* Properties. *)

Holding == Labels \ {"idle", "reserve", "return"}

\* Every record xdp_filter ever reserved is counted once in global_stats_map,
\* on every path from bpf_ringbuf_reserve to log_drop or log_pass: what is
\* not counted yet is in flight on some CPU.
SlotAccounting ==
  reserved = global_stats_map.DROP + global_stats_map.PASS
             + Cardinality({c \in CPUs : pc[c] \in Holding \ {"submit"}})

\* The busy records are exactly those of the CPUs between reserve and submit,
\* one each and under the address of the packet: no return path of xdp_filter
\* leaves a record behind that would block the log thread for ever.
SlotOwnership ==
  /\ \A i \in DOMAIN ring : ring[i].st = "busy" =>
       /\ pc[ring[i].cpu] \in Holding
       /\ pkt[ring[i].cpu].src_ip = ring[i].ip
  /\ \A c \in CPUs : pc[c] \in Holding =>
       \E i \in DOMAIN ring : Busy(i, c) /\ \A j \in DOMAIN ring : Busy(j, c) => i = j

\* The ring as xdp_filter uses it is a queue in reservation order: a step
\* adds a busy record of a CPU that has none, submits one in place, or takes
\* a submitted one from the head.  AccessLog assumes no more of its producers.
RingIsFifo == FifoSpec

\* A drop by the rate limiter comes after the lookup of the limit.
DroppedByList(c) == pkt[c].ret = "DROP" /\ pkt[c].interval = None

\* The four reads of the list checks are not atomic, but a packet that
\* overlaps at most one map update gets the verdict of the maps before or
\* after it: dropped by a list only if the lists rejected it at some moment
\* while it was processed, let through only if they accepted it at some moment.
OneUpdateVerdict ==
  \A c \in CPUs : At(c, "return") /\ pkt[c].log /\ seen[c].updates <= 1 =>
    (IF DroppedByList(c) THEN "DROP" ELSE "PASS") \in seen[c].lists

\* The counters of an address as a lookup in ip_stats_map finds them.
IpStats(ip) == IF ip_stats_map.link[ip] = None THEN Zero
               ELSE ip_stats_map.value[ip_stats_map.link[ip]]

\* Together the counters of the addresses never exceed the verdicts logged,
\* whichever CPUs race to create the elements.  (One address may be credited
\* with packets of another: an element that a race has replaced is reused
\* while a third CPU still counts in it.)
NeverOvercounted ==
  \A v \in Verdicts :
    MapThenSumSet(LAMBDA ip : IpStats(ip)[v], IPs)
      <= MapThenSumSet(LAMBDA ip : verdicts[ip][v], IPs)

\* The map holds the address or could still take it in; nothing is ever
\* removed from it.
Room(map, ip) == map.link[ip] # None \/ ~HashFull(map)

Steered(ip) == Cardinality(Steer[ip]) = 1

\* The counters of an address that one CPU receives are exact, whatever races
\* there are about other addresses, unless ip_stats_map was full when its
\* first packet came: then it never gets any.
ExactWhenSteered ==
  \A ip \in IPs : Steered(ip) /\ Room(ip_stats_map, ip) =>
    IpStats(ip) = verdicts[ip]

\* "Number of dropped packets", "Number of passed packets" (packet_stats).
NumberOfPackets == \A ip \in IPs : IpStats(ip) = verdicts[ip]

Spaced(s) == \A i \in 1 .. Len(s) - 1 : s[i + 1].at - s[i].at >= s[i + 1].interval

\* Consecutive admissions of an address that one CPU receives are at least
\* the interval read for the second one apart, whatever user space does to the limits and to
\* the state flag in between, unless ip_timestamps_map is full without the
\* address: then it never takes it in and leaves it unlimited.
SpacedWhenSteered ==
  \A ip \in IPs : Steered(ip) /\ Room(ip_timestamps_map, ip) =>
    Spaced(admitted[ip])

\* "Minimum interval between packets" (ip_rate_limit), on any CPUs.
MinimumInterval == \A ip \in IPs : Spaced(admitted[ip])

Window(ip, t) == {i \in 1 .. Len(admitted[ip]) :
                    t <= admitted[ip][i].at /\ admitted[ip][i].at < t + NsPerSec}

\* No window of one second admits more packets of a steered address than
\* its shortest interval d fits into a second, rounded up.  This is what the
\* check of last_timestamp gives; it is packets_per_second only where that
\* divides the second, and an interval of 0 bounds nothing (MaximumPerSecond).
WindowBound ==
  \A ip \in IPs, t \in Time, d \in 1 .. NsPerSec :
    /\ Steered(ip) /\ Room(ip_timestamps_map, ip)
    /\ \A i \in Window(ip, t) : admitted[ip][i].interval >= d
    => Cardinality(Window(ip, t)) <= (NsPerSec + d - 1) \div d

\* "Maximum packets per second allowed" (ip_rate_limit): while an interval
\* is in force, no window of one second admits more packets of a steered address
\* than the largest packets_per_second that has this interval.
MaximumPerSecond ==
  \A ip \in IPs, t \in Time, d \in Intervals :
    /\ Steered(ip) /\ Room(ip_timestamps_map, ip)
    /\ \A i \in Window(ip, t) : admitted[ip][i].interval = d
    => \E p \in Pps : NsPerSec \div p = d /\ Cardinality(Window(ip, t)) <= p

\* "logging failure shouldn't stop the filter" (main): a packet that the
\* lists reject all the while it is processed is dropped.
RejectedIsDropped ==
  \A c \in CPUs : At(c, "return") /\ seen[c].lists = {"DROP"} => pkt[c].ret = "DROP"

\* Whatever traffic has put into the ring is drained: no record stays busy.
RingDrains == ring # <<>> ~> ring = <<>>
=============================================================================

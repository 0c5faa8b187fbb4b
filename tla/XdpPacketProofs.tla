---------------------------- MODULE XdpPacketProofs ----------------------------
(***************************************************************************)
(* One packet in xdp_filter: its record belongs to one CPU between reserve *)
(* and submit, the ring is a queue, every record is counted, the list      *)
(* checks decide as if they had read the maps at once, and the counters of *)
(* all addresses never say more than was logged, whichever CPUs race for   *)
(* their elements.                                                         *)
(***************************************************************************)
EXTENDS XdpFilterProofs

-----------------------------------------------------------------------------
(* The ring. *)


\* A step that neither reserves, counts nor submits.
Passive(c) ==
  /\ UNCHANGED <<ring, reserved, global_stats_map>>
  /\ pc'[c] \in Holding <=> pc[c] \in Holding
  /\ pc[c] # "submit" /\ pc'[c] # "submit"

LEMMA FilterStepKinds ==
  ASSUME TypeInv, NEW c \in CPUs, xdp_filter(c)
  PROVE  Reserve(c) \/ CountAll(c) \/ Submit(c) \/ Passive(c)
<1> SUFFICES ASSUME ~Reserve(c), ~CountAll(c), ~Submit(c)
             PROVE  Passive(c)
  OBVIOUS
<1>1. pc \in [CPUs -> Labels]
  BY SMTT(30) DEF TypeInv, TypeOK
<1>2. UNCHANGED <<ring, reserved, global_stats_map>>
  BY DEF xdp_filter, ReserveFails, StatsLookup, StatsInit, StateCheck, WhitelistLookup,
         BlacklistLookup, NotLimited, RateLookup, TimestampLookup, TimestampInit, TimestampCheck,
         TimestampStore, CountIp, Return, statsVars
<1>3. CASE ReserveFails(c) \/ Return(c)
  BY <1>1, <1>2, <1>3 DEF Passive, ReserveFails, Return, At, Goto, Holding
<1>4. CASE StatsLookup(c) \/ StatsInit(c) \/ StateCheck(c)
  BY <1>1, <1>2, <1>4 DEF Passive, StatsLookup, StatsInit, StateCheck, At, Goto, Holding, Labels
<1>5. CASE WhitelistLookup(c) \/ BlacklistLookup(c) \/ NotLimited(c)
  BY <1>1, <1>2, <1>5
  DEF Passive, WhitelistLookup, BlacklistLookup, NotLimited, Decide, At, Goto, Holding, Labels
<1>6. CASE RateLookup(c) \/ TimestampLookup(c) \/ TimestampCheck(c)
  BY <1>1, <1>2, <1>6
  DEF Passive, RateLookup, TimestampLookup, TimestampCheck, Decide, At, Goto, Holding, Labels
<1>7. CASE TimestampInit(c) \/ TimestampStore(c) \/ CountIp(c)
  BY <1>1, <1>2, <1>7, Zenon
  DEF Passive, TimestampInit, TimestampStore, CountIp, Admit, Decide, At, Goto, Holding, Labels
<1> QED
  BY <1>3, <1>4, <1>5, <1>6, <1>7 DEF xdp_filter

LEMMA ReceivePassive ==
  ASSUME TypeInv, NEW c \in CPUs, NEW frame \in IPs \cup {NotIPv4}, Receive(c, frame)
  PROVE  /\ Passive(c) /\ pc[c] \notin Holding
         /\ \A d \in CPUs \ {c} : pc'[d] = pc[d] /\ pkt'[d] = pkt[d]
  BY DEF Receive, At, Goto, Passive, Holding, statsVars, TypeInv, TypeOK

-----------------------------------------------------------------------------
(* SlotOwnership. *)

LEMMA InitOwnership == Init => SlotOwnership
  BY DEF Init, RingInit, SlotOwnership, Holding

LEMMA RecordsOfCPUs == RingTypeOK => \A i \in DOMAIN ring : ring[i].cpu \in CPUs
<1> SUFFICES ASSUME RingTypeOK
             PROVE  \A i \in DOMAIN ring : ring[i].cpu \in CPUs
  OBVIOUS
<1>1. \A i \in DOMAIN ring : ring[i] \in Records
  BY ElementOfSeq, LenProperties DEF RingTypeOK
<1> QED
  BY <1>1 DEF Records

LEMMA PassiveOwnership ==
  ASSUME SlotOwnership, RingTypeOK, NEW c \in CPUs, Passive(c),
         \A d \in CPUs \ {c} : pc'[d] = pc[d] /\ pkt'[d] = pkt[d],
         pc[c] \in Holding => pkt'[c].src_ip = pkt[c].src_ip
  PROVE  SlotOwnership'
<1>2. UNCHANGED ring /\ \A d \in CPUs : pc'[d] \in Holding <=> pc[d] \in Holding
  BY DEF Passive
<1>3. \A d \in CPUs : pc[d] \in Holding => pkt'[d].src_ip = pkt[d].src_ip
  OBVIOUS
<1> QED
  BY <1>2, <1>3, RecordsOfCPUs DEF SlotOwnership, Busy

LEMMA ReserveOwnership ==
  ASSUME TypeInv, SlotOwnership, NEW c \in CPUs, Reserve(c)
  PROVE  SlotOwnership' /\ ~InFlight(c)
<1> DEFINE n == Len(ring)
           r == [cpu |-> c, ip |-> pkt[c].src_ip, st |-> "busy"]
<1>1. /\ pc[c] = "reserve" /\ pc'[c] = "stats" /\ pkt[c].src_ip \in IPs
      /\ ring' = Append(ring, r) /\ ring \in Seq(Records) /\ n \in Nat
      /\ pkt'[c].src_ip = pkt[c].src_ip
      /\ \A d \in CPUs \ {c} : pc'[d] = pc[d] /\ pkt'[d] = pkt[d]
  BY OwnStep, LenProperties
  DEF Reserve, reserve, At, Goto, xdp_filter, TypeInv, TypeOK, RingTypeOK, Locals, LocalsAt
<1>2. r \in Records
  BY <1>1 DEF Records
<1>3. DOMAIN ring = 1 .. n /\ \A i \in 1 .. n : ring[i] \in Records
  BY <1>1, LenProperties, ElementOfSeq
<1>4. DOMAIN ring' = 1 .. (n + 1) /\ ring'[n + 1] = r /\ \A i \in 1 .. n : ring'[i] = ring[i]
  <2> HIDE DEF r
  <2>1. /\ ring' \in Seq(Records) /\ Len(ring') = n + 1
        /\ \A i \in 1 .. n : ring'[i] = ring[i] /\ ring'[n + 1] = r
    BY <1>1, <1>2, AppendProperties
  <2>2. ring'[n + 1] = r
    BY <1>1, <1>2, AppendProperties
  <2> QED
    BY <2>1, <2>2, LenProperties
<1>5. \A i \in 1 .. n : ring[i].st = "busy" => ring[i].cpu # c
  BY <1>1, <1>3 DEF SlotOwnership, Holding
<1>6. \A i \in 1 .. n : ring[i].cpu \in CPUs
  BY <1>3 DEF Records
<1>7. \A i \in DOMAIN ring' : ring'[i].st = "busy" =>
        /\ pc'[ring'[i].cpu] \in Holding
        /\ pkt'[ring'[i].cpu].src_ip = ring'[i].ip
  BY <1>1, <1>3, <1>4, <1>5, <1>6 DEF SlotOwnership, Holding, Labels
<1>8. ASSUME NEW d \in CPUs, pc'[d] \in Holding
      PROVE  \E i \in DOMAIN ring' : Busy(i, d)' /\ \A j \in DOMAIN ring' : Busy(j, d)' => i = j
  <2>1. CASE d = c
    BY <1>1, <1>3, <1>4, <1>5, <2>1 DEF Busy
  <2>2. CASE d # c
    <3>1. PICK i \in DOMAIN ring : Busy(i, d) /\ \A j \in DOMAIN ring : Busy(j, d) => i = j
      BY <1>1, <1>8, <2>2 DEF SlotOwnership
    <3>2. i \in DOMAIN ring' /\ Busy(i, d)'
      BY <1>1, <1>3, <1>4, <3>1 DEF Busy
    <3>3. ASSUME NEW j \in DOMAIN ring', Busy(j, d)'
          PROVE  i = j
      BY <1>1, <1>3, <1>4, <2>2, <3>1, <3>3 DEF Busy
    <3> QED
      BY <3>2, <3>3
  <2> QED
    BY <2>1, <2>2
<1>9. ~InFlight(c)
  BY <1>3, <1>5 DEF InFlight, Busy
<1> QED
  BY <1>7, <1>8, <1>9 DEF SlotOwnership

LEMMA SubmitOwnership ==
  ASSUME TypeInv, SlotOwnership, NEW c \in CPUs, Submit(c)
  PROVE  SlotOwnership' /\ InFlight(c)
<1>1. /\ pc[c] = "submit" /\ pc'[c] = "return" /\ pkt[c].ret \in Verdicts
      /\ UNCHANGED pkt /\ submit(c, pkt[c].ret)
      /\ \A d \in CPUs \ {c} : pc'[d] = pc[d]
  BY DEF Submit, At, Goto, TypeInv, TypeOK, Locals, LocalsAt, Deciding
<1>2. RingTypeOK /\ DOMAIN ring' = DOMAIN ring
  BY <1>1, SubmitType DEF TypeInv, TypeOK
<1>3. \A i \in DOMAIN ring : ring[i] \in Records
  BY <1>2, LenProperties, ElementOfSeq DEF RingTypeOK
<1>4. \A i \in DOMAIN ring : /\ Busy(i, c) => ring'[i].st # "busy"
                             /\ ~Busy(i, c) => ring'[i] = ring[i]
  BY <1>1, <1>3 DEF submit, Records, Verdicts
<1>5. \A i \in DOMAIN ring : ring'[i].st = "busy" => ring'[i] = ring[i] /\ ring[i].cpu # c
  BY <1>4 DEF Busy
<1>6. \A i \in DOMAIN ring : ring'[i].st = "busy" =>
        /\ pc'[ring'[i].cpu] \in Holding
        /\ pkt'[ring'[i].cpu].src_ip = ring'[i].ip
  BY <1>1, <1>3, <1>5 DEF SlotOwnership, Records
<1>7. ASSUME NEW d \in CPUs, pc'[d] \in Holding
      PROVE  \E i \in DOMAIN ring' : Busy(i, d)' /\ \A j \in DOMAIN ring' : Busy(j, d)' => i = j
  <2>1. d # c /\ pc[d] \in Holding
    BY <1>1, <1>7 DEF Holding
  <2>2. \A i \in DOMAIN ring : Busy(i, d)' <=> Busy(i, d)
    BY <1>4, <1>5, <2>1 DEF Busy
  <2> QED
    BY <1>2, <2>1, <2>2 DEF SlotOwnership
<1>8. InFlight(c)
  BY <1>1 DEF SlotOwnership, InFlight, Holding, Labels
<1> QED
  BY <1>2, <1>6, <1>7, <1>8 DEF SlotOwnership

LEMMA DrainOwnership ==
  ASSUME TypeInv, SlotOwnership, Drain
  PROVE  SlotOwnership'
<1> DEFINE n == Len(ring)
<1>1. /\ ring \in Seq(Records) /\ ring # <<>> /\ ring[1].st # "busy" /\ ring' = Tail(ring)
      /\ UNCHANGED <<pc, pkt>>
  BY DEF Drain, consume, Readable, TypeInv, TypeOK, RingTypeOK
<1>2. n \in Nat \ {0} /\ DOMAIN ring = 1 .. n
  BY <1>1, LenProperties, EmptySeq
<1>3. DOMAIN ring' = 1 .. (n - 1) /\ \A i \in 1 .. (n - 1) : ring'[i] = ring[i + 1]
  BY <1>1, <1>2, HeadTailProperties, LenProperties
<1>4. \A i \in DOMAIN ring' : i + 1 \in DOMAIN ring /\ ring'[i] = ring[i + 1]
  BY <1>2, <1>3
<1>5. ASSUME NEW d \in CPUs, pc'[d] \in Holding
      PROVE  \E i \in DOMAIN ring' : Busy(i, d)' /\ \A j \in DOMAIN ring' : Busy(j, d)' => i = j
  <2>1. PICK k \in DOMAIN ring : Busy(k, d) /\ \A j \in DOMAIN ring : Busy(j, d) => k = j
    BY <1>1, <1>5 DEF SlotOwnership
  <2>2. k # 1
    BY <1>1, <2>1 DEF Busy
  <2>3. k - 1 \in DOMAIN ring' /\ Busy(k - 1, d)'
    BY <1>2, <1>3, <2>1, <2>2 DEF Busy
  <2>4. ASSUME NEW j \in DOMAIN ring', Busy(j, d)'
        PROVE  k - 1 = j
    <3>1. k = j + 1
      BY <1>4, <2>1, <2>4 DEF Busy
    <3> QED
      BY <1>2, <1>3, <3>1
  <2> QED
    BY <2>3, <2>4
<1> QED
  BY <1>1, <1>4, <1>5 DEF SlotOwnership

LEMMA NextOwnership == TypeInv /\ SlotOwnership /\ [Next]_vars => SlotOwnership'
<1> SUFFICES ASSUME TypeInv, SlotOwnership, [Next]_vars
             PROVE  SlotOwnership'
  OBVIOUS
<1>1. RingTypeOK
  BY DEF TypeInv, TypeOK
<1>2. ASSUME NEW c \in CPUs, xdp_filter(c)
      PROVE  SlotOwnership'
  <2>1. CASE CountAll(c)
    <3>1. \A d \in CPUs : pc[d] \in Holding <=> pc'[d] \in Holding
      BY <2>1 DEF CountAll, At, Goto, Holding, Labels, TypeInv, TypeOK
    <3> QED
      BY <2>1, <3>1, RecordsOfCPUs DEF CountAll, SlotOwnership, Busy, TypeInv, TypeOK
  <2> QED
    BY <1>1, <1>2, <2>1, OwnStep, FilterStepKinds, PassiveOwnership, ReserveOwnership,
       SubmitOwnership, SMTT(30)
<1>3. ASSUME NEW c \in CPUs, NEW frame \in IPs \cup {NotIPv4}, Receive(c, frame)
      PROVE  SlotOwnership'
  BY <1>1, <1>3, ReceivePassive, PassiveOwnership
<1>4. CASE Update \/ Tick \/ UNCHANGED vars
  BY <1>4 DEF Update, Tick, vars, SlotOwnership, Busy
<1> QED
  BY <1>2, <1>3, <1>4, DrainOwnership DEF Next, Traffic

\* The busy records are exactly those of the CPUs between bpf_ringbuf_reserve
\* and bpf_ringbuf_submit: no path of xdp_filter leaks one.
THEOREM OwnershipCorrect == Spec => []SlotOwnership
<1>1. TypeInv /\ SlotOwnership /\ [Next]_vars => (TypeInv /\ SlotOwnership)'
  BY NextTypeInv, NextOwnership
<1>2. Init => TypeInv /\ SlotOwnership
  BY InitTypeInv, InitOwnership
<1> QED
  BY <1>1, <1>2, PTL DEF Spec

-----------------------------------------------------------------------------
(* The ring implements the queue that AccessLog is written against. *)

LEMMA RingStep == TypeInv /\ SlotOwnership /\ [Next]_vars => [FifoNext]_ring
<1> SUFFICES ASSUME TypeInv, SlotOwnership, [Next]_vars
             PROVE  [FifoNext]_ring
  OBVIOUS
<1>1. ASSUME NEW c \in CPUs, Reserve(c)
      PROVE  FifoNext
  <2>1. pkt[c].src_ip \in IPs /\ reserve(c, pkt[c].src_ip)
    BY <1>1 DEF Reserve, At, TypeInv, Locals, LocalsAt
  <2> QED
    BY <1>1, <2>1, ReserveOwnership DEF FifoNext
<1>2. ASSUME NEW c \in CPUs, Submit(c)
      PROVE  FifoNext
  <2>1. pkt[c].ret \in Verdicts /\ submit(c, pkt[c].ret)
    BY <1>2 DEF Submit, At, TypeInv, Locals, LocalsAt, Deciding
  <2> QED
    BY <1>2, <2>1, SubmitOwnership DEF FifoNext
<1>3. ASSUME NEW c \in CPUs, xdp_filter(c)
      PROVE  [FifoNext]_ring
  BY <1>1, <1>2, <1>3, FilterStepKinds DEF Passive, CountAll
<1>4. ASSUME NEW c \in CPUs, NEW frame \in IPs \cup {NotIPv4}, Receive(c, frame)
      PROVE  UNCHANGED ring
  BY <1>4 DEF Receive
<1>5. CASE Drain
  BY <1>5 DEF Drain, FifoNext
<1>6. CASE Update \/ Tick \/ UNCHANGED vars
  BY <1>6 DEF Update, Tick, vars
<1> QED
  BY <1>3, <1>4, <1>5, <1>6 DEF Next, Traffic

\* What xdp_filter and the log thread do to the ring is what FifoSpec, the
\* environment of AccessLog, allows.
THEOREM RingRefinesFifo == Spec => RingIsFifo
<1>1. Init => RingInit
  BY DEF Init
<1> QED
  BY <1>1, OwnershipCorrect, TypeCorrect, RingStep, PTL DEF Spec, RingIsFifo, FifoSpec, TypeInv

-----------------------------------------------------------------------------
(* SlotAccounting. *)

Uncounted == {c \in CPUs : pc[c] \in Holding \ {"submit"}}
Total == global_stats_map.DROP + global_stats_map.PASS

LEMMA UncountedFinite == IsFiniteSet(Uncounted) /\ Cardinality(Uncounted) \in Nat
<1>1. Uncounted \subseteq CPUs /\ IsFiniteSet(CPUs)
  BY XdpAssumption DEF Uncounted
<1> QED
  BY <1>1, FS_Subset, FS_CardinalityType

LEMMA InitAccounting == Init => SlotAccounting
<1> SUFFICES ASSUME Init
             PROVE  SlotAccounting
  OBVIOUS
<1>1. {c \in CPUs : pc[c] \in Holding \ {"submit"}} = {}
  BY DEF Init, Holding
<1>2. Cardinality({c \in CPUs : pc[c] \in Holding \ {"submit"}}) = 0
  BY <1>1, FS_EmptySet
<1>3. reserved = 0 /\ global_stats_map.DROP = 0 /\ global_stats_map.PASS = 0
  BY DEF Init, Zero
<1> QED
  BY <1>2, <1>3 DEF SlotAccounting

LEMMA NextAccounting == TypeInv /\ SlotAccounting /\ [Next]_vars => SlotAccounting'
<1> SUFFICES ASSUME TypeInv, SlotAccounting, [Next]_vars
             PROVE  SlotAccounting'
  OBVIOUS
<1>1. /\ reserved \in Nat /\ Total \in Nat /\ reserved = Total + Cardinality(Uncounted)
      /\ pc \in [CPUs -> Labels]
  BY DEF TypeInv, TypeOK, Counts, Total, SlotAccounting, Uncounted
<1>2. ASSUME reserved' = Total' + Cardinality(Uncounted')
      PROVE  SlotAccounting'
  BY <1>2 DEF SlotAccounting, Total, Uncounted
<1>3. ASSUME UNCHANGED <<reserved, global_stats_map>>, Uncounted' = Uncounted
      PROVE  SlotAccounting'
  BY <1>1, <1>2, <1>3 DEF Total
<1>4. ASSUME NEW c \in CPUs, Reserve(c)
      PROVE  SlotAccounting'
  <2>1. c \notin Uncounted /\ Uncounted' = Uncounted \cup {c}
    BY <1>1, <1>4 DEF Reserve, At, Goto, Uncounted, Holding, Labels
  <2>2. Cardinality(Uncounted') = Cardinality(Uncounted) + 1
    BY <2>1, UncountedFinite, FS_AddElement
  <2>3. reserved' = reserved + 1 /\ Total' = Total
    BY <1>4 DEF Reserve, statsVars, Total
  <2> QED
    BY <1>1, <1>2, <2>2, <2>3, UncountedFinite
<1>5. ASSUME NEW c \in CPUs, CountAll(c)
      PROVE  SlotAccounting'
  <2>1. c \in Uncounted /\ Uncounted' = Uncounted \ {c}
    BY <1>1, <1>5 DEF CountAll, At, Goto, Uncounted, Holding, Labels
  <2>2. Cardinality(Uncounted') = Cardinality(Uncounted) - 1
    BY <2>1, UncountedFinite, FS_RemoveElement
  <2>3. pkt[c].ret \in Verdicts /\ global_stats_map \in Counts
    BY <1>5 DEF CountAll, At, TypeInv, TypeOK, Locals, LocalsAt, Deciding
  <2>4. global_stats_map' = [global_stats_map EXCEPT ![pkt[c].ret] = @ + 1]
    BY <1>5 DEF CountAll
  <2>5. Total' = Total + 1
    <3>1. CASE pkt[c].ret = "DROP"
      BY <2>3, <2>4, <3>1 DEF Total, Counts
    <3>2. CASE pkt[c].ret = "PASS"
      BY <2>3, <2>4, <3>2 DEF Total, Counts
    <3> QED
      BY <2>3, <3>1, <3>2 DEF Verdicts
  <2>6. UNCHANGED reserved
    BY <1>5 DEF CountAll
  <2> QED
    BY <1>1, <1>2, <2>2, <2>5, <2>6, UncountedFinite
<1>6. ASSUME NEW c \in CPUs, Submit(c)
      PROVE  SlotAccounting'
  <2>1. Uncounted' = Uncounted
    BY <1>1, <1>6 DEF Submit, At, Goto, Uncounted, Holding
  <2> QED
    BY <1>3, <1>6, <2>1 DEF Submit, statsVars
<1>7. ASSUME NEW c \in CPUs, Passive(c), \A d \in CPUs \ {c} : pc'[d] = pc[d]
      PROVE  SlotAccounting'
  <2>1. Uncounted' = Uncounted
    BY <1>7 DEF Passive, Uncounted
  <2> QED
    BY <1>3, <1>7, <2>1 DEF Passive
<1>8. CASE Update \/ Drain \/ Tick \/ UNCHANGED vars
  BY <1>3, <1>8 DEF Update, Drain, Tick, vars, statsVars, Uncounted
<1> QED
  BY <1>4, <1>5, <1>6, <1>7, <1>8, FilterStepKinds, OwnStep, ReceivePassive DEF Next, Traffic

\* Every record that xdp_filter reserves is counted exactly once in
\* global_stats_map, on every path to log_drop or log_pass.
THEOREM AccountingCorrect == Spec => []SlotAccounting
<1>1. TypeInv /\ SlotAccounting /\ [Next]_vars => (TypeInv /\ SlotAccounting)'
  BY NextTypeInv, NextAccounting
<1>2. Init => TypeInv /\ SlotAccounting
  BY InitTypeInv, InitAccounting
<1> QED
  BY <1>1, <1>2, PTL DEF Spec

-----------------------------------------------------------------------------
(* OneUpdateVerdict: the list checks read four things at four moments, and   *)
(* still decide as if they had read them at once when at most one update of  *)
(* the maps happens meanwhile.                                               *)


Limiting == Stamping \cup {"rl_state", "rl_lookup"}
Logged(c) == pc[c] \in Holding \/ (At(c, "return") /\ pkt[c].log)

BlacklistVerdict(ip) ==
  IF is_config_enabled("blacklist") /\ Listed("blacklist", ip) THEN "DROP" ELSE "PASS"

\* The verdict of the list checks on the packet of c, if no more updates
\* happen: what has been read stays, the rest is read from the maps of now.
Projected(c) ==
  LET ip == pkt[c].src_ip
  IN  CASE pc[c] = "wl_lookup" ->
             IF Listed("whitelist", ip) THEN BlacklistVerdict(ip) ELSE "DROP"
        [] pc[c] = "bl_state" -> BlacklistVerdict(ip)
        [] pc[c] = "bl_lookup" -> IF Listed("blacklist", ip) THEN "DROP" ELSE "PASS"
        [] pc[c] \in Limiting -> "PASS"
        [] pc[c] \in Deciding \cup {"return"} -> IF DroppedByList(c) THEN "DROP" ELSE "PASS"
        [] OTHER -> ListVerdict(ip)

\* What the packet of c has read so far still holds.
ReadsHold(c) ==
  /\ pc[c] = "wl_lookup" => is_config_enabled("whitelist")
  /\ pc[c] \in {"bl_state", "bl_lookup"} =>
       (is_config_enabled("whitelist") => Listed("whitelist", pkt[c].src_ip))
  /\ pc[c] = "bl_lookup" => is_config_enabled("blacklist")

\* log and interval tell the paths of a packet apart.
PathLocals(c) ==
  /\ pc[c] \in {"idle", "reserve"} => ~pkt[c].log
  /\ pc[c] \in Labels \ (Stamping \cup Deciding \cup {"return"}) => pkt[c].interval = None
  /\ pkt[c].log => pkt[c].src_ip \in IPs

CInv(c) ==
  /\ PathLocals(c)
  /\ pkt[c].src_ip \in IPs => ListVerdict(pkt[c].src_ip) \in seen[c].lists
  /\ Logged(c) /\ seen[c].updates = 0 =>
       Projected(c) = ListVerdict(pkt[c].src_ip) /\ ReadsHold(c)
  /\ Logged(c) /\ seen[c].updates = 1 => Projected(c) \in seen[c].lists

ListInv == \A c \in CPUs : CInv(c)

LEMMA InitListInv == Init => ListInv
  BY XdpAssumption
  DEF Init, ListInv, CInv, PathLocals, NoPacket, Logged, Holding, Stamping, Deciding, At

LEMMA IntervalIsNotNone == \A i \in Intervals : i # None
  BY MapsAssumption DEF Intervals

\* A CPU is not affected by a step that leaves it and the maps alone.
LEMMA FrameListInv ==
  ASSUME NEW d \in CPUs, CInv(d), UNCHANGED configMaps,
         pc'[d] = pc[d], pkt'[d] = pkt[d], seen'[d] = seen[d]
  PROVE  CInv(d)'
<1>1. /\ Projected(d)' = Projected(d) /\ ListVerdict(pkt[d].src_ip)' = ListVerdict(pkt[d].src_ip)
  BY DEF Projected, BlacklistVerdict, DroppedByList, ListVerdict, Rejected, Listed,
         is_config_enabled, configMaps
<1> QED
  BY <1>1 DEF CInv, PathLocals, Logged, ReadsHold, Listed, is_config_enabled, configMaps, At

\* A step between reserve and return keeps the projected verdict.
LEMMA ProjectedStays ==
  ASSUME NEW c \in CPUs, CInv(c), UNCHANGED <<configMaps, seen>>, PathLocals(c)',
         pkt'[c].src_ip = pkt[c].src_ip, Logged(c), Projected(c)' = Projected(c),
         ReadsHold(c) => ReadsHold(c)'
  PROVE  CInv(c)'
<1>1. ListVerdict(pkt[c].src_ip)' = ListVerdict(pkt[c].src_ip)
  BY DEF ListVerdict, Rejected, Listed, is_config_enabled, configMaps
<1> QED
  BY <1>1 DEF CInv

Unlisted == {"stats", "stats_init", "stats_again", "wl_state"}

\* Before the list checks, the projected verdict is that of the maps.
LEMMA ProjectedBefore ==
  ASSUME NEW c \in CPUs, pc[c] \in Unlisted
  PROVE  Projected(c) = ListVerdict(pkt[c].src_ip)
  BY DEF Projected, Unlisted, Limiting, Stamping, Deciding

\* ... and after them, that of the packet.
LEMMA ProjectedAfter ==
  ASSUME NEW c \in CPUs
  PROVE  /\ pc[c] \in Limiting => Projected(c) = "PASS"
         /\ pc[c] \in Deciding \cup {"return"} =>
              Projected(c) = IF DroppedByList(c) THEN "DROP" ELSE "PASS"
  BY DEF Projected, Limiting, Stamping, Deciding

LEMMA ReserveListInv ==
  ASSUME TypeInv, NEW c \in CPUs, CInv(c), Reserve(c)
  PROVE  CInv(c)'
<1>1. /\ pc[c] = "reserve" /\ pc'[c] = "stats" /\ UNCHANGED <<configMaps, seen>>
      /\ pkt[c] \in Packets /\ pkt' = [pkt EXCEPT ![c].log = TRUE] /\ pkt \in [CPUs -> Packets]
      /\ pkt[c].src_ip \in IPs
  BY DEF Reserve, At, Goto, envVars, TypeInv, TypeOK, Locals, LocalsAt
<1>2. pkt'[c].src_ip = pkt[c].src_ip /\ pkt'[c].interval = pkt[c].interval
  BY <1>1 DEF Packets
<1>3. Projected(c)' = ListVerdict(pkt[c].src_ip)' /\ ReadsHold(c)'
  BY <1>1 DEF Projected, Limiting, Stamping, Deciding, ReadsHold
<1>4. ListVerdict(pkt[c].src_ip)' = ListVerdict(pkt[c].src_ip)
  BY <1>1, <1>2 DEF ListVerdict, Rejected, Listed, is_config_enabled, configMaps
<1>5. PathLocals(c)'
  BY <1>1, <1>2 DEF CInv, PathLocals, Stamping, Deciding, Labels
<1> QED
  BY <1>1, <1>2, <1>3, <1>4, <1>5 DEF CInv

LEMMA ReserveFailsListInv ==
  ASSUME TypeInv, NEW c \in CPUs, CInv(c), ReserveFails(c)
  PROVE  CInv(c)'
<1>1. /\ pc[c] = "reserve" /\ pc'[c] = "return" /\ UNCHANGED <<configMaps, seen>>
      /\ pkt' = [pkt EXCEPT ![c].ret = "PASS"] /\ pkt \in [CPUs -> Packets]
  BY DEF ReserveFails, At, Goto, envVars, TypeInv, TypeOK
<1>2. pkt'[c].src_ip = pkt[c].src_ip /\ pkt'[c].log = pkt[c].log
  BY <1>1 DEF Packets
<1>3. ListVerdict(pkt[c].src_ip)' = ListVerdict(pkt[c].src_ip)
  BY <1>1, <1>2 DEF ListVerdict, Rejected, Listed, is_config_enabled, configMaps
<1>4. ~pkt[c].log /\ PathLocals(c)' /\ ~Logged(c)'
  BY <1>1, <1>2 DEF CInv, PathLocals, Logged, At, Holding
<1> QED
  BY <1>1, <1>2, <1>3, <1>4 DEF CInv

LEMMA StatsListInv ==
  ASSUME TypeInv, NEW c \in CPUs, CInv(c), StatsLookup(c) \/ StatsInit(c)
  PROVE  CInv(c)'
<1>1. /\ pc[c] \in Unlisted /\ pc'[c] \in Unlisted /\ UNCHANGED <<configMaps, seen>>
      /\ pkt' = pkt \/ \E v : pkt' = [pkt EXCEPT ![c].ip_stats = v]
      /\ pkt \in [CPUs -> Packets]
  BY Zenon DEF StatsLookup, StatsInit, Unlisted, At, Goto, envVars, TypeInv, TypeOK
<1>2. /\ pkt'[c].src_ip = pkt[c].src_ip /\ pkt'[c].log = pkt[c].log
      /\ pkt'[c].interval = pkt[c].interval
  BY <1>1 DEF Packets
<1>3. Projected(c)' = Projected(c)
  BY <1>1, <1>2 DEF Projected, Unlisted, Limiting, Stamping, Deciding, ListVerdict, Rejected,
                    Listed, is_config_enabled, configMaps
<1>4. PathLocals(c)' /\ ReadsHold(c)' /\ Logged(c)
  BY <1>1, <1>2
  DEF CInv, PathLocals, ReadsHold, Logged, Unlisted, Stamping, Deciding, Labels, Holding
<1> QED
  BY <1>1, <1>2, <1>3, <1>4, ProjectedStays

LEMMA StateCheckListInv ==
  ASSUME TypeInv, NEW c \in CPUs, CInv(c), StateCheck(c)
  PROVE  CInv(c)'
<1>1. UNCHANGED <<configMaps, seen, pkt>> /\ pc \in [CPUs -> Labels]
  BY DEF StateCheck, envVars, TypeInv, TypeOK
<1>2. \/ pc[c] = "wl_state" /\ is_config_enabled("whitelist") /\ pc'[c] = "wl_lookup"
      \/ pc[c] = "wl_state" /\ ~is_config_enabled("whitelist") /\ pc'[c] = "bl_state"
      \/ pc[c] = "bl_state" /\ is_config_enabled("blacklist") /\ pc'[c] = "bl_lookup"
      \/ pc[c] = "bl_state" /\ ~is_config_enabled("blacklist") /\ pc'[c] = "rl_state"
      \/ pc[c] = "rl_state" /\ pc'[c] = "rl_lookup"
  BY <1>1 DEF StateCheck, At, Goto
<1>3. Projected(c)' = Projected(c)
  BY <1>1, <1>2 DEF Projected, Limiting, Stamping, Deciding, ListVerdict, BlacklistVerdict,
                    Rejected, Listed, is_config_enabled, configMaps
<1>4. PathLocals(c)' /\ Logged(c)
  BY <1>1, <1>2 DEF CInv, PathLocals, Logged, Stamping, Deciding, Labels, Holding
<1>5. ReadsHold(c) => ReadsHold(c)'
  BY <1>1, <1>2 DEF ReadsHold, Listed, is_config_enabled, configMaps
<1> QED
  BY <1>1, <1>3, <1>4, <1>5, ProjectedStays

\* The locals after Decide.
LEMMA DecideLocals ==
  ASSUME TypeInv, NEW c \in CPUs, NEW v \in Verdicts, Decide(c, v)
  PROVE  /\ pc'[c] = "count_ip" /\ pkt'[c].ret = v /\ pkt'[c].src_ip = pkt[c].src_ip
         /\ pkt'[c].log = pkt[c].log /\ pkt'[c].interval = pkt[c].interval
  BY DEF Decide, Goto, TypeInv, TypeOK, Packets

LEMMA ListLookupListInv ==
  ASSUME TypeInv, NEW c \in CPUs, CInv(c), WhitelistLookup(c) \/ BlacklistLookup(c)
  PROVE  CInv(c)'
<1> DEFINE ip == pkt[c].src_ip
<1>1. /\ UNCHANGED <<configMaps, seen>> /\ pc[c] \in {"wl_lookup", "bl_lookup"}
      /\ pkt[c].interval = None
  BY DEF WhitelistLookup, BlacklistLookup, At, envVars, CInv, PathLocals, Labels, Stamping, Deciding
<1>2. \/ pc[c] = "wl_lookup" /\ ~Listed("whitelist", ip) /\ Decide(c, "DROP")
      \/ pc[c] = "bl_lookup" /\ Listed("blacklist", ip) /\ Decide(c, "DROP")
      \/ pc[c] = "wl_lookup" /\ Listed("whitelist", ip) /\ pc'[c] = "bl_state" /\ UNCHANGED pkt
      \/ pc[c] = "bl_lookup" /\ ~Listed("blacklist", ip) /\ pc'[c] = "rl_state" /\ UNCHANGED pkt
  BY DEF WhitelistLookup, BlacklistLookup, At, Goto, TypeInv, TypeOK
<1>3. CASE UNCHANGED pkt /\ pc'[c] \in {"bl_state", "rl_state"}
  <2>1. \/ pc[c] = "wl_lookup" /\ Listed("whitelist", ip) /\ pc'[c] = "bl_state"
        \/ pc[c] = "bl_lookup" /\ ~Listed("blacklist", ip) /\ pc'[c] = "rl_state"
    BY <1>2, <1>3, DecideLocals DEF Verdicts
  <2>2. Projected(c)' = Projected(c)
    BY <1>1, <1>3, <2>1
    DEF Projected, Limiting, Stamping, Deciding, BlacklistVerdict, Listed, is_config_enabled, configMaps
  <2>3. ReadsHold(c)'
    BY <1>1, <1>3, <2>1 DEF ReadsHold, Listed, configMaps
  <2>4. PathLocals(c)' /\ Logged(c)
    BY <1>1, <1>3
    DEF CInv, PathLocals, Logged, Stamping, Deciding, Labels, Holding
  <2> QED
    BY <1>1, <1>3, <2>2, <2>3, <2>4, ProjectedStays
<1>4. CASE Decide(c, "DROP")
  <2>1. /\ pc'[c] = "count_ip" /\ pkt'[c].ret = "DROP" /\ pkt'[c].src_ip = ip
        /\ pkt'[c].log = pkt[c].log /\ pkt'[c].interval = None
    BY <1>1, <1>4, DecideLocals DEF Verdicts
  <2>2. \/ pc[c] = "wl_lookup" /\ ~Listed("whitelist", ip)
        \/ pc[c] = "bl_lookup" /\ Listed("blacklist", ip)
    BY <1>2, <2>1
  <2>3. Projected(c) = "DROP"
    BY <2>2 DEF Projected, Limiting, Stamping, Deciding
  <2>4. Projected(c)' = "DROP"
    BY <2>1 DEF Projected, Limiting, Stamping, Deciding, DroppedByList
  <2>5. PathLocals(c)' /\ ReadsHold(c)' /\ Logged(c)
    BY <1>1, <2>1 DEF CInv, PathLocals, ReadsHold, Logged, Stamping, Deciding, Labels, Holding
  <2> QED
    BY <1>1, <2>1, <2>3, <2>4, <2>5, ProjectedStays
<1> QED
  BY <1>2, <1>3, <1>4

\* The rate limiter and what follows do not touch the verdict of the lists.
LEMMA LimiterListInv ==
  ASSUME TypeInv, NEW c \in CPUs, CInv(c),
         \/ NotLimited(c) \/ RateLookup(c) \/ TimestampLookup(c) \/ TimestampCheck(c)
         \/ TimestampInit(c) \/ TimestampStore(c)
  PROVE  CInv(c)'
<1>1. /\ UNCHANGED <<configMaps, seen>> /\ pc[c] \in Limiting
      /\ pc \in [CPUs -> Labels] /\ pkt \in [CPUs -> Packets] /\ pkt[c] \in Packets
  BY DEF NotLimited, RateLookup, TimestampLookup, TimestampCheck, TimestampInit, TimestampStore,
         At, envVars, Limiting, Stamping, TypeInv, TypeOK
<1>2. pc[c] \in Stamping => pkt[c].interval # None
  BY IntervalIsNotNone DEF TypeInv, Locals, LocalsAt
<1>3. Projected(c) = "PASS" /\ Logged(c)
  BY <1>1, ProjectedAfter DEF Logged, Holding, Labels, Limiting, Stamping
<1>4. CASE \E v \in Verdicts : Decide(c, v) /\ (v = "DROP" => pc[c] \in Stamping)
  <2>1. PICK v \in Verdicts : Decide(c, v) /\ (v = "DROP" => pc[c] \in Stamping)
    BY <1>4
  <2>2. /\ pc'[c] = "count_ip" /\ pkt'[c].ret = v /\ pkt'[c].src_ip = pkt[c].src_ip
        /\ pkt'[c].log = pkt[c].log /\ pkt'[c].interval = pkt[c].interval
    BY <2>1, DecideLocals
  <2>3. Projected(c)' = "PASS"
    BY <1>2, <2>1, <2>2 DEF Projected, Limiting, Stamping, Deciding, DroppedByList
  <2>4. PathLocals(c)' /\ ReadsHold(c)'
    BY <2>2 DEF CInv, PathLocals, ReadsHold, Deciding
  <2> QED
    BY <1>1, <1>3, <2>2, <2>3, <2>4, ProjectedStays
<1>5. CASE /\ pc'[c] \in Stamping
           /\ \/ UNCHANGED pkt
              \/ \E v : pkt' = [pkt EXCEPT ![c].interval = v]
              \/ \E v : pkt' = [pkt EXCEPT ![c].timestamp = v]
  <2>1. pkt'[c].src_ip = pkt[c].src_ip /\ pkt'[c].log = pkt[c].log
    BY <1>1, <1>5 DEF Packets
  <2>2. Projected(c)' = "PASS"
    BY <1>5 DEF Projected, Limiting, Stamping, Deciding
  <2>3. PathLocals(c)' /\ ReadsHold(c)'
    BY <1>5, <2>1 DEF CInv, PathLocals, ReadsHold, Stamping
  <2> QED
    BY <1>1, <1>3, <2>1, <2>2, <2>3, ProjectedStays
<1>6. ASSUME NotLimited(c) \/ TimestampInit(c) \/ TimestampStore(c)
      PROVE  Decide(c, "PASS")
  BY <1>6, Zenon DEF NotLimited, TimestampInit, TimestampStore, Admit
<1>7. ASSUME RateLookup(c) \/ TimestampLookup(c)
      PROVE  CInv(c)'
  BY <1>1, <1>5, <1>7 DEF RateLookup, TimestampLookup, Goto, Stamping
<1>8. ASSUME TimestampCheck(c)
      PROVE  CInv(c)'
  <2>1. pc[c] \in Stamping
    BY <1>8 DEF TimestampCheck, At, Stamping
  <2>2. \/ Decide(c, "DROP")
        \/ pc'[c] \in Stamping /\ \E v : pkt' = [pkt EXCEPT ![c].interval = v]
    BY <1>1, <1>8 DEF TimestampCheck, Goto, Stamping
  <2> QED
    BY <1>4, <1>5, <2>1, <2>2 DEF Verdicts
<1> QED
  BY <1>4, <1>6, <1>7, <1>8 DEF Verdicts

LEMMA CountListInv ==
  ASSUME TypeInv, NEW c \in CPUs, CInv(c), CountIp(c) \/ CountAll(c) \/ Submit(c)
  PROVE  CInv(c)'
<1>1. /\ UNCHANGED <<configMaps, seen, pkt>> /\ pc[c] \in Deciding
      /\ pc'[c] \in Deciding \cup {"return"}
  BY DEF CountIp, CountAll, Submit, At, Goto, envVars, Deciding, TypeInv, TypeOK
<1>2. Projected(c)' = Projected(c)
  BY <1>1 DEF Projected, Limiting, Stamping, Deciding, DroppedByList
<1>3. PathLocals(c)' /\ ReadsHold(c)' /\ Logged(c)
  BY <1>1 DEF CInv, PathLocals, ReadsHold, Logged, Stamping, Deciding, Labels, Holding
<1> QED
  BY <1>1, <1>2, <1>3, ProjectedStays

LEMMA ReturnListInv ==
  ASSUME TypeInv, NEW c \in CPUs, Return(c)
  PROVE  CInv(c)'
<1>1. pc'[c] = "idle" /\ pkt'[c] = NoPacket
  BY DEF Return, Goto, TypeInv, TypeOK
<1> QED
  BY <1>1, XdpAssumption DEF CInv, PathLocals, NoPacket, Logged, Holding, At

LEMMA ReceiveListInv ==
  ASSUME TypeInv, NEW c \in CPUs, NEW frame \in IPs \cup {NotIPv4}, Receive(c, frame)
  PROVE  CInv(c)'
<1>1. /\ pc'[c] \in {"reserve", "return"} /\ UNCHANGED configMaps
      /\ pkt'[c].src_ip = frame /\ pkt'[c].log = FALSE /\ pkt'[c].interval = None
  BY DEF Receive, Goto, NoPacket, TypeInv, TypeOK
<1>2. frame \in IPs => ListVerdict(frame) \in seen'[c].lists
  BY XdpAssumption DEF Receive, TypeInv, TypeOK
<1>3. ListVerdict(pkt[c].src_ip)' = ListVerdict(frame)
  BY <1>1 DEF ListVerdict, Rejected, Listed, is_config_enabled, configMaps
<1>4. PathLocals(c)' /\ ~Logged(c)'
  BY <1>1 DEF PathLocals, Logged, Holding, At
<1> QED
  BY <1>1, <1>2, <1>3, <1>4 DEF CInv

\* One update changes one flag or one list.
LEMMA OneChange ==
  ASSUME MapsTypeOK, MapUpdate
  PROVE  \/ /\ UNCHANGED subnets_map
            /\ \E k \in ConfigKeys : \A j \in ConfigKeys \ {k} : config_state_map'[j] = config_state_map[j]
         \/ /\ UNCHANGED config_state_map
            /\ \E l \in Lists : \A m \in Lists \ {l} : subnets_map'[m] = subnets_map[m]
<1>1. ASSUME NEW k \in ConfigKeys, NEW v \in {0, 1}, SetState(k, v)
      PROVE  /\ UNCHANGED subnets_map
             /\ \A j \in ConfigKeys \ {k} : config_state_map'[j] = config_state_map[j]
  BY <1>1 DEF SetState, MapsTypeOK
<1>2. ASSUME NEW l \in Lists, NEW key \in Keys, add_ip_subnets(l, key) \/ remove_ip_subnets(l, key)
      PROVE  /\ UNCHANGED config_state_map
             /\ \A m \in Lists \ {l} : subnets_map'[m] = subnets_map[m]
  BY <1>2 DEF add_ip_subnets, remove_ip_subnets, MapsTypeOK
<1>3. ASSUME NEW ip \in IPs, (\E pps \in Pps : add_rate_limit(ip, pps)) \/ remove_rate_limit(ip)
      PROVE  UNCHANGED <<config_state_map, subnets_map>>
  BY <1>3 DEF add_rate_limit, remove_rate_limit
<1>4. "blacklist" \in Lists
  BY DEF Lists
<1> QED
  BY <1>1, <1>2, <1>3, <1>4 DEF MapUpdate

\* An update in the middle of the list checks of c: what they will say is what
\* the maps said before it or what they say after it.
LEMMA UpdateProjected ==
  ASSUME MapsTypeOK, MapUpdate, NEW c \in CPUs, UNCHANGED <<pc, pkt>>,
         Projected(c) = ListVerdict(pkt[c].src_ip), ReadsHold(c)
  PROVE  \/ Projected(c)' = ListVerdict(pkt[c].src_ip)
         \/ Projected(c)' = ListVerdict(pkt[c].src_ip)'
<1> DEFINE ip == pkt[c].src_ip
           we == is_config_enabled("whitelist")
           wl == Listed("whitelist", ip)
           be == is_config_enabled("blacklist")
           bl == Listed("blacklist", ip)
<1>1. \/ (wl' <=> wl) /\ (be' <=> be) /\ (bl' <=> bl)
      \/ (we' <=> we) /\ (be' <=> be) /\ (bl' <=> bl)
      \/ (we' <=> we) /\ (wl' <=> wl) /\ (bl' <=> bl)
      \/ (we' <=> we) /\ (wl' <=> wl) /\ (be' <=> be)
  BY OneChange DEF is_config_enabled, Listed, ConfigKeys, Lists
<1>2. ListVerdict(ip) = IF (we /\ ~wl) \/ (be /\ bl) THEN "DROP" ELSE "PASS"
  BY DEF ListVerdict, Rejected
<1>3. ListVerdict(ip)' = IF (we' /\ ~wl') \/ (be' /\ bl') THEN "DROP" ELSE "PASS"
  BY DEF ListVerdict, Rejected
<1> HIDE DEF we, wl, be, bl
<1>4. CASE pc[c] = "wl_lookup"
  <2>1. /\ we /\ Projected(c) = IF wl /\ ~(be /\ bl) THEN "PASS" ELSE "DROP"
        /\ Projected(c)' = IF wl' /\ ~(be' /\ bl') THEN "PASS" ELSE "DROP"
    BY <1>4 DEF Projected, ReadsHold, BlacklistVerdict, we, wl, be, bl, Limiting, Stamping, Deciding
  <2> QED
    BY <1>1, <1>2, <1>3, <2>1
<1>5. CASE pc[c] = "bl_state"
  <2>1. /\ we => wl
        /\ Projected(c) = IF be /\ bl THEN "DROP" ELSE "PASS"
        /\ Projected(c)' = IF be' /\ bl' THEN "DROP" ELSE "PASS"
    BY <1>5 DEF Projected, ReadsHold, BlacklistVerdict, we, wl, be, bl, Limiting, Stamping, Deciding
  <2> QED
    BY <1>1, <1>2, <1>3, <2>1
<1>6. CASE pc[c] = "bl_lookup"
  <2>1. /\ we => wl
        /\ be /\ Projected(c) = IF bl THEN "DROP" ELSE "PASS"
        /\ Projected(c)' = IF bl' THEN "DROP" ELSE "PASS"
    BY <1>6 DEF Projected, ReadsHold, we, wl, be, bl, Limiting, Stamping, Deciding
  <2> QED
    BY <1>1, <1>2, <1>3, <2>1
<1>7. CASE pc[c] \in Limiting \cup Deciding \cup {"return"}
  BY <1>7 DEF Projected, Limiting, Stamping, Deciding, DroppedByList
<1>8. CASE pc[c] \notin Limiting \cup Deciding \cup {"return", "wl_lookup", "bl_state", "bl_lookup"}
  BY <1>8 DEF Projected, Limiting, Stamping, Deciding
<1> QED
  BY <1>4, <1>5, <1>6, <1>7, <1>8, SMTT(30)

LEMMA UpdateListInv ==
  ASSUME TypeInv, NEW c \in CPUs, CInv(c), Update
  PROVE  CInv(c)'
<1>1. /\ UNCHANGED <<pc, pkt>> /\ MapsTypeOK /\ MapUpdate /\ pkt[c] \in Packets
      /\ seen[c].updates \in Nat /\ LocalsAt(pc[c], pkt[c])
  BY DEF Update, TypeInv, TypeOK, Locals
<1>2. PathLocals(c)' /\ (Logged(c)' <=> Logged(c))
  BY <1>1 DEF CInv, PathLocals, Logged, At
<1>3. CASE pkt[c].src_ip = NotIPv4
  <2>1. pkt[c].src_ip \notin IPs /\ ~Logged(c)
    BY <1>1, <1>3, XdpAssumption DEF LocalsAt, CInv, PathLocals, Logged
  <2> QED
    BY <1>1, <1>2, <2>1 DEF CInv
<1>4. CASE pkt[c].src_ip # NotIPv4
  <2>1. pkt[c].src_ip \in IPs
    BY <1>1, <1>4 DEF Packets
  <2>2. /\ seen'[c].updates = seen[c].updates + 1
        /\ seen'[c].lists = seen[c].lists \cup {ListVerdict(pkt[c].src_ip)'}
    BY <1>4 DEF Update
  <2>3. ASSUME Logged(c), seen[c].updates = 0
        PROVE  Projected(c)' \in seen'[c].lists
    <3>1. Projected(c) = ListVerdict(pkt[c].src_ip) /\ ReadsHold(c)
      BY <2>3 DEF CInv
    <3>2. ListVerdict(pkt[c].src_ip) \in seen[c].lists
      BY <2>1 DEF CInv
    <3> QED
      BY <1>1, <2>2, <3>1, <3>2, UpdateProjected
  <2>4. ListVerdict(pkt[c].src_ip)' \in seen'[c].lists
    BY <2>2
  <2> QED
    BY <1>1, <1>2, <2>2, <2>3, <2>4 DEF CInv
<1> QED
  BY <1>3, <1>4

LEMMA NextListInv == TypeInv /\ ListInv /\ [Next]_vars => ListInv'
<1> SUFFICES ASSUME TypeInv, ListInv, [Next]_vars, NEW d \in CPUs
             PROVE  CInv(d)'
  BY DEF ListInv
<1>1. CInv(d)
  BY DEF ListInv
<1>2. ASSUME xdp_filter(d)
      PROVE  CInv(d)'
  BY <1>1, <1>2, ReserveListInv, ReserveFailsListInv, StatsListInv, StateCheckListInv,
     ListLookupListInv, LimiterListInv, CountListInv, ReturnListInv, SMTT(30) DEF xdp_filter
<1>3. ASSUME NEW c \in CPUs \ {d}, xdp_filter(c)
      PROVE  CInv(d)'
  <2>1. pc'[d] = pc[d] /\ pkt'[d] = pkt[d]
    BY <1>3, OwnStep, SMTT(30)
  <2>2. seen'[d] = seen[d] /\ UNCHANGED configMaps
    BY <1>3
    DEF xdp_filter, Reserve, ReserveFails, StatsLookup, StatsInit, StateCheck, WhitelistLookup,
        BlacklistLookup, NotLimited, RateLookup, TimestampLookup, TimestampInit, TimestampCheck,
        TimestampStore, CountIp, CountAll, Submit, Return, envVars, TypeInv, TypeOK
  <2> QED
    BY <1>1, <2>1, <2>2, FrameListInv
<1>4. ASSUME NEW c \in CPUs, NEW frame \in IPs \cup {NotIPv4}, Receive(c, frame)
      PROVE  CInv(d)'
  <2>1. CASE c = d
    BY <1>4, <2>1, ReceiveListInv
  <2>2. CASE c # d
    <3>1. pc'[d] = pc[d] /\ pkt'[d] = pkt[d] /\ seen'[d] = seen[d] /\ UNCHANGED configMaps
      BY <1>4, <2>2 DEF Receive, Goto, TypeInv, TypeOK
    <3> QED
      BY <1>1, <3>1, FrameListInv
  <2> QED
    BY <2>1, <2>2
<1>5. CASE Drain \/ Tick \/ UNCHANGED vars
  BY <1>1, <1>5, FrameListInv DEF Drain, Tick, vars, envVars
<1> QED
  BY <1>1, <1>2, <1>3, <1>4, <1>5, UpdateListInv DEF Next, Traffic

LEMMA ListInvSuffices == TypeInv /\ ListInv => OneUpdateVerdict
<1> SUFFICES ASSUME TypeInv, ListInv, NEW c \in CPUs,
                    At(c, "return"), pkt[c].log, seen[c].updates <= 1
             PROVE  (IF DroppedByList(c) THEN "DROP" ELSE "PASS") \in seen[c].lists
  BY DEF OneUpdateVerdict
<1>1. seen[c].updates = 0 \/ seen[c].updates = 1
  BY DEF TypeInv, TypeOK
<1>2. Logged(c) /\ CInv(c) /\ pkt[c].src_ip \in IPs
  BY DEF Logged, ListInv, CInv, PathLocals
<1>3. Projected(c) \in seen[c].lists
  BY <1>1, <1>2 DEF CInv
<1> QED
  BY <1>3, ProjectedAfter DEF At

\* However the CPUs, user space and the clock interleave, a packet whose list
\* checks overlap at most one update gets the verdict of the maps before or
\* after that update.
THEOREM VerdictCorrect == Spec => []OneUpdateVerdict
<1>1. Init => TypeInv /\ ListInv
  BY InitTypeInv, InitListInv
<1>2. TypeInv /\ ListInv /\ [Next]_vars => (TypeInv /\ ListInv)'
  BY NextTypeInv, NextListInv
<1> QED
  BY <1>1, <1>2, ListInvSuffices, PTL DEF Spec

-----------------------------------------------------------------------------
(* The counters of all addresses together. *)

\* The two sums of NeverOvercounted, with the state they depend on as arguments.
StatsOf(map, ip) == IF map.link[ip] = None THEN Zero ELSE map.value[map.link[ip]]
StatsOn(map, v) == [ip \in IPs |-> StatsOf(map, ip)[v]]
StatsSum(map, v) == MapThenSumSet(LAMBDA ip : StatsOf(map, ip)[v], IPs)
VerdictsOn(V, v) == [ip \in IPs |-> V[ip][v]]
VerdictsSum(V, v) == MapThenSumSet(LAMBDA ip : V[ip][v], IPs)

LEMMA SumsOf ==
  /\ NeverOvercounted <=>
       \A v \in Verdicts : StatsSum(ip_stats_map, v) <= VerdictsSum(verdicts, v)
  /\ NeverOvercounted' <=>
       \A v \in Verdicts : StatsSum(ip_stats_map', v) <= VerdictsSum(verdicts', v)
  BY Zenon DEF NeverOvercounted, StatsSum, VerdictsSum, StatsOf, IpStats, MapThenSumSet,
               MapThenFoldSet

LEMMA StatsSummed ==
  ASSUME NEW map, NEW v
  PROVE  SumOf(StatsSum(map, v), StatsOn(map, v), IPs)
<1> DEFINE f == StatsOn(map, v)
           Eq(h) == h = [s \in SUBSET IPs |-> IF s = {} THEN 0
                           ELSE StatsOf(map, Pick(s))[v] + h[s \ {Pick(s)}]]
<1>1. PICK h : Folded(h, f, IPs)
  BY FoldExists, AddressAssumption
<1>2. \A s \in SUBSET IPs : s # {} => f[Pick(s)] = StatsOf(map, Pick(s))[v]
  BY Picked, AddressAssumption DEF StatsOn
<1> HIDE DEF f
<1>3. \A g : Eq(g) <=> Folded(g, f, IPs)
  BY <1>2 DEF Folded
<1>4. \E g : Eq(g) /\ StatsSum(map, v) = g[IPs]
  <2>1. Eq(h)
    BY <1>1, <1>3
  <2> QED
    BY <2>1, Zenon DEF StatsSum, MapThenSumSet, MapThenFoldSet, Pick
<1>5. \E g : Folded(g, f, IPs) /\ StatsSum(map, v) = g[IPs]
  BY <1>3, <1>4
<1> QED
  BY <1>5 DEF SumOf, f

LEMMA VerdictsSummed ==
  ASSUME NEW V, NEW v
  PROVE  SumOf(VerdictsSum(V, v), VerdictsOn(V, v), IPs)
<1> DEFINE f == VerdictsOn(V, v)
           Eq(h) == h = [s \in SUBSET IPs |-> IF s = {} THEN 0
                           ELSE V[Pick(s)][v] + h[s \ {Pick(s)}]]
<1>1. PICK h : Folded(h, f, IPs)
  BY FoldExists, AddressAssumption
<1>2. \A s \in SUBSET IPs : s # {} => f[Pick(s)] = V[Pick(s)][v]
  BY Picked, AddressAssumption DEF VerdictsOn
<1> HIDE DEF f
<1>3. \A g : Eq(g) <=> Folded(g, f, IPs)
  BY <1>2 DEF Folded
<1>4. \E g : Eq(g) /\ VerdictsSum(V, v) = g[IPs]
  <2>1. Eq(h)
    BY <1>1, <1>3
  <2> QED
    BY <2>1, Zenon DEF VerdictsSum, MapThenSumSet, MapThenFoldSet, Pick
<1>5. \E g : Folded(g, f, IPs) /\ VerdictsSum(V, v) = g[IPs]
  BY <1>3, <1>4
<1> QED
  BY <1>5 DEF SumOf, f

-----------------------------------------------------------------------------

\* No element has two owners: each is linked for one address, the spare of
\* one CPU, or on the free list, where only unlinked addresses have theirs.
Unshared(map) ==
  /\ \A i, j \in IPs : i # j /\ map.link[i] # None => map.link[i] # map.link[j]
  /\ \A i \in IPs, c \in CPUs : map.link[i] # map.spare[c]
  /\ \A c, d \in CPUs : c # d => map.spare[c] # map.spare[d]
  /\ \A i \in IPs : map.link[i] = None =>
       (\A j \in IPs : map.link[j] # i) /\ \A c \in CPUs : map.spare[c] # i

LEMMA InitUnshared == Init => Unshared(ip_stats_map)
<1> SUFFICES ASSUME Init PROVE Unshared(ip_stats_map)
  OBVIOUS
<1>1. /\ ip_stats_map.link = [ip \in IPs |-> None]
      /\ ip_stats_map.spare = [c \in CPUs |-> c]
  BY DEF Init, HashInit
<1> QED
  BY <1>1, NamesDiffer DEF Unshared

\* An update gives the address an element that nobody else has.
LEMMA UpdateUnshared ==
  ASSUME NEW S, NEW map \in HashMaps(S), NEW c \in CPUs, NEW ip \in IPs, NEW v \in S,
         Unshared(map), NEW m, m = HashUpdate(map, c, ip, v)
  PROVE  /\ Unshared(m)
         /\ \/ m = map
            \/ /\ m.link[ip] # None /\ m.value[m.link[ip]] = v
               /\ \A j \in IPs \ {ip} : /\ m.link[j] = map.link[j]
                                        /\ m.link[j] # None => m.value[m.link[j]] = map.value[map.link[j]]
<1>1. /\ map.link \in [IPs -> Pointers] /\ map.value \in [Elements -> S]
      /\ map.spare \in [CPUs -> Elements] /\ ip \in Elements /\ None \notin Elements
  BY NamesDiffer DEF HashMaps, Elements
<1>2. CASE map.link[ip] # None
  <2>1. /\ m.link = [map.link EXCEPT ![ip] = map.spare[c]]
        /\ m.value = [map.value EXCEPT ![map.spare[c]] = v]
        /\ m.spare = [map.spare EXCEPT ![c] = map.link[ip]]
    BY <1>2 DEF HashUpdate
  <2>2. Unshared(m)
    <3>1. /\ m.link[ip] = map.spare[c] /\ \A j \in IPs \ {ip} : m.link[j] = map.link[j]
          /\ m.spare[c] = map.link[ip] /\ \A d \in CPUs \ {c} : m.spare[d] = map.spare[d]
      BY <1>1, <2>1
    <3>2. m.link[ip] # None
      BY <1>1, <3>1
    <3>3. ASSUME NEW i \in IPs, NEW j \in IPs, i # j, m.link[i] # None
          PROVE  m.link[i] # m.link[j]
      BY <3>1, <3>3 DEF Unshared
    <3>4. ASSUME NEW i \in IPs, NEW d \in CPUs
          PROVE  m.link[i] # m.spare[d]
      BY <1>2, <3>1 DEF Unshared
    <3>5. ASSUME NEW d \in CPUs, NEW e \in CPUs, d # e
          PROVE  m.spare[d] # m.spare[e]
      BY <3>1, <3>5 DEF Unshared
    <3>6. ASSUME NEW i \in IPs, m.link[i] = None
          PROVE  (\A j \in IPs : m.link[j] # i) /\ \A d \in CPUs : m.spare[d] # i
      <4>1. i # ip /\ map.link[i] = None
        BY <3>1, <3>2, <3>6
      <4>2. (\A j \in IPs : map.link[j] # i) /\ \A d \in CPUs : map.spare[d] # i
        BY <4>1 DEF Unshared
      <4> QED
        BY <3>1, <4>2
    <3> QED
      BY <3>3, <3>4, <3>5, <3>6, Zenon DEF Unshared
  <2>3. m.link[ip] # None /\ m.value[m.link[ip]] = v
    BY <1>1, <2>1
  <2>4. ASSUME NEW j \in IPs \ {ip}
        PROVE  m.link[j] = map.link[j] /\ (m.link[j] # None => m.value[m.link[j]] = map.value[map.link[j]])
    <3>1. m.link[j] = map.link[j] /\ map.link[j] # map.spare[c]
      BY <1>1, <2>1 DEF Unshared
    <3> QED
      BY <1>1, <2>1, <3>1 DEF Pointers
  <2> QED
    BY <2>2, <2>3, <2>4
<1>3. CASE map.link[ip] = None /\ ~HashFull(map)
  <2>1. m = [map EXCEPT !.link[ip] = ip, !.value[ip] = v]
    BY <1>3 DEF HashUpdate
  <2>2. /\ m.link = [map.link EXCEPT ![ip] = ip]
        /\ m.value = [map.value EXCEPT ![ip] = v]
        /\ m.spare = map.spare
    BY <2>1 DEF HashMaps
  <2>3. Unshared(m)
    <3>1. /\ m.link[ip] = ip /\ \A j \in IPs \ {ip} : m.link[j] = map.link[j]
          /\ m.spare = map.spare
      BY <1>1, <2>2
    <3>2. (\A j \in IPs : map.link[j] # ip) /\ \A d \in CPUs : map.spare[d] # ip
      BY <1>3 DEF Unshared
    <3>3. ASSUME NEW i \in IPs, NEW j \in IPs, i # j, m.link[i] # None
          PROVE  m.link[i] # m.link[j]
      BY <3>1, <3>2, <3>3 DEF Unshared
    <3>4. ASSUME NEW i \in IPs, NEW d \in CPUs
          PROVE  m.link[i] # m.spare[d]
      BY <3>1, <3>2 DEF Unshared
    <3>5. ASSUME NEW i \in IPs, m.link[i] = None
          PROVE  (\A j \in IPs : m.link[j] # i) /\ \A d \in CPUs : m.spare[d] # i
      <4>1. i # ip /\ map.link[i] = None
        BY <1>1, <3>1, <3>5
      <4>2. (\A j \in IPs : map.link[j] # i) /\ \A d \in CPUs : map.spare[d] # i
        BY <4>1 DEF Unshared
      <4> QED
        BY <3>1, <4>1, <4>2
    <3>6. \A d, e \in CPUs : d # e => m.spare[d] # m.spare[e]
      BY <3>1 DEF Unshared
    <3> QED
      BY <3>3, <3>4, <3>5, <3>6, Zenon DEF Unshared
  <2>4. m.link[ip] # None /\ m.value[m.link[ip]] = v
    BY <1>1, <2>2
  <2>5. ASSUME NEW j \in IPs \ {ip}
        PROVE  m.link[j] = map.link[j] /\ (m.link[j] # None => m.value[m.link[j]] = map.value[map.link[j]])
    <3>1. m.link[j] = map.link[j] /\ map.link[j] # ip
      BY <1>1, <1>3, <2>2 DEF Unshared
    <3> QED
      BY <1>1, <2>2, <3>1 DEF Pointers
  <2> QED
    BY <2>3, <2>4, <2>5
<1>4. CASE map.link[ip] = None /\ HashFull(map)
  BY <1>4 DEF HashUpdate
<1> QED
  BY <1>2, <1>3, <1>4

LEMMA CountTypes ==
  ASSUME NEW map \in HashMaps(Counts), NEW V \in [IPs -> Counts], NEW v \in Verdicts
  PROVE  StatsOn(map, v) \in [IPs -> Nat] /\ VerdictsOn(V, v) \in [IPs -> Nat]
<1>1. \A ip \in IPs : StatsOf(map, ip) \in Counts
  BY DEF StatsOf, HashMaps, Pointers, Counts, Zero
<1>2. \A n \in Counts : n[v] \in Nat
  BY DEF Counts, Verdicts
<1> QED
  BY <1>1, <1>2 DEF StatsOn, VerdictsOn

LEMMA CountIpCounted ==
  ASSUME TypeInv, Unshared(ip_stats_map), NeverOvercounted, NEW c \in CPUs, CountIp(c)
  PROVE  Unshared(ip_stats_map') /\ NeverOvercounted'
<1> DEFINE src == pkt[c].src_ip
           elem == pkt[c].ip_stats
           ret == pkt[c].ret
           map == ip_stats_map
           m == ip_stats_map'
           n == [map.value[elem] EXCEPT ![ret] = @ + 1]
<1>1. /\ src \in IPs /\ ret \in Verdicts /\ elem \in Pointers
      /\ verdicts \in [IPs -> Counts] /\ map \in HashMaps(Counts)
  BY Zenon DEF CountIp, At, TypeInv, TypeOK, Locals, LocalsAt, Holding, Labels, Packets, Deciding
<1>2. /\ verdicts' = [verdicts EXCEPT ![src][ret] = @ + 1]
      /\ m = IF elem = None THEN map ELSE [map EXCEPT !.value[elem] = n]
  BY DEF CountIp
<1>3. verdicts' \in [IPs -> Counts]
  BY <1>1, <1>2, CountsIncrement
<1>4. elem # None => elem \in Elements /\ map.value[elem] \in Counts /\ n \in Counts
  BY <1>1, CountsIncrement DEF Pointers, HashMaps
<1>5. m \in HashMaps(Counts)
  <2> HIDE DEF elem, map, m, n
  <2> QED
    BY <1>1, <1>2, <1>4, ElementUpdate
<1>6. m.link = map.link /\ m.spare = map.spare
  <2> HIDE DEF elem, map, m, n
  <2> QED
    BY <1>1, <1>2 DEF HashMaps
<1>7. Unshared(m)
  BY <1>6 DEF Unshared
<1>8. ASSUME NEW v \in Verdicts
      PROVE  StatsSum(m, v) <= VerdictsSum(verdicts', v)
  <2> DEFINE d == IF v = ret THEN 1 ELSE 0
             f == StatsOn(map, v)
             g == StatsOn(m, v)
  <2>1. /\ f \in [IPs -> Nat] /\ g \in [IPs -> Nat]
        /\ VerdictsOn(verdicts, v) \in [IPs -> Nat] /\ VerdictsOn(verdicts', v) \in [IPs -> Nat]
    BY <1>1, <1>3, <1>5, CountTypes
  <2>2. /\ SumOf(StatsSum(map, v), f, IPs) /\ SumOf(StatsSum(m, v), g, IPs)
        /\ SumOf(VerdictsSum(verdicts, v), VerdictsOn(verdicts, v), IPs)
        /\ SumOf(VerdictsSum(verdicts', v), VerdictsOn(verdicts', v), IPs)
    BY StatsSummed, VerdictsSummed
  <2>3. StatsSum(map, v) <= VerdictsSum(verdicts, v)
    BY SumsOf
  <2>4. /\ VerdictsOn(verdicts', v)[src] = VerdictsOn(verdicts, v)[src] + d
        /\ \A ip \in IPs \ {src} : VerdictsOn(verdicts', v)[ip] = VerdictsOn(verdicts, v)[ip]
    BY <1>1, <1>2 DEF VerdictsOn, Counts, Verdicts
  <2>5. /\ VerdictsSum(verdicts', v) = VerdictsSum(verdicts, v) + d
        /\ VerdictsSum(verdicts, v) \in Nat
    <3> DEFINE p == VerdictsOn(verdicts, v)
               q == VerdictsOn(verdicts', v)
               x == VerdictsSum(verdicts, v)
               y == VerdictsSum(verdicts', v)
    <3>1. /\ p \in [IPs -> Nat] /\ q \in [IPs -> Nat] /\ SumOf(x, p, IPs) /\ SumOf(y, q, IPs)
          /\ q[src] = p[src] + d /\ \A ip \in IPs \ {src} : q[ip] = p[ip]
      BY <2>1, <2>2, <2>4
    <3>2. src \in IPs
      BY <1>1
    <3> HIDE DEF p, q, x, y, src
    <3>3. x \in Nat /\ y \in Nat /\ y + p[src] = x + q[src]
      BY <3>1, <3>2, SumDiffers
    <3>4. p[src] \in Nat
      BY <3>1, <3>2
    <3>5. x \in Nat /\ y = x + d
      BY <3>1, <3>3, <3>4
    <3> QED
      BY <3>5 DEF x, y
  <2>6. StatsSum(map, v) \in Nat
    BY <2>1, <2>2, SumSame
  <2>7. StatsSum(m, v) <= StatsSum(map, v) + d
    <3>1. CASE elem = None
      BY <1>2, <2>6, <3>1
    <3>2. CASE elem # None
      <4>1. m.value = [map.value EXCEPT ![elem] = n] /\ map.value \in [Elements -> Counts]
        <5> HIDE DEF elem, map, m, n
        <5> QED
          BY <1>1, <1>2, <3>2 DEF HashMaps
      <4>2. n[v] = map.value[elem][v] + d
        BY <1>1, <1>4, <3>2 DEF Counts, Verdicts
      <4>3. \A ip \in IPs : map.link[ip] # None => map.link[ip] \in Elements
        BY <1>1 DEF HashMaps, Pointers
      <4>4. ASSUME NEW ip \in IPs, map.link[ip] # elem
            PROVE  g[ip] = f[ip]
        <5>1. map.link[ip] # None => m.value[map.link[ip]] = map.value[map.link[ip]]
          BY <4>1, <4>3, <4>4
        <5> QED
          BY <1>6, <5>1 DEF StatsOn, StatsOf
      <4>5. CASE \E a \in IPs : map.link[a] = elem
        <5>1. PICK a \in IPs : map.link[a] = elem
          BY <4>5
        <5>2. \A ip \in IPs \ {a} : map.link[ip] # elem
          BY <3>2, <5>1 DEF Unshared
        <5>3. \A ip \in IPs \ {a} : g[ip] = f[ip]
          BY <4>4, <5>2
        <5>4. g[a] = f[a] + d
          <6>1. g[a] = m.value[elem][v] /\ f[a] = map.value[elem][v]
            BY <1>6, <3>2, <5>1 DEF StatsOn, StatsOf
          <6>2. m.value[elem] = n
            BY <1>4, <3>2, <4>1
          <6> QED
            BY <4>2, <6>1, <6>2
        <5>5. /\ StatsSum(m, v) \in Nat
              /\ StatsSum(m, v) + f[a] = StatsSum(map, v) + g[a]
          <6> HIDE DEF f, g, m, map
          <6> QED
            BY <2>1, <2>2, <5>1, <5>3, SumDiffers
        <5>6. f[a] \in Nat
          BY <2>1, <5>1
        <5> HIDE DEF f, g, m, map
        <5> QED
          BY <2>6, <5>4, <5>5, <5>6
      <4>6. CASE \A a \in IPs : map.link[a] # elem
        <5>1. \A a \in IPs : g[a] = f[a]
          BY <4>4, <4>6
        <5> HIDE DEF f, g, m, map
        <5>2. g = f
          BY <2>1, <5>1
        <5>3. SumOf(StatsSum(m, v), f, IPs)
          BY <2>2, <5>2
        <5>4. StatsSum(m, v) = StatsSum(map, v)
          BY <2>1, <2>2, <5>3, SumSame
        <5> QED
          BY <2>6, <5>4
      <4> QED
        BY <4>5, <4>6
    <3> QED
      BY <3>1, <3>2
  <2> HIDE DEF m, map
  <2>8. StatsSum(m, v) \in Nat
    BY <1>5, <2>1, <2>2, SumSame
  <2> QED
    BY <2>3, <2>5, <2>6, <2>7, <2>8
<1> QED
  BY <1>7, <1>8, SumsOf

LEMMA StatsInitCounted ==
  ASSUME TypeInv, Unshared(ip_stats_map), NeverOvercounted, NEW c \in CPUs, StatsInit(c)
  PROVE  Unshared(ip_stats_map') /\ NeverOvercounted'
<1> DEFINE src == pkt[c].src_ip
           map == ip_stats_map
           m == ip_stats_map'
<1>1. /\ src \in IPs /\ verdicts \in [IPs -> Counts] /\ map \in HashMaps(Counts)
      /\ verdicts' = verdicts /\ m = HashUpdate(map, c, src, Zero)
  BY Zenon DEF StatsInit, At, TypeInv, TypeOK, Locals, LocalsAt, Holding, Labels
<1>2. Zero \in Counts /\ \A v \in Verdicts : Zero[v] = 0
  BY DEF Zero, Counts, Verdicts
<1> HIDE DEF src, map, m
<1>3. m \in HashMaps(Counts)
  BY <1>1, <1>2, HashUpdateType
<1>4. /\ Unshared(m)
      /\ \/ m = map
         \/ /\ m.link[src] # None /\ m.value[m.link[src]] = Zero
            /\ \A j \in IPs \ {src} :
                 /\ m.link[j] = map.link[j]
                 /\ m.link[j] # None => m.value[m.link[j]] = map.value[map.link[j]]
  BY <1>1, <1>2, UpdateUnshared DEF map
<1>5. ASSUME NEW v \in Verdicts
      PROVE  StatsSum(m, v) <= VerdictsSum(verdicts', v)
  <2> DEFINE f == StatsOn(map, v)
             g == StatsOn(m, v)
  <2>1. f \in [IPs -> Nat] /\ g \in [IPs -> Nat] /\ VerdictsOn(verdicts, v) \in [IPs -> Nat]
    BY <1>1, <1>3, CountTypes
  <2>2. /\ SumOf(StatsSum(map, v), f, IPs) /\ SumOf(StatsSum(m, v), g, IPs)
        /\ SumOf(VerdictsSum(verdicts, v), VerdictsOn(verdicts, v), IPs)
    BY StatsSummed, VerdictsSummed
  <2>3. StatsSum(map, v) <= VerdictsSum(verdicts, v)
    BY SumsOf DEF map
  <2>4. CASE m = map
    BY <1>1, <2>3, <2>4
  <2>5. CASE m # map
    <3>1. g[src] = 0
      BY <1>1, <1>2, <1>4, <2>5 DEF StatsOn, StatsOf
    <3>2. \A ip \in IPs \ {src} : g[ip] = f[ip]
      BY <1>4, <2>5 DEF StatsOn, StatsOf
    <3> HIDE DEF f, g
    <3>3. /\ StatsSum(map, v) \in Nat /\ StatsSum(m, v) \in Nat
          /\ StatsSum(m, v) + f[src] = StatsSum(map, v) + g[src]
      BY <1>1, <2>1, <2>2, <3>2, SumDiffers
    <3>4. f[src] \in Nat
      BY <1>1, <2>1
    <3>5. VerdictsSum(verdicts, v) \in Nat
      BY <2>1, <2>2, SumSame
    <3> QED
      BY <1>1, <2>3, <3>1, <3>3, <3>4, <3>5
  <2> QED
    BY <2>4, <2>5
<1> QED
  BY <1>4, <1>5, SumsOf DEF m

LEMMA NextCounted ==
  ASSUME TypeInv, Unshared(ip_stats_map), NeverOvercounted, [Next]_vars
  PROVE  Unshared(ip_stats_map') /\ NeverOvercounted'
<1>1. CASE UNCHANGED <<ip_stats_map, verdicts>>
  BY <1>1, SumsOf
<1>2. ASSUME NEW c \in CPUs, xdp_filter(c)
      PROVE  CountIp(c) \/ StatsInit(c) \/ UNCHANGED <<ip_stats_map, verdicts>>
  <2>1. StatsLookup(c) \/ Return(c) \/ StatsQuiet(c) => UNCHANGED <<ip_stats_map, verdicts>>
    BY Zenon DEF StatsLookup, Return, StatsQuiet, statsVars
  <2> QED
    BY <1>2, <2>1, StatsKinds
<1>3. ASSUME NEW c \in CPUs, NEW frame, Receive(c, frame)
      PROVE  UNCHANGED <<ip_stats_map, verdicts>>
  BY <1>3, Zenon DEF Receive, statsVars
<1>4. CASE Update \/ Drain \/ Tick \/ UNCHANGED vars
  BY <1>1, <1>4, Zenon DEF Update, Drain, Tick, vars, statsVars
<1> QED
  BY <1>1, <1>2, <1>3, <1>4, CountIpCounted, StatsInitCounted DEF Next, Traffic

\* Whichever CPUs race in log_drop, log_pass and the insertion into
\* ip_stats_map, and whichever elements are replaced and used again, the
\* counters of all addresses together never say more than was logged.
THEOREM OvercountCorrect == Spec => []NeverOvercounted
<1> DEFINE I == TypeInv /\ Unshared(ip_stats_map) /\ NeverOvercounted
<1>1. Init => NeverOvercounted
  <2> SUFFICES ASSUME Init, NEW v \in Verdicts
               PROVE  StatsSum(ip_stats_map, v) <= VerdictsSum(verdicts, v)
    BY SumsOf
  <2> DEFINE f == VerdictsOn(verdicts, v)
  <2>1. ip_stats_map \in HashMaps(Counts) /\ verdicts \in [IPs -> Counts]
    BY InitTypeInv, Zenon DEF TypeInv, TypeOK
  <2>2. StatsOn(ip_stats_map, v) = f
    BY DEF Init, HashInit, StatsOn, StatsOf, VerdictsOn
  <2>3. f \in [IPs -> Nat]
    BY <2>1, CountTypes
  <2>4. /\ SumOf(StatsSum(ip_stats_map, v), f, IPs)
        /\ SumOf(VerdictsSum(verdicts, v), f, IPs)
    BY <2>2, StatsSummed, VerdictsSummed
  <2> HIDE DEF f
  <2>5. /\ StatsSum(ip_stats_map, v) = VerdictsSum(verdicts, v)
        /\ StatsSum(ip_stats_map, v) \in Nat
    BY <2>3, <2>4, SumSame
  <2> QED
    BY <2>5
<1>2. Init => I
  BY <1>1, InitTypeInv, InitUnshared
<1>3. I /\ [Next]_vars => I'
  BY NextTypeInv, NextCounted
<1>4. I => NeverOvercounted
  OBVIOUS
<1> QED
  BY <1>2, <1>3, <1>4, PTL DEF Spec
====

---------------------------- MODULE XdpFilterProofs ----------------------------
(***************************************************************************)
(* Proofs about XdpFilter, for any number of CPUs, addresses, packets and  *)
(* map updates and any size of the ring and the maps.                      *)
(***************************************************************************)
EXTENDS XdpFilter, FiniteSetTheorems, SequenceTheorems, WellFoundedInduction,
        NaturalsInduction, TLAPS

Stamping == {"ts_lookup", "ts_init", "ts_check", "ts_store"}
Deciding == {"count_ip", "count_all", "submit"}

\* The locals of xdp_filter that are in use at label l, p being the locals.
LocalsAt(l, p) ==
  /\ l \in Holding \cup {"reserve"} => p.src_ip \in IPs
  /\ l \in Stamping => p.interval \in Intervals
  /\ l \in {"ts_check", "ts_store"} => p.timestamp \in Elements
  /\ l \in Deciding => p.ret \in Verdicts

Locals == \A c \in CPUs : LocalsAt(pc[c], pkt[c])

TypeInv == TypeOK /\ Locals


LEMMA HashUpdateType ==
  ASSUME NEW S, NEW map \in HashMaps(S), NEW c \in CPUs, NEW ip \in IPs, NEW v \in S
  PROVE  HashUpdate(map, c, ip, v) \in HashMaps(S)
<1>1. /\ map.link \in [IPs -> Pointers] /\ map.value \in [Elements -> S]
      /\ map.spare \in [CPUs -> Elements]
      /\ ip \in Elements /\ ip \in Pointers /\ Elements \subseteq Pointers
  BY DEF HashMaps, Elements, Pointers
<1>2. CASE map.link[ip] # None
  BY <1>1, <1>2 DEF HashUpdate, HashMaps, Pointers
<1>3. CASE map.link[ip] = None /\ ~HashFull(map)
  BY <1>1, <1>3, Zenon DEF HashUpdate, HashMaps
<1> QED
  BY <1>2, <1>3 DEF HashUpdate

\* A store through a pointer.
LEMMA ElementUpdate ==
  ASSUME NEW S, NEW map \in HashMaps(S), NEW e \in Elements, NEW v \in S
  PROVE  [map EXCEPT !.value[e] = v] \in HashMaps(S)
  BY DEF HashMaps

LEMMA HashInitType ==
  ASSUME NEW S, NEW v \in S
  PROVE  HashInit(v) \in HashMaps(S)
  BY DEF HashInit, HashMaps, Elements, Pointers

LEMMA InitTypeInv == Init => TypeInv
<1>1. Init => /\ ip_stats_map \in HashMaps(Counts)
              /\ ip_timestamps_map \in HashMaps(Time)
  <2>1. Zero \in Counts /\ 0 \in Time
    BY XdpAssumption DEF Counts, Zero, Time
  <2>2. HashInit(Zero) \in HashMaps(Counts) /\ HashInit(0) \in HashMaps(Time)
    BY <2>1, HashInitType
  <2> QED
    BY <2>2 DEF Init
<1> QED
  BY <1>1, MapsAssumption, RingAssumption, XdpAssumption
  DEF Init, TypeInv, TypeOK, Locals, LocalsAt, MapsInit, MapsTypeOK, RingInit, RingTypeOK,
         Labels, Time, Counts, Zero, Packets, NoPacket, NothingSeen, Holding, Stamping,
         Deciding, Verdicts, Lists, ConfigKeys, Pointers

\* Assigning one local leaves the others alone.
LEMMA SetLog ==
  ASSUME NEW p \in Packets, NEW q, q = [p EXCEPT !.log = TRUE]
  PROVE  /\ q \in Packets /\ q.log
         /\ q.src_ip = p.src_ip /\ q.current_time = p.current_time /\ q.ip_stats = p.ip_stats
         /\ q.interval = p.interval /\ q.timestamp = p.timestamp /\ q.ret = p.ret
  BY Zenon DEF Packets

LEMMA SetStats ==
  ASSUME NEW p \in Packets, NEW v \in Pointers, NEW q, q = [p EXCEPT !.ip_stats = v]
  PROVE  /\ q \in Packets /\ q.ip_stats = v
         /\ q.src_ip = p.src_ip /\ q.current_time = p.current_time /\ q.log = p.log
         /\ q.interval = p.interval /\ q.timestamp = p.timestamp /\ q.ret = p.ret
  BY DEF Packets

LEMMA SetInterval ==
  ASSUME NEW p \in Packets, NEW v \in Intervals, NEW q, q = [p EXCEPT !.interval = v]
  PROVE  /\ q \in Packets /\ q.interval = v
         /\ q.src_ip = p.src_ip /\ q.current_time = p.current_time /\ q.log = p.log
         /\ q.ip_stats = p.ip_stats /\ q.timestamp = p.timestamp /\ q.ret = p.ret
  BY DEF Packets

LEMMA SetTimestamp ==
  ASSUME NEW p \in Packets, NEW v \in Pointers, NEW q, q = [p EXCEPT !.timestamp = v]
  PROVE  /\ q \in Packets /\ q.timestamp = v
         /\ q.src_ip = p.src_ip /\ q.current_time = p.current_time /\ q.log = p.log
         /\ q.ip_stats = p.ip_stats /\ q.interval = p.interval /\ q.ret = p.ret
  BY DEF Packets

LEMMA SetRet ==
  ASSUME NEW p \in Packets, NEW v \in Verdicts, NEW q, q = [p EXCEPT !.ret = v]
  PROVE  /\ q \in Packets /\ q.ret = v
         /\ q.src_ip = p.src_ip /\ q.current_time = p.current_time /\ q.log = p.log
         /\ q.ip_stats = p.ip_stats /\ q.interval = p.interval /\ q.timestamp = p.timestamp
  BY DEF Packets

\* CPU c moves to label l with locals q.
StepTo(c, l, q) == pc' = [pc EXCEPT ![c] = l] /\ pkt' = [pkt EXCEPT ![c] = q]

LEMMA StepLocals ==
  ASSUME TypeInv, NEW c \in CPUs, NEW l \in Labels, NEW q \in Packets,
         StepTo(c, l, q), LocalsAt(l, q)
  PROVE  /\ pc' \in [CPUs -> Labels]
         /\ pkt' \in [CPUs -> Packets]
         /\ Locals'
  BY DEF StepTo, TypeInv, TypeOK, Locals, LocalsAt

LEMMA ReceiveTypeInv ==
  ASSUME TypeInv, NEW c \in CPUs, NEW frame \in IPs \cup {NotIPv4}, Receive(c, frame)
  PROVE  TypeInv'
<1> DEFINE l == IF frame = NotIPv4 THEN "return" ELSE "reserve"
           q == [NoPacket EXCEPT !.src_ip = frame, !.current_time = clock,
                                 !.ret = IF frame = NotIPv4 THEN "PASS" ELSE "none"]
<1>1. StepTo(c, l, q)
  BY DEF Receive, StepTo, Goto
<1>2. l \in Labels /\ q \in Packets /\ q.src_ip = frame
  <2> DEFINE r == IF frame = NotIPv4 THEN "PASS" ELSE "none"
  <2>1. clock \in Time /\ r \in Verdicts \cup {"none"}
    BY DEF TypeInv, TypeOK, Verdicts
  <2>2. q = [NoPacket EXCEPT !.src_ip = frame, !.current_time = clock, !.ret = r]
    OBVIOUS
  <2>3. q \in Packets /\ q.src_ip = frame
    <3> HIDE DEF r, q
    <3> QED
      BY <2>1, <2>2, MapsAssumption, Zenon DEF Packets, NoPacket, Pointers
  <2> QED
    BY <2>3 DEF Labels
<1>3. UNCHANGED <<ring, reserved, statsVars, rateVars, configMaps, clock, updates>>
  BY DEF Receive
<1>4. LocalsAt(l, q)
  BY <1>2, XdpAssumption DEF LocalsAt, Holding, Stamping, Deciding
<1>5. pc' \in [CPUs -> Labels] /\ pkt' \in [CPUs -> Packets] /\ Locals'
  <2> HIDE DEF l, q
  <2> QED
    BY <1>1, <1>2, <1>4, StepLocals
<1>6. seen' \in [CPUs -> [updates : Nat, lists : SUBSET Verdicts]]
  BY Zenon DEF Receive, ListVerdict, Verdicts, TypeInv, TypeOK
<1>7. received' \in 0 .. MaxPackets
  BY XdpAssumption DEF Receive, TypeInv, TypeOK
<1> QED
  BY <1>3, <1>5, <1>6, <1>7, Zenon
  DEF TypeInv, TypeOK, MapsTypeOK, RingTypeOK, statsVars, rateVars, configMaps

\* A step of xdp_filter on c that writes nothing but its locals.
QuietStep(c) == UNCHANGED <<ring, reserved, statsVars, rateVars, envVars>>

LEMMA QuietTypeInv ==
  ASSUME TypeInv, NEW c \in CPUs, NEW l \in Labels, NEW q \in Packets,
         StepTo(c, l, q), LocalsAt(l, q), QuietStep(c)
  PROVE  TypeInv'
<1>1. pc' \in [CPUs -> Labels] /\ pkt' \in [CPUs -> Packets] /\ Locals'
  BY StepLocals
<1> QED
  BY <1>1, Zenon
  DEF QuietStep, TypeInv, TypeOK, MapsTypeOK, RingTypeOK, statsVars, rateVars, envVars, configMaps

\* pkt unchanged is an update of pkt[c] with itself.
LEMMA SameLocals ==
  ASSUME TypeInv, NEW c \in CPUs, NEW l, Goto(c, l), UNCHANGED pkt
  PROVE  StepTo(c, l, pkt[c])
  BY DEF StepTo, Goto, TypeInv, TypeOK

LEMMA DecideStep ==
  ASSUME TypeInv, NEW c \in CPUs, NEW v \in Verdicts, pc[c] \in Holding, Decide(c, v)
  PROVE  \E q \in Packets : StepTo(c, "count_ip", q) /\ LocalsAt("count_ip", q) /\ q.ret = v
<1> DEFINE q == [pkt[c] EXCEPT !.ret = v]
<1>1. pkt[c] \in Packets /\ LocalsAt(pc[c], pkt[c])
  BY DEF TypeInv, TypeOK, Locals
<1>2. q \in Packets /\ q.ret = v /\ q.src_ip = pkt[c].src_ip /\ q.ip_stats = pkt[c].ip_stats
  BY <1>1, SetRet
<1>3. StepTo(c, "count_ip", q)
  BY DEF Decide, StepTo, Goto
<1>4. LocalsAt("count_ip", q)
  <2> HIDE DEF q
  <2> QED
    BY <1>1, <1>2 DEF LocalsAt, Holding, Labels, Stamping, Deciding
<1> QED
  BY <1>2, <1>3, <1>4, Zenon

LEMMA DecideTypeInv ==
  ASSUME TypeInv, NEW c \in CPUs, NEW v \in Verdicts, pc[c] \in Holding, Decide(c, v), QuietStep(c)
  PROVE  TypeInv'
<1>1. "count_ip" \in Labels
  BY DEF Labels
<1> QED
  BY <1>1, DecideStep, QuietTypeInv

LEMMA ReserveFailsTypeInv ==
  ASSUME TypeInv, NEW c \in CPUs, ReserveFails(c)
  PROVE  TypeInv'
<1> DEFINE q == [pkt[c] EXCEPT !.ret = "PASS"]
<1>1. pkt[c] \in Packets /\ "return" \in Labels /\ "PASS" \in Verdicts
  BY DEF TypeInv, TypeOK, Labels, Verdicts
<1>2. StepTo(c, "return", q)
  BY DEF ReserveFails, StepTo, Goto
<1>3. QuietStep(c)
  BY DEF ReserveFails, QuietStep
<1>4. q \in Packets
  BY <1>1, SetRet
<1>5. LocalsAt("return", q)
  BY DEF LocalsAt, Holding, Stamping, Deciding
<1> HIDE DEF q
<1> QED
  BY <1>1, <1>2, <1>3, <1>4, <1>5, QuietTypeInv

LEMMA StatsLookupTypeInv ==
  ASSUME TypeInv, NEW c \in CPUs, StatsLookup(c)
  PROVE  TypeInv'
<1> DEFINE elem == ip_stats_map.link[pkt[c].src_ip]
           q == [pkt[c] EXCEPT !.ip_stats = elem]
           l == IF elem = None /\ At(c, "stats") THEN "stats_init" ELSE "wl_state"
<1>1. pkt[c] \in Packets /\ l \in Labels /\ LocalsAt(pc[c], pkt[c]) /\ pc[c] \in Holding
  BY DEF TypeInv, TypeOK, Labels, Locals, StatsLookup, Holding
<1>2. pkt[c].src_ip \in IPs
  BY <1>1 DEF LocalsAt
<1>3. elem \in Pointers
  BY <1>2 DEF TypeInv, TypeOK, HashMaps
<1>4. StepTo(c, l, q) /\ QuietStep(c)
  BY DEF StatsLookup, StepTo, Goto, QuietStep
<1>5. q \in Packets /\ q.src_ip = pkt[c].src_ip /\ q.ip_stats = elem
  BY <1>1, <1>3, SetStats
<1>6. LocalsAt(l, q)
  <2> HIDE DEF q
  <2> QED
    BY <1>2, <1>3, <1>5 DEF LocalsAt, Stamping, Deciding
<1> HIDE DEF q, l
<1> QED
  BY <1>1, <1>4, <1>5, <1>6, QuietTypeInv

LEMMA SkipTypeInv ==
  ASSUME TypeInv, NEW c \in CPUs, NEW l \in Labels, Goto(c, l), UNCHANGED pkt,
         LocalsAt(l, pkt[c]), QuietStep(c)
  PROVE  TypeInv'
<1>1. pkt[c] \in Packets
  BY DEF TypeInv, TypeOK
<1>2. StepTo(c, l, pkt[c])
  BY SameLocals
<1> QED
  BY <1>1, <1>2, QuietTypeInv

\* Between reserve and submit the locals of a packet stay good at any label
\* before the timestamps.
LEMMA HeldLocals ==
  ASSUME TypeInv, NEW c \in CPUs, pc[c] \in Holding, NEW l \in Holding \ (Stamping \cup Deciding)
  PROVE  LocalsAt(l, pkt[c])
  BY DEF TypeInv, Locals, LocalsAt, Stamping, Deciding, Holding

LEMMA StateCheckTypeInv ==
  ASSUME TypeInv, NEW c \in CPUs, StateCheck(c)
  PROVE  TypeInv'
<1>1. pc[c] \in Holding /\ QuietStep(c) /\ UNCHANGED pkt
  BY DEF StateCheck, At, Holding, Labels, QuietStep
<1>2. PICK l \in {"wl_lookup", "bl_state", "bl_lookup", "rl_state", "rl_lookup"} : Goto(c, l)
  BY DEF StateCheck
<1>3. l \in Holding \ (Stamping \cup Deciding)
  BY <1>2 DEF Labels, Holding, Stamping, Deciding
<1> QED
  BY <1>1, <1>2, <1>3, HeldLocals, SkipTypeInv DEF Holding

LEMMA ListLookupTypeInv ==
  ASSUME TypeInv, NEW c \in CPUs, WhitelistLookup(c) \/ BlacklistLookup(c)
  PROVE  TypeInv'
<1>1. pc[c] \in Holding /\ QuietStep(c)
  BY DEF WhitelistLookup, BlacklistLookup, At, Holding, Labels, QuietStep
<1>2. \/ Decide(c, "DROP")
      \/ UNCHANGED pkt /\ \E l \in {"bl_state", "rl_state"} : Goto(c, l)
  BY DEF WhitelistLookup, BlacklistLookup
<1>3. CASE Decide(c, "DROP")
  BY <1>1, <1>3, DecideTypeInv DEF Verdicts
<1>4. ASSUME UNCHANGED pkt, NEW l \in {"bl_state", "rl_state"}, Goto(c, l)
      PROVE  TypeInv'
  <2>1. l \in Holding \ (Stamping \cup Deciding)
    BY DEF Labels, Holding, Stamping, Deciding
  <2> QED
    BY <1>1, <1>4, <2>1, HeldLocals, SkipTypeInv DEF Holding
<1> QED
  BY <1>2, <1>3, <1>4

LEMMA NotLimitedTypeInv ==
  ASSUME TypeInv, NEW c \in CPUs, NotLimited(c)
  PROVE  TypeInv'
<1>1. pc[c] \in Holding /\ QuietStep(c) /\ Decide(c, "PASS") /\ "PASS" \in Verdicts
  BY DEF NotLimited, At, Holding, Labels, QuietStep, Verdicts
<1> QED
  BY <1>1, DecideTypeInv

LEMMA RateLookupTypeInv ==
  ASSUME TypeInv, NEW c \in CPUs, RateLookup(c)
  PROVE  TypeInv'
<1> DEFINE v == ip_rate_limits_map[pkt[c].src_ip]
           q == [pkt[c] EXCEPT !.interval = v]
<1>1. pkt[c] \in Packets /\ LocalsAt(pc[c], pkt[c]) /\ pc[c] \in Holding
  BY DEF TypeInv, TypeOK, Labels, Locals, RateLookup, At, Holding
<1>2. v \in Intervals
  BY <1>1 DEF LocalsAt, TypeInv, TypeOK, MapsTypeOK, RateLookup
<1>3. q \in Packets /\ q.interval = v /\ q.src_ip = pkt[c].src_ip /\ q.ip_stats = pkt[c].ip_stats
  <2> HIDE DEF v
  <2> QED
    BY <1>1, <1>2, SetInterval
<1>4. StepTo(c, "ts_lookup", q) /\ QuietStep(c) /\ "ts_lookup" \in Labels
  BY DEF RateLookup, StepTo, Goto, QuietStep, Labels
<1>5. LocalsAt("ts_lookup", q)
  <2> HIDE DEF q, v
  <2> QED
    BY <1>1, <1>2, <1>3 DEF LocalsAt, Deciding
<1> HIDE DEF q
<1> QED
  BY <1>3, <1>4, <1>5, QuietTypeInv

LEMMA TimestampLookupTypeInv ==
  ASSUME TypeInv, NEW c \in CPUs, TimestampLookup(c)
  PROVE  TypeInv'
<1> DEFINE elem == ip_timestamps_map.link[pkt[c].src_ip]
           q == [pkt[c] EXCEPT !.timestamp = elem]
           l == IF elem = None THEN "ts_init" ELSE "ts_check"
<1>1. /\ pkt[c] \in Packets /\ l \in Labels /\ LocalsAt(pc[c], pkt[c])
      /\ pc[c] \in Holding /\ pc[c] \in Stamping
  BY DEF TypeInv, TypeOK, Labels, Locals, TimestampLookup, At, Holding, Stamping
<1>2. pkt[c].src_ip \in IPs
  BY <1>1 DEF LocalsAt
<1>3. elem \in Pointers
  BY <1>2 DEF TypeInv, TypeOK, HashMaps
<1>4. StepTo(c, l, q) /\ QuietStep(c)
  BY DEF TimestampLookup, StepTo, Goto, QuietStep
<1>5. /\ q \in Packets /\ q.src_ip = pkt[c].src_ip /\ q.ip_stats = pkt[c].ip_stats
      /\ q.interval = pkt[c].interval /\ q.timestamp = elem
  BY <1>1, <1>3, SetTimestamp
<1>6. LocalsAt(l, q)
  <2> HIDE DEF q
  <2> QED
    BY <1>1, <1>2, <1>3, <1>5 DEF LocalsAt, Deciding, Pointers
<1> HIDE DEF q, l
<1> QED
  BY <1>1, <1>4, <1>5, <1>6, QuietTypeInv

LEMMA TimestampCheckTypeInv ==
  ASSUME TypeInv, NEW c \in CPUs, TimestampCheck(c)
  PROVE  TypeInv'
<1>1. pc[c] \in Holding /\ QuietStep(c) /\ pc[c] = "ts_check"
  BY DEF TimestampCheck, At, Holding, Labels, QuietStep
<1>2. PICK v \in PacketInterval(c) :
        \/ Decide(c, "DROP")
        \/ Goto(c, "ts_store") /\ pkt' = [pkt EXCEPT ![c].interval = v]
  BY DEF TimestampCheck
<1> DEFINE q == [pkt[c] EXCEPT !.interval = v]
<1>3. /\ pkt[c] \in Packets /\ LocalsAt("ts_check", pkt[c])
      /\ "ts_store" \in Labels /\ "DROP" \in Verdicts
  BY <1>1 DEF Labels, TypeInv, TypeOK, Locals, Verdicts
<1>4. v \in Intervals
  BY <1>2, <1>3 DEF PacketInterval, LocalsAt, Stamping
<1>5. /\ q \in Packets /\ q.interval = v /\ q.src_ip = pkt[c].src_ip
      /\ q.ip_stats = pkt[c].ip_stats /\ q.timestamp = pkt[c].timestamp
  BY <1>3, <1>4, SetInterval
<1>6. LocalsAt("ts_store", q)
  <2> HIDE DEF q
  <2> QED
    BY <1>3, <1>4, <1>5 DEF LocalsAt, Holding, Labels, Stamping, Deciding
<1>7. CASE Goto(c, "ts_store") /\ pkt' = [pkt EXCEPT ![c].interval = v]
  <2>1. StepTo(c, "ts_store", q)
    BY <1>7 DEF StepTo, Goto
  <2> HIDE DEF q
  <2> QED
    BY <1>1, <1>3, <1>5, <1>6, <2>1, QuietTypeInv
<1> QED
  BY <1>1, <1>2, <1>3, <1>7, DecideTypeInv

\* The steps that write shared state.
LEMMA WriteTypeInv ==
  ASSUME TypeInv, NEW c \in CPUs, NEW l \in Labels, NEW q \in Packets,
         StepTo(c, l, q), LocalsAt(l, q),
         ip_stats_map' \in HashMaps(Counts), ip_timestamps_map' \in HashMaps(Time),
         RingTypeOK', reserved' \in Nat, global_stats_map' \in Counts,
         verdicts' \in [IPs -> Counts],
         admitted' \in [IPs -> Seq([at : Time, interval : Intervals])],
         UNCHANGED envVars
  PROVE  TypeInv'
<1>1. pc' \in [CPUs -> Labels] /\ pkt' \in [CPUs -> Packets] /\ Locals'
  BY StepLocals
<1> QED
  BY <1>1, Zenon DEF TypeInv, TypeOK, MapsTypeOK, envVars, configMaps

LEMMA ReserveTypeInv ==
  ASSUME TypeInv, NEW c \in CPUs, Reserve(c)
  PROVE  TypeInv'
<1> DEFINE q == [pkt[c] EXCEPT !.log = TRUE]
<1>1. pkt[c] \in Packets /\ LocalsAt(pc[c], pkt[c]) /\ pc[c] = "reserve" /\ "stats" \in Labels
  BY DEF TypeInv, TypeOK, Labels, Locals, Reserve, At
<1>2. pkt[c].src_ip \in IPs
  BY <1>1 DEF LocalsAt
<1>3. /\ q \in Packets /\ q.src_ip = pkt[c].src_ip /\ q.ip_stats = pkt[c].ip_stats
  BY <1>1, SetLog
<1>4. StepTo(c, "stats", q)
  BY DEF Reserve, StepTo, Goto
<1>5. LocalsAt("stats", q)
  <2> HIDE DEF q
  <2> QED
    BY <1>2, <1>3 DEF LocalsAt, Stamping, Deciding
<1>6. RingTypeOK'
  <2>1. [cpu |-> c, ip |-> pkt[c].src_ip, st |-> "busy"] \in Records
    BY <1>2 DEF Records
  <2> QED
    BY <2>1, AppendProperties, RingAssumption
    DEF Reserve, reserve, RingFull, RingTypeOK, TypeInv, TypeOK
<1> HIDE DEF q
<1>7. /\ reserved' \in Nat /\ UNCHANGED <<statsVars, rateVars, envVars>>
  BY DEF Reserve, TypeInv, TypeOK
<1> QED
  BY <1>1, <1>3, <1>4, <1>5, <1>6, <1>7, WriteTypeInv, Zenon
  DEF TypeInv, TypeOK, statsVars, rateVars

LEMMA StatsInitTypeInv ==
  ASSUME TypeInv, NEW c \in CPUs, StatsInit(c)
  PROVE  TypeInv'
<1>1. pkt[c] \in Packets /\ pc[c] \in Holding /\ pkt[c].src_ip \in IPs
  BY DEF TypeInv, TypeOK, Labels, Locals, LocalsAt, StatsInit, At, Holding
<1>2. "stats_again" \in Holding \ (Stamping \cup Deciding) /\ Zero \in Counts
  BY DEF Labels, Holding, Stamping, Deciding, Counts, Zero
<1>3. LocalsAt("stats_again", pkt[c]) /\ StepTo(c, "stats_again", pkt[c])
  BY <1>1, <1>2, HeldLocals, SameLocals DEF StatsInit
<1>4. ip_stats_map' \in HashMaps(Counts)
  BY <1>1, <1>2, HashUpdateType DEF StatsInit, TypeInv, TypeOK
<1> QED
  BY <1>1, <1>2, <1>3, <1>4, WriteTypeInv, Zenon
  DEF StatsInit, TypeInv, TypeOK, rateVars, RingTypeOK, Holding

LEMMA AdmitTypes ==
  ASSUME TypeInv, NEW c \in CPUs, pc[c] \in Stamping, Admit(c)
  PROVE  /\ admitted' \in [IPs -> Seq([at : Time, interval : Intervals])]
         /\ \E q \in Packets : StepTo(c, "count_ip", q) /\ LocalsAt("count_ip", q)
<1>1. pc[c] \in Holding
  BY DEF Holding, Stamping, Labels
<1>2. /\ pkt[c].src_ip \in IPs /\ pkt[c].interval \in Intervals
      /\ pkt[c].current_time \in Time
  BY <1>1 DEF TypeInv, TypeOK, Locals, LocalsAt, Packets
<1>3. admitted' \in [IPs -> Seq([at : Time, interval : Intervals])]
  <2> DEFINE e == [at |-> pkt[c].current_time, interval |-> pkt[c].interval]
             S == [at : Time, interval : Intervals]
  <2>1. e \in S
    BY <1>2
  <2>2. admitted' = [admitted EXCEPT ![pkt[c].src_ip] = Append(@, e)]
    BY DEF Admit
  <2>3. admitted \in [IPs -> Seq(S)]
    BY Zenon DEF TypeInv, TypeOK
  <2> HIDE DEF e, S
  <2>4. Append(admitted[pkt[c].src_ip], e) \in Seq(S)
    BY <1>2, <2>1, <2>3, AppendProperties
  <2>5. admitted' \in [IPs -> Seq(S)]
    BY <1>2, <2>2, <2>3, <2>4
  <2> QED
    BY <2>5, Zenon DEF S
<1>4. \E q \in Packets : StepTo(c, "count_ip", q) /\ LocalsAt("count_ip", q)
  BY <1>1, DecideStep DEF Admit, Verdicts
<1> QED
  BY <1>3, <1>4, Zenon

LEMMA AdmitTypeInv ==
  ASSUME TypeInv, NEW c \in CPUs, pc[c] \in Stamping, Admit(c),
         ip_timestamps_map' \in HashMaps(Time),
         UNCHANGED <<ring, reserved, statsVars, envVars>>
  PROVE  TypeInv'
<1>1. "count_ip" \in Labels
  BY DEF Labels
<1>2. PICK q \in Packets : StepTo(c, "count_ip", q) /\ LocalsAt("count_ip", q)
  BY AdmitTypes
<1>3. admitted' \in [IPs -> Seq([at : Time, interval : Intervals])]
  BY AdmitTypes, Zenon
<1> QED
  BY <1>1, <1>2, <1>3, WriteTypeInv, Zenon DEF TypeInv, TypeOK, RingTypeOK, statsVars

LEMMA TimestampInitTypeInv ==
  ASSUME TypeInv, NEW c \in CPUs, TimestampInit(c)
  PROVE  TypeInv'
<1>1. pc[c] \in Stamping /\ pkt[c].src_ip \in IPs /\ pkt[c].current_time \in Time
  BY DEF TimestampInit, At, Stamping, Holding, Labels, TypeInv, TypeOK, Locals, LocalsAt, Packets
<1>2. ip_timestamps_map' \in HashMaps(Time)
  <2>1. /\ ip_timestamps_map \in HashMaps(Time)
        /\ ip_timestamps_map' =
             HashUpdate(ip_timestamps_map, c, pkt[c].src_ip, pkt[c].current_time)
    BY DEF TimestampInit, TypeInv, TypeOK
  <2> QED
    BY <1>1, <2>1, HashUpdateType
<1> QED
  BY <1>1, <1>2, AdmitTypeInv DEF TimestampInit

LEMMA TimestampStoreTypeInv ==
  ASSUME TypeInv, NEW c \in CPUs, TimestampStore(c)
  PROVE  TypeInv'
<1>1. /\ pc[c] \in Stamping /\ pkt[c].src_ip \in IPs /\ pkt[c].current_time \in Time
      /\ pkt[c].timestamp \in Elements
  BY Zenon DEF TimestampStore, At, Stamping, Holding, Labels, TypeInv, TypeOK, Locals, LocalsAt, Packets
<1>2. ip_timestamps_map' \in HashMaps(Time)
  BY <1>1, ElementUpdate DEF TimestampStore, TypeInv, TypeOK
<1> QED
  BY <1>1, <1>2, AdmitTypeInv DEF TimestampStore

LEMMA CountsIncrement ==
  ASSUME NEW n \in Counts, NEW v \in Verdicts
  PROVE  [n EXCEPT ![v] = @ + 1] \in Counts
<1>1. CASE v = "DROP"
  BY <1>1 DEF Counts
<1>2. CASE v = "PASS"
  BY <1>2 DEF Counts
<1> QED
  BY <1>1, <1>2 DEF Verdicts

LEMMA CountIpTypeInv ==
  ASSUME TypeInv, NEW c \in CPUs, CountIp(c)
  PROVE  TypeInv'
<1> DEFINE ip == pkt[c].src_ip
           elem == pkt[c].ip_stats
           v == pkt[c].ret
<1>1. /\ pkt[c] \in Packets /\ ip \in IPs /\ v \in Verdicts
      /\ elem \in Pointers
      /\ "count_all" \in Labels /\ LocalsAt("count_all", pkt[c])
  BY Zenon DEF CountIp, At, TypeInv, TypeOK, Packets, Labels, Locals, LocalsAt, Holding, Stamping, Deciding
<1>2. StepTo(c, "count_all", pkt[c])
  BY SameLocals DEF CountIp
<1>3. verdicts' \in [IPs -> Counts]
  <2>1. verdicts[ip] \in Counts /\ verdicts \in [IPs -> Counts]
    BY <1>1 DEF TypeInv, TypeOK
  <2>2. [verdicts[ip] EXCEPT ![v] = @ + 1] \in Counts
    BY <1>1, <2>1, CountsIncrement, SMTT(30)
  <2>3. verdicts' = [verdicts EXCEPT ![ip] = [verdicts[ip] EXCEPT ![v] = @ + 1]]
    BY DEF CountIp
  <2> HIDE DEF ip, v
  <2> QED
    BY <1>1, <2>1, <2>2, <2>3
<1>4. ip_stats_map' \in HashMaps(Counts)
  <2>1. ip_stats_map \in HashMaps(Counts)
    BY DEF TypeInv, TypeOK
  <2>2. CASE elem = None
    BY <2>1, <2>2 DEF CountIp
  <2>3. CASE elem # None
    <3> DEFINE n == [ip_stats_map.value[elem] EXCEPT ![v] = @ + 1]
    <3>1. elem \in Elements
      BY <1>1, <2>3 DEF Pointers
    <3>2. ip_stats_map.value[elem] \in Counts
      BY <2>1, <3>1 DEF HashMaps
    <3>3. n \in Counts
      BY <1>1, <3>2, CountsIncrement
    <3>4. ip_stats_map' = [ip_stats_map EXCEPT !.value[elem] = n]
      BY <2>3 DEF CountIp
    <3> HIDE DEF n, elem
    <3> QED
      BY <2>1, <3>1, <3>3, <3>4, ElementUpdate
  <2> QED
    BY <2>2, <2>3
<1>5. UNCHANGED <<ring, reserved, global_stats_map, rateVars, envVars>>
  BY DEF CountIp
<1> QED
  BY <1>1, <1>2, <1>3, <1>4, <1>5, WriteTypeInv, Zenon
  DEF TypeInv, TypeOK, rateVars, RingTypeOK

LEMMA CountAllTypeInv ==
  ASSUME TypeInv, NEW c \in CPUs, CountAll(c)
  PROVE  TypeInv'
<1>1. /\ pkt[c] \in Packets /\ pkt[c].ret \in Verdicts
      /\ "submit" \in Labels /\ LocalsAt("submit", pkt[c])
  BY Zenon DEF CountAll, At, TypeInv, TypeOK, Labels, Locals, LocalsAt, Holding, Stamping, Deciding
<1>2. StepTo(c, "submit", pkt[c])
  BY SameLocals DEF CountAll
<1>3. global_stats_map' \in Counts
  BY <1>1, CountsIncrement, Zenon DEF CountAll, TypeInv, TypeOK
<1>4. UNCHANGED <<ring, reserved, ip_stats_map, verdicts, rateVars, envVars>>
  BY DEF CountAll
<1> QED
  BY <1>1, <1>2, <1>3, <1>4, WriteTypeInv, Zenon
  DEF TypeInv, TypeOK, rateVars, RingTypeOK

LEMMA SubmitType ==
  ASSUME NEW c, NEW v \in Verdicts, RingTypeOK, submit(c, v)
  PROVE  RingTypeOK' /\ Len(ring') = Len(ring) /\ DOMAIN ring' = DOMAIN ring
<1>1. DOMAIN ring = 1 .. Len(ring) /\ Len(ring) \in Nat /\ \A i \in 1 .. Len(ring) : ring[i] \in Records
  BY LenProperties, ElementOfSeq DEF RingTypeOK
<1>2. DOMAIN ring' = 1 .. Len(ring) /\ \A i \in 1 .. Len(ring) : ring'[i] \in Records
  BY <1>1 DEF submit, Records, Verdicts
<1>3. ring' = [i \in 1 .. Len(ring) |-> ring'[i]]
  BY <1>1 DEF submit
<1>4. ring' \in Seq(Records)
  BY <1>1, <1>2, <1>3
<1>5. Len(ring') = Len(ring)
  BY <1>1, <1>2, <1>4, LenProperties
<1> QED
  BY <1>1, <1>2, <1>4, <1>5 DEF RingTypeOK

LEMMA SubmitTypeInv ==
  ASSUME TypeInv, NEW c \in CPUs, Submit(c)
  PROVE  TypeInv'
<1>1. pkt[c] \in Packets /\ pkt[c].ret \in Verdicts
      /\ "return" \in Labels /\ LocalsAt("return", pkt[c])
  BY DEF Submit, At, TypeInv, TypeOK, Labels, Locals, LocalsAt, Holding, Stamping, Deciding
<1>2. StepTo(c, "return", pkt[c])
  BY SameLocals DEF Submit
<1>3. RingTypeOK'
  BY <1>1, SubmitType DEF Submit, TypeInv, TypeOK
<1>4. UNCHANGED <<reserved, statsVars, rateVars, envVars>>
  BY DEF Submit
<1> QED
  BY <1>1, <1>2, <1>3, <1>4, WriteTypeInv, Zenon
  DEF TypeInv, TypeOK, statsVars, rateVars

LEMMA ReturnTypeInv ==
  ASSUME TypeInv, NEW c \in CPUs, Return(c)
  PROVE  TypeInv'
<1>1. NoPacket \in Packets /\ "idle" \in Labels /\ StepTo(c, "idle", NoPacket)
  BY MapsAssumption, XdpAssumption
  DEF Packets, NoPacket, Pointers, Labels, Time, Return, StepTo, Goto
<1>2. LocalsAt("idle", NoPacket)
  BY DEF LocalsAt, Holding, Stamping, Deciding
<1>3. UNCHANGED <<ring, reserved, statsVars, rateVars, configMaps, clock, received, updates>>
  BY DEF Return
<1>4. pc' \in [CPUs -> Labels] /\ pkt' \in [CPUs -> Packets] /\ Locals'
  BY <1>1, <1>2, StepLocals
<1>5. seen' \in [CPUs -> [updates : Nat, lists : SUBSET Verdicts]]
  BY Zenon DEF Return, NothingSeen, TypeInv, TypeOK
<1> QED
  BY <1>3, <1>4, <1>5, Zenon
  DEF TypeInv, TypeOK, MapsTypeOK, RingTypeOK, statsVars, rateVars, configMaps

\* User space stores only values of the right type into the maps.
LEMMA MapUpdateType == MapsTypeOK /\ MapUpdate => MapsTypeOK'
<1> SUFFICES ASSUME MapsTypeOK, MapUpdate
             PROVE  MapsTypeOK'
  OBVIOUS
<1>1. ASSUME NEW k \in ConfigKeys, NEW v \in {0, 1}, SetState(k, v)
      PROVE  MapsTypeOK'
  BY <1>1 DEF SetState, MapsTypeOK
<1>2. ASSUME NEW l \in Lists, NEW key \in Keys, add_ip_subnets(l, key)
      PROVE  MapsTypeOK'
  BY <1>2 DEF add_ip_subnets, MapsTypeOK
<1>3. ASSUME NEW l \in Lists, NEW key \in Keys, remove_ip_subnets(l, key)
      PROVE  MapsTypeOK'
  BY <1>3 DEF remove_ip_subnets, MapsTypeOK
<1>4. ASSUME NEW ip \in IPs, NEW pps \in Pps, add_rate_limit(ip, pps)
      PROVE  MapsTypeOK'
  BY <1>4 DEF add_rate_limit, MapsTypeOK, Intervals
<1>5. ASSUME NEW ip \in IPs, remove_rate_limit(ip)
      PROVE  MapsTypeOK'
  BY <1>5 DEF remove_rate_limit, MapsTypeOK
<1> QED
  BY <1>1, <1>2, <1>3, <1>4, <1>5 DEF MapUpdate

LEMMA UpdateTypeInv == TypeInv /\ Update => TypeInv'
<1> SUFFICES ASSUME TypeInv, Update
             PROVE  TypeInv'
  OBVIOUS
<1>1. MapsTypeOK'
  BY MapUpdateType DEF Update, TypeInv, TypeOK
<1>2. UNCHANGED <<pc, pkt, ring, reserved, statsVars, rateVars, clock, received>>
  BY DEF Update
<1>3. Locals'
  BY <1>2 DEF TypeInv, Locals, LocalsAt, statsVars, rateVars
<1>4. seen' \in [CPUs -> [updates : Nat, lists : SUBSET Verdicts]]
  <2>1. ASSUME NEW c \in CPUs
        PROVE  /\ seen[c].updates + 1 \in Nat
               /\ seen[c].lists \cup {ListVerdict(pkt[c].src_ip)'} \in SUBSET Verdicts
               /\ seen[c] \in [updates : Nat, lists : SUBSET Verdicts]
    BY SMTT(30) DEF TypeInv, TypeOK, ListVerdict, Verdicts
  <2> QED
    BY <2>1 DEF Update
<1>5. updates' \in 0 .. MaxUpdates
  BY XdpAssumption DEF Update, TypeInv, TypeOK
<1> QED
  BY <1>1, <1>2, <1>3, <1>4, <1>5, Zenon DEF TypeInv, TypeOK, RingTypeOK, statsVars, rateVars

LEMMA DrainTypeInv == TypeInv /\ Drain => TypeInv'
<1> SUFFICES ASSUME TypeInv, Drain
             PROVE  TypeInv'
  OBVIOUS
<1>1. RingTypeOK'
  <2>1. ring \in Seq(Records) /\ ring # <<>> /\ Len(ring) <= RingSize /\ ring' = Tail(ring)
    BY DEF Drain, consume, Readable, RingTypeOK, TypeInv, TypeOK
  <2>2. Tail(ring) \in Seq(Records) /\ Len(Tail(ring)) = Len(ring) - 1 /\ Len(ring) \in Nat
    BY <2>1, HeadTailProperties, LenProperties
  <2> QED
    BY <2>1, <2>2, RingAssumption, SMTT(30) DEF RingTypeOK
<1>2. UNCHANGED <<pc, pkt, reserved, statsVars, rateVars, envVars>>
  BY DEF Drain
<1> QED
  BY <1>1, <1>2, Zenon
  DEF TypeInv, TypeOK, Locals, LocalsAt, MapsTypeOK, statsVars, rateVars, envVars, configMaps

LEMMA TickTypeInv == TypeInv /\ Tick => TypeInv'
<1> SUFFICES ASSUME TypeInv, Tick
             PROVE  TypeInv'
  OBVIOUS
<1>1. clock' \in Time
  BY XdpAssumption DEF Tick, Time, TypeInv, TypeOK
<1>2. UNCHANGED <<pc, pkt, ring, reserved, statsVars, rateVars, configMaps, received, updates, seen>>
  BY DEF Tick
<1> QED
  BY <1>1, <1>2, Zenon
  DEF TypeInv, TypeOK, Locals, LocalsAt, MapsTypeOK, RingTypeOK, statsVars, rateVars, configMaps

LEMMA StutterTypeInv == TypeInv /\ UNCHANGED vars => TypeInv'
  BY Zenon DEF vars, TypeInv, TypeOK, Locals, LocalsAt, MapsTypeOK, RingTypeOK,
         statsVars, rateVars, envVars, configMaps

LEMMA NextTypeInv == TypeInv /\ [Next]_vars => TypeInv'
<1> SUFFICES ASSUME TypeInv, [Next]_vars
             PROVE  TypeInv'
  OBVIOUS
<1>1. ASSUME NEW c \in CPUs, xdp_filter(c)
      PROVE  TypeInv'
  BY <1>1, ReserveTypeInv, ReserveFailsTypeInv, StatsLookupTypeInv, StatsInitTypeInv,
     StateCheckTypeInv, ListLookupTypeInv, NotLimitedTypeInv, RateLookupTypeInv,
     TimestampLookupTypeInv, TimestampInitTypeInv, TimestampCheckTypeInv,
     TimestampStoreTypeInv, CountIpTypeInv, CountAllTypeInv, SubmitTypeInv, ReturnTypeInv, SMTT(30)
  DEF xdp_filter
<1> QED
  BY <1>1, ReceiveTypeInv, UpdateTypeInv, DrainTypeInv, TickTypeInv, StutterTypeInv
  DEF Next, Traffic

\* The state of xdp_filter keeps its type, and the locals a CPU uses at a label
\* are set when it gets there: the time is compared and stored through an
\* element of ip_timestamps_map and never through NULL.
THEOREM TypeCorrect == Spec => [](TypeOK /\ Locals)
  BY InitTypeInv, NextTypeInv, PTL DEF Spec, TypeInv

\* A step of the filter on c leaves the other CPUs alone, and keeps the
\* address of its packet until it returns.
LEMMA OwnStep ==
  ASSUME TypeInv, NEW c \in CPUs, xdp_filter(c)
  PROVE  /\ \A d \in CPUs \ {c} : pc'[d] = pc[d] /\ pkt'[d] = pkt[d]
         /\ pc[c] \in Holding \cup {"reserve"} => pkt'[c].src_ip = pkt[c].src_ip
<1>1. pc \in [CPUs -> Labels] /\ pkt \in [CPUs -> Packets]
  BY DEF TypeInv, TypeOK
<1>2. /\ \E l : Goto(c, l)
      /\ \/ UNCHANGED pkt
         \/ \E v : pkt' = [pkt EXCEPT ![c].log = v]
         \/ \E v : pkt' = [pkt EXCEPT ![c].ret = v]
         \/ \E v : pkt' = [pkt EXCEPT ![c].ip_stats = v]
         \/ \E v : pkt' = [pkt EXCEPT ![c].interval = v]
         \/ \E v : pkt' = [pkt EXCEPT ![c].timestamp = v]
         \/ pc[c] = "return" /\ \E q : pkt' = [pkt EXCEPT ![c] = q]
  BY Zenon DEF xdp_filter, Reserve, ReserveFails, StatsLookup, StatsInit, StateCheck, WhitelistLookup,
         BlacklistLookup, NotLimited, RateLookup, TimestampLookup, TimestampInit, TimestampCheck,
         TimestampStore, CountIp, CountAll, Submit, Return, Decide, Admit, At
<1>3. \A d \in CPUs \ {c} : pc'[d] = pc[d] /\ pkt'[d] = pkt[d]
  BY <1>1, <1>2 DEF Goto
<1>4. pc[c] \in Holding \cup {"reserve"} => pkt'[c].src_ip = pkt[c].src_ip
  BY <1>1, <1>2 DEF Packets, Holding
<1> QED
  BY <1>3, <1>4

LEMMA NamesDiffer == /\ None \notin IPs /\ None \notin CPUs /\ NotIPv4 \notin IPs
                     /\ CPUs \cap IPs = {}
  BY XdpAssumption

Looked == Holding \ {"stats", "stats_init", "stats_again"}

\* A step of c that neither looks into ip_stats_map nor counts.
StatsQuiet(c) ==
  /\ UNCHANGED <<ip_stats_map, verdicts>>
  /\ pkt'[c].src_ip = pkt[c].src_ip /\ pkt'[c].ip_stats = pkt[c].ip_stats
  /\ pc'[c] \notin {"stats_init", "stats_again"}
  /\ pc'[c] \in Looked => pc[c] \in Looked

LEMMA StatsKinds ==
  ASSUME TypeInv, NEW c \in CPUs, xdp_filter(c)
  PROVE  StatsLookup(c) \/ StatsInit(c) \/ CountIp(c) \/ Return(c) \/ StatsQuiet(c)
<1> SUFFICES ASSUME ~StatsLookup(c), ~StatsInit(c), ~CountIp(c), ~Return(c)
             PROVE  StatsQuiet(c)
  OBVIOUS
<1>1. pc \in [CPUs -> Labels] /\ pkt \in [CPUs -> Packets]
  BY Zenon DEF TypeInv, TypeOK
<1>2. UNCHANGED <<ip_stats_map, verdicts>>
  BY DEF xdp_filter, Reserve, ReserveFails, StateCheck, WhitelistLookup, BlacklistLookup,
         NotLimited, RateLookup, TimestampLookup, TimestampInit, TimestampCheck,
         TimestampStore, CountAll, Submit, statsVars
<1>3. \/ UNCHANGED pkt
      \/ \E v : pkt' = [pkt EXCEPT ![c].log = v]
      \/ \E v : pkt' = [pkt EXCEPT ![c].ret = v]
      \/ \E v : pkt' = [pkt EXCEPT ![c].interval = v]
      \/ \E v : pkt' = [pkt EXCEPT ![c].timestamp = v]
  BY Zenon DEF xdp_filter, Reserve, ReserveFails, StateCheck, WhitelistLookup, BlacklistLookup,
         NotLimited, RateLookup, TimestampLookup, TimestampInit, TimestampCheck,
         TimestampStore, CountAll, Submit, Decide, Admit
<1>4. pkt'[c].src_ip = pkt[c].src_ip /\ pkt'[c].ip_stats = pkt[c].ip_stats
  BY <1>1, <1>3 DEF Packets
<1>5. /\ pc'[c] \notin {"stats_init", "stats_again"}
      /\ pc'[c] \in Looked => pc[c] \in Looked
  <2>1. CASE Reserve(c) \/ ReserveFails(c) \/ StateCheck(c) \/ CountAll(c) \/ Submit(c)
    BY <1>1, <2>1 DEF Reserve, ReserveFails, StateCheck, CountAll, Submit, At, Goto,
       Looked, Holding, Labels
  <2>2. CASE WhitelistLookup(c) \/ BlacklistLookup(c) \/ NotLimited(c) \/ RateLookup(c)
    BY <1>1, <2>2 DEF WhitelistLookup, BlacklistLookup, NotLimited, RateLookup, Decide, At, Goto,
       Looked, Holding, Labels
  <2>3. CASE TimestampLookup(c) \/ TimestampCheck(c)
    BY <1>1, <2>3 DEF TimestampLookup, TimestampCheck, Decide, At, Goto, Looked, Holding, Labels
  <2>4. CASE TimestampInit(c) \/ TimestampStore(c)
    <3>1. At(c, "ts_init") \/ At(c, "ts_store")
      BY <2>4, Zenon DEF TimestampInit, TimestampStore
    <3>2. Goto(c, "count_ip")
      BY <2>4, Zenon DEF TimestampInit, TimestampStore, Admit, Decide
    <3> QED
      BY <1>1, <3>1, <3>2 DEF At, Goto, Looked, Holding, Labels
  <2> QED
    BY <2>1, <2>2, <2>3, <2>4 DEF xdp_filter
<1> QED
  BY <1>2, <1>4, <1>5 DEF StatsQuiet

-----------------------------------------------------------------------------
(* Sums over a finite set. *)

LEMMA Least ==
  ASSUME NEW T, T \subseteq Nat, T # {}
  PROVE  \E x \in T : \A y \in T : x <= y
<1> DEFINE R == OpToRel(<, Nat)
<1>1. IsWellFoundedOn(R, Nat)
  BY NatLessThanWellFounded, Zenon
<1>2. \A x, y \in Nat : y < x => <<y, x>> \in R
  BY DEF OpToRel
<1> HIDE DEF R
<1>3. PICK x \in T : \A y \in T : ~(<<y, x>> \in R)
  BY <1>1, WFMin, Zenon
<1>4. \A y \in T : ~(y < x)
  BY <1>2, <1>3, Zenon
<1> QED
  BY <1>4

Pick(s) == CHOOSE x \in s : TRUE

\* The equation of MapThenSumSet at s.
FoldAt(h, f, s) == h[s] = IF s = {} THEN 0 ELSE f[Pick(s)] + h[s \ {Pick(s)}]
Folded(h, f, S) == h = [s \in SUBSET S |-> IF s = {} THEN 0 ELSE f[Pick(s)] + h[s \ {Pick(s)}]]

LEMMA Picked ==
  ASSUME NEW S, IsFiniteSet(S), NEW s \in SUBSET S, s # {}
  PROVE  /\ Pick(s) \in s /\ s \ {Pick(s)} \in SUBSET S
         /\ Cardinality(s) \in Nat \ {0} /\ Cardinality(s \ {Pick(s)}) = Cardinality(s) - 1
<1>1. Pick(s) \in s
  BY Zenon DEF Pick
<1>2. IsFiniteSet(s)
  BY FS_Subset
<1> QED
  BY <1>1, <1>2, FS_CardinalityType, FS_EmptySet, FS_RemoveElement

\* MapThenSumSet is defined by recursion on the set: its equation has a
\* solution.
LEMMA FoldExists ==
  ASSUME NEW S, IsFiniteSet(S), NEW f
  PROVE  \E h : Folded(h, f, S)
<1> DEFINE Upto(h, n) == \A s \in SUBSET S : Cardinality(s) <= n => FoldAt(h, f, s)
           Bad == {n \in Nat : ~\E h : Upto(h, n)}
<1>1. Bad = {}
  <2> SUFFICES ASSUME Bad # {} PROVE FALSE
    OBVIOUS
  <2>1. PICK n \in Bad : \A m \in Bad : n <= m
    <3>1. Bad \subseteq Nat
      OBVIOUS
    <3> HIDE DEF Bad
    <3> QED
      BY <3>1, Least, Zenon
  <2>2. \A s \in SUBSET S : Cardinality(s) \in Nat /\ (Cardinality(s) = 0 <=> s = {})
    BY FS_Subset, FS_CardinalityType, FS_EmptySet
  <2>3. CASE n = 0
    <3> DEFINE h == [s \in SUBSET S |-> 0]
    <3>1. Upto(h, 0)
      BY <2>2 DEF FoldAt
    <3> QED
      BY <2>1, <2>3, <3>1
  <2>4. CASE n # 0
    <3>1. n - 1 \in Nat /\ n - 1 \notin Bad
      BY <2>1, <2>4
    <3>2. PICK h : Upto(h, n - 1)
      BY <3>1
    <3> DEFINE g == [s \in SUBSET S |-> IF Cardinality(s) <= n - 1 THEN h[s]
                                        ELSE f[Pick(s)] + h[s \ {Pick(s)}]]
    <3>3. ASSUME NEW s \in SUBSET S, Cardinality(s) <= n
          PROVE  FoldAt(g, f, s)
      <4>1. CASE s = {}
        <5>1. Cardinality(s) <= n - 1 /\ g[s] = h[s]
          BY <2>2, <3>1, <4>1
        <5>2. FoldAt(h, f, s)
          BY <3>2, <5>1
        <5> QED
          BY <4>1, <5>1, <5>2 DEF FoldAt
      <4>2. CASE s # {}
        <5> DEFINE r == s \ {Pick(s)}
        <5>1. r \in SUBSET S /\ Cardinality(r) = Cardinality(s) - 1 /\ Cardinality(s) \in Nat \ {0}
          BY <4>2, Picked
        <5>2. Cardinality(r) <= n - 1
          BY <2>1, <3>3, <5>1
        <5> HIDE DEF r
        <5>3. g[r] = h[r]
          BY <5>1, <5>2
        <5>4. CASE Cardinality(s) <= n - 1
          <6>1. g[s] = h[s] /\ FoldAt(h, f, s)
            BY <3>2, <5>4
          <6> HIDE DEF g
          <6> QED
            BY <4>2, <5>3, <6>1 DEF FoldAt, r
        <5>5. CASE ~(Cardinality(s) <= n - 1)
          <6>1. g[s] = f[Pick(s)] + h[r]
            BY <5>5 DEF r
          <6> HIDE DEF g
          <6> QED
            BY <4>2, <5>3, <6>1 DEF FoldAt, r
        <5> QED
          BY <5>4, <5>5
      <4> QED
        BY <4>1, <4>2
    <3>4. Upto(g, n)
      <4> HIDE DEF g
      <4> QED
        BY <3>3
    <3> HIDE DEF g
    <3> QED
      BY <2>1, <3>4
  <2> QED
    BY <2>3, <2>4
<1>2. Cardinality(S) \in Nat /\ \A s \in SUBSET S : Cardinality(s) <= Cardinality(S)
  BY FS_Subset, FS_CardinalityType
<1>3. PICK h : \A s \in SUBSET S : FoldAt(h, f, s)
  BY <1>1, <1>2
<1> DEFINE g == [s \in SUBSET S |-> h[s]]
<1>4. Folded(g, f, S)
  <2>1. ASSUME NEW s \in SUBSET S
        PROVE  g[s] = IF s = {} THEN 0 ELSE f[Pick(s)] + g[s \ {Pick(s)}]
    <3>1. s \ {Pick(s)} \in SUBSET S
      OBVIOUS
    <3>2. g[s] = h[s] /\ g[s \ {Pick(s)}] = h[s \ {Pick(s)}]
      BY <3>1
    <3> QED
      BY <1>3, <3>2 DEF FoldAt
  <2> QED
    BY <2>1 DEF Folded
<1> QED
  BY <1>4

LEMMA FoldedAt ==
  ASSUME NEW S, NEW f, NEW h, Folded(h, f, S), NEW s \in SUBSET S
  PROVE  FoldAt(h, f, s)
  BY DEF Folded, FoldAt

\* Two functions that differ in one place differ by as much in their sums.
LEMMA FoldDiffers ==
  ASSUME NEW S, IsFiniteSet(S), NEW f \in [S -> Nat], NEW g \in [S -> Nat], NEW a \in S,
         \A x \in S \ {a} : g[x] = f[x],
         NEW h, Folded(h, f, S), NEW k, Folded(k, g, S)
  PROVE  \A s \in SUBSET S :
           h[s] \in Nat /\ k[s] \in Nat /\ k[s] + (IF a \in s THEN f[a] ELSE 0)
                                           = h[s] + (IF a \in s THEN g[a] ELSE 0)
<1> DEFINE Good(s) == /\ h[s] \in Nat /\ k[s] \in Nat
                      /\ k[s] + (IF a \in s THEN f[a] ELSE 0)
                           = h[s] + (IF a \in s THEN g[a] ELSE 0)
           Bad == {n \in Nat : \E s \in SUBSET S : Cardinality(s) = n /\ ~Good(s)}
<1>1. \A s \in SUBSET S : Cardinality(s) \in Nat
  BY FS_Subset, FS_CardinalityType
<1>2. Bad = {}
  <2> SUFFICES ASSUME Bad # {} PROVE FALSE
    OBVIOUS
  <2>1. PICK n \in Bad : \A m \in Bad : n <= m
    <3>1. Bad \subseteq Nat
      OBVIOUS
    <3> HIDE DEF Bad
    <3> QED
      BY <3>1, Least, Zenon
  <2>2. PICK s \in SUBSET S : Cardinality(s) = n /\ ~Good(s)
    BY <2>1
  <2>3. FoldAt(h, f, s) /\ FoldAt(k, g, s)
    BY FoldedAt
  <2>4. CASE s = {}
    BY <2>2, <2>3, <2>4 DEF FoldAt
  <2>5. CASE s # {}
    <3> DEFINE x == Pick(s)
               r == s \ {x}
    <3>1. /\ x \in s /\ r \in SUBSET S
          /\ Cardinality(s) \in Nat \ {0} /\ Cardinality(r) = Cardinality(s) - 1
      BY <2>5, Picked
    <3>2. Cardinality(r) \notin Bad
      <4>1. n \in Nat /\ Cardinality(s) = n
        BY <2>1, <2>2
      <4> HIDE DEF Bad, r
      <4> QED
        BY <2>1, <3>1, <4>1
    <3>3. h[s] = f[x] + h[r] /\ k[s] = g[x] + k[r]
      BY <2>3, <2>5 DEF FoldAt
    <3>4. a \in s <=> a = x \/ a \in r
      BY <3>1
    <3>5. x \notin r /\ x \in S
      BY <3>1
    <3> HIDE DEF x, r
    <3>6. Good(r)
      BY <1>1, <3>1, <3>2
    <3>7. f[x] \in Nat /\ g[x] \in Nat /\ f[a] \in Nat /\ g[a] \in Nat /\ (x # a => g[x] = f[x])
      BY <3>5
    <3> QED
      BY <2>2, <3>3, <3>4, <3>5, <3>6, <3>7
  <2> QED
    BY <2>4, <2>5
<1> QED
  BY <1>1, <1>2


\* n is the sum of f over S.
SumOf(n, f, S) == \E h : Folded(h, f, S) /\ n = h[S]

LEMMA SumDiffers ==
  ASSUME NEW f \in [IPs -> Nat], NEW g \in [IPs -> Nat], NEW a \in IPs,
         \A x \in IPs \ {a} : g[x] = f[x],
         NEW m, SumOf(m, f, IPs), NEW n, SumOf(n, g, IPs)
  PROVE  m \in Nat /\ n \in Nat /\ n + f[a] = m + g[a]
<1>1. PICK h : Folded(h, f, IPs) /\ m = h[IPs]
  BY DEF SumOf
<1>2. PICK k : Folded(k, g, IPs) /\ n = k[IPs]
  BY DEF SumOf
<1>3. IsFiniteSet(IPs)
  BY AddressAssumption
<1>4. \A s \in SUBSET IPs :
        h[s] \in Nat /\ k[s] \in Nat /\ k[s] + (IF a \in s THEN f[a] ELSE 0)
                                        = h[s] + (IF a \in s THEN g[a] ELSE 0)
  BY <1>1, <1>2, <1>3, FoldDiffers
<1> QED
  BY <1>1, <1>2, <1>4

LEMMA SumSame ==
  ASSUME NEW f \in [IPs -> Nat], NEW m, SumOf(m, f, IPs), NEW n, SumOf(n, f, IPs)
  PROVE  m = n /\ m \in Nat
<1>1. CASE IPs = {}
  <2>1. PICK h : Folded(h, f, IPs) /\ m = h[IPs]
    BY DEF SumOf
  <2>2. PICK k : Folded(k, f, IPs) /\ n = k[IPs]
    BY DEF SumOf
  <2>3. FoldAt(h, f, IPs) /\ FoldAt(k, f, IPs)
    BY <2>1, <2>2, FoldedAt
  <2> QED
    BY <1>1, <2>1, <2>2, <2>3 DEF FoldAt
<1>2. CASE IPs # {}
  <2>1. PICK a \in IPs : TRUE
    BY <1>2
  <2>2. m \in Nat /\ n \in Nat /\ n + f[a] = m + f[a] /\ f[a] \in Nat
    BY <2>1, SumDiffers
  <2> QED
    BY <2>2
<1> QED
  BY <1>1, <1>2
====

----------------------------- MODULE XdpHashProofs -----------------------------
(***************************************************************************)
(* What xdp_filter keeps about one address that one CPU receives, in       *)
(* ip_stats_map and in ip_timestamps_map, whatever the other CPUs do to    *)
(* the elements of other addresses.                                        *)
(***************************************************************************)
EXTENDS XdpFilterProofs

\* The element named after ip is linked for ip or not in use at all: it never
\* takes part in the exchange of spare elements.
OwnElement(map, ip) ==
  /\ map.link[ip] \in {None, ip}
  /\ \A other \in IPs \ {ip} : map.link[other] # ip
  /\ \A c \in CPUs : map.spare[c] # ip

\* ip has its element, or the map was full and will stay so.
Settled(map, ip) == map.link[ip] = ip \/ HashFull(map)

\* What CPU c knows of ip_stats_map while it handles a packet of ip; nobody
\* else changes what it depends on.
StatsLocals(c, ip) ==
  /\ pkt[c].ip_stats = ip => pkt[c].src_ip = ip
  /\ pkt[c].src_ip = ip =>
       /\ c \in Steer[ip]
       /\ pc[c] = "stats_init" => ip_stats_map.link[ip] = None
       /\ pc[c] = "stats_again" => Settled(ip_stats_map, ip)
       /\ pc[c] \in Looked => /\ pkt[c].ip_stats = ip_stats_map.link[ip]
                              /\ Settled(ip_stats_map, ip)

StatsInv(ip) ==
  /\ OwnElement(ip_stats_map, ip)
  /\ \A c \in CPUs : StatsLocals(c, ip)
  /\ ip_stats_map.link[ip] = None /\ ~HashFull(ip_stats_map) => verdicts[ip] = Zero
  /\ ip_stats_map.link[ip] = ip => ip_stats_map.value[ip] = verdicts[ip]

\* The same for ip_timestamps_map: between the check and the store the
\* interval has passed since the time that the element holds.
RateLocals(c, ip) ==
  /\ pkt[c].current_time <= clock
  /\ pkt[c].timestamp = ip => pkt[c].src_ip = ip
  /\ pkt[c].src_ip = ip =>
       /\ c \in Steer[ip]
       /\ pc[c] = "ts_init" => ip_timestamps_map.link[ip] = None
       /\ pc[c] \in {"ts_check", "ts_store"} =>
            pkt[c].timestamp = ip /\ ip_timestamps_map.link[ip] = ip
       /\ ip_timestamps_map.link[ip] = ip =>
            ip_timestamps_map.value[ip] <= pkt[c].current_time
       /\ pc[c] = "ts_store" =>
            pkt[c].current_time - ip_timestamps_map.value[ip] >= pkt[c].interval

RateInv(ip) ==
  /\ OwnElement(ip_timestamps_map, ip)
  /\ \A c \in CPUs : RateLocals(c, ip)
  /\ ip_timestamps_map.link[ip] = None /\ ~HashFull(ip_timestamps_map) =>
       admitted[ip] = <<>>
  /\ ip_timestamps_map.link[ip] = ip =>
       /\ ip_timestamps_map.value[ip] <= clock
       /\ admitted[ip] # <<>> /\ Spaced(admitted[ip])
       /\ admitted[ip][Len(admitted[ip])].at = ip_timestamps_map.value[ip]

SteeredInv == \A ip \in IPs : Steered(ip) => StatsInv(ip) /\ RateInv(ip)

-----------------------------------------------------------------------------
(* The hash maps. *)

LEMMA SteeredTo ==
  ASSUME NEW ip \in IPs, Steered(ip), NEW c \in Steer[ip], NEW d \in Steer[ip]
  PROVE  c = d
<1>1. Steer[ip] \subseteq CPUs /\ IsFiniteSet(CPUs)
  BY XdpAssumption
<1>2. IsFiniteSet(Steer[ip])
  BY <1>1, FS_Subset
<1>3. PICK x : Steer[ip] = {x}
  BY <1>2, FS_Singleton DEF Steered
<1> QED
  BY <1>3

\* An address that is linked stays linked, so a full map stays full.
LEMMA FullStays ==
  ASSUME NEW S, NEW map \in HashMaps(S), NEW c \in CPUs, NEW ip \in IPs, NEW v \in S,
         HashFull(map)
  PROVE  HashFull(HashUpdate(map, c, ip, v))
<1>1. CASE map.link[ip] = None
  BY <1>1 DEF HashUpdate
<1>2. CASE map.link[ip] # None
  <2> DEFINE m == HashUpdate(map, c, ip, v)
  <2>1. m.link = [map.link EXCEPT ![ip] = map.spare[c]]
    BY <1>2 DEF HashUpdate
  <2>2. map.link \in [IPs -> Pointers] /\ map.spare[c] # None
    BY NamesDiffer DEF HashMaps, Elements
  <2> HIDE DEF m
  <2>3. \A other \in IPs : m.link[other] # None <=> map.link[other] # None
    BY <1>2, <2>1, <2>2
  <2>4. {other \in IPs : m.link[other] # None} = {other \in IPs : map.link[other] # None}
    BY <2>3
  <2>5. HashFull(m)
    BY <2>4 DEF HashFull
  <2> QED
    BY <2>5 DEF m
<1> QED
  BY <1>1, <1>2

\* An update for another address leaves the element of ip alone.
LEMMA UpdateOther ==
  ASSUME NEW S, NEW map \in HashMaps(S), NEW c \in CPUs, NEW other \in IPs, NEW v \in S,
         NEW ip \in IPs \ {other}, OwnElement(map, ip),
         NEW m, m = HashUpdate(map, c, other, v)
  PROVE  /\ OwnElement(m, ip)
         /\ m.link[ip] = map.link[ip] /\ m.value[ip] = map.value[ip]
<1>1. /\ map.link \in [IPs -> Pointers] /\ map.value \in [Elements -> S]
      /\ map.spare \in [CPUs -> Elements] /\ ip \in Elements /\ other \in Elements
  BY DEF HashMaps, Elements
<1>2. CASE map.link[other] # None
  <2>1. /\ m.link = [map.link EXCEPT ![other] = map.spare[c]]
        /\ m.value = [map.value EXCEPT ![map.spare[c]] = v]
        /\ m.spare = [map.spare EXCEPT ![c] = map.link[other]]
    BY <1>2 DEF HashUpdate
  <2> QED
    BY <1>1, <2>1 DEF OwnElement
<1>3. CASE map.link[other] = None /\ ~HashFull(map)
  <2>1. m = [map EXCEPT !.link[other] = other, !.value[other] = v]
    BY <1>3 DEF HashUpdate
  <2>2. /\ m.link = [map.link EXCEPT ![other] = other]
        /\ m.value = [map.value EXCEPT ![other] = v]
        /\ m.spare = map.spare
    BY <2>1 DEF HashMaps
  <2> QED
    BY <1>1, <2>2 DEF OwnElement
<1>4. CASE map.link[other] = None /\ HashFull(map)
  BY <1>4 DEF HashUpdate
<1> QED
  BY <1>2, <1>3, <1>4

\* The first update for ip takes its element, unless the map is full.
LEMMA UpdateOwn ==
  ASSUME NEW S, NEW map \in HashMaps(S), NEW c \in CPUs, NEW ip \in IPs, NEW v \in S,
         OwnElement(map, ip), map.link[ip] = None,
         NEW m, m = HashUpdate(map, c, ip, v)
  PROVE  /\ OwnElement(m, ip) /\ Settled(m, ip)
         /\ IF HashFull(map) THEN m = map ELSE m.link[ip] = ip /\ m.value[ip] = v
<1>1. /\ map.link \in [IPs -> Pointers] /\ map.value \in [Elements -> S]
      /\ map.spare \in [CPUs -> Elements] /\ ip \in Elements
  BY DEF HashMaps, Elements
<1>2. CASE HashFull(map)
  BY <1>2 DEF HashUpdate, Settled
<1>3. CASE ~HashFull(map)
  <2>1. m = [map EXCEPT !.link[ip] = ip, !.value[ip] = v]
    BY <1>3 DEF HashUpdate
  <2>2. /\ m.link = [map.link EXCEPT ![ip] = ip]
        /\ m.value = [map.value EXCEPT ![ip] = v]
        /\ m.spare = map.spare
    BY <2>1 DEF HashMaps
  <2> QED
    BY <1>1, <1>3, <2>2 DEF OwnElement, Settled
<1> QED
  BY <1>2, <1>3

\* A store through a pointer changes no link.
LEMMA StoreElement ==
  ASSUME NEW S, NEW map \in HashMaps(S), NEW e \in Elements, NEW v \in S, NEW ip \in IPs,
         NEW m, m = [map EXCEPT !.value[e] = v]
  PROVE  /\ m.link = map.link /\ m.spare = map.spare
         /\ m.value[ip] = IF e = ip THEN v ELSE map.value[ip]
         /\ HashFull(m) <=> HashFull(map)
         /\ OwnElement(m, ip) <=> OwnElement(map, ip)
<1>1. m.link = map.link /\ m.spare = map.spare /\ m.value = [map.value EXCEPT ![e] = v]
  BY DEF HashMaps
<1>2. ip \in Elements /\ map.value \in [Elements -> S]
  BY DEF HashMaps, Elements
<1> QED
  BY <1>1, <1>2 DEF HashFull, OwnElement


-----------------------------------------------------------------------------
(* ip_stats_map. *)

LEMMA InitStats == \A ip \in IPs : Init => StatsInv(ip)
<1> SUFFICES ASSUME NEW ip \in IPs, Init
             PROVE  StatsInv(ip)
  OBVIOUS
<1>1. OwnElement(ip_stats_map, ip) /\ ip_stats_map.link[ip] = None
  BY NamesDiffer DEF Init, HashInit, OwnElement
<1>2. \A c \in CPUs : StatsLocals(c, ip)
  BY NamesDiffer DEF Init, StatsLocals, NoPacket
<1> QED
  BY <1>1, <1>2, NamesDiffer DEF StatsInv, Init

\* What another CPU knows survives a step that keeps the link of ip.
LEMMA OtherStats ==
  ASSUME NEW ip \in IPs, NEW d \in CPUs, StatsLocals(d, ip),
         pc'[d] = pc[d], pkt'[d] = pkt[d],
         ip_stats_map'.link[ip] = ip_stats_map.link[ip],
         HashFull(ip_stats_map) => HashFull(ip_stats_map')
  PROVE  StatsLocals(d, ip)'
  BY DEF StatsLocals, Settled

LEMMA QuietStats ==
  ASSUME NEW ip \in IPs, StatsInv(ip), NEW c \in CPUs, StatsQuiet(c),
         \A d \in CPUs \ {c} : pc'[d] = pc[d] /\ pkt'[d] = pkt[d]
  PROVE  StatsInv(ip)'
<1>1. StatsLocals(c, ip)'
  BY DEF StatsInv, StatsLocals, StatsQuiet
<1>2. \A d \in CPUs \ {c} : StatsLocals(d, ip)'
  BY OtherStats DEF StatsInv, StatsQuiet
<1> QED
  BY <1>1, <1>2, Zenon DEF StatsInv, StatsQuiet

LEMMA StatsLookupStats ==
  ASSUME TypeInv, NEW ip \in IPs, StatsInv(ip), NEW c \in CPUs, StatsLookup(c)
  PROVE  StatsInv(ip)'
<1> DEFINE src == pkt[c].src_ip
           elem == ip_stats_map.link[src]
<1>1. /\ pkt \in [CPUs -> Packets] /\ pc \in [CPUs -> Labels]
      /\ pc[c] \in {"stats", "stats_again"} /\ src \in IPs
      /\ UNCHANGED <<ip_stats_map, verdicts>>
  BY Zenon DEF StatsLookup, TypeInv, TypeOK, Locals, LocalsAt, Holding, Labels, statsVars
<1>2. /\ pkt'[c].src_ip = src /\ pkt'[c].ip_stats = elem
      /\ pc'[c] = IF elem = None /\ pc[c] = "stats" THEN "stats_init" ELSE "wl_state"
      /\ \A d \in CPUs \ {c} : pc'[d] = pc[d] /\ pkt'[d] = pkt[d]
  BY <1>1 DEF StatsLookup, Goto, At, Packets
<1>3. OwnElement(ip_stats_map, ip) /\ StatsLocals(c, ip)
  BY DEF StatsInv
<1> HIDE DEF elem
<1>4. src # ip => elem # ip
  BY <1>1, <1>3 DEF OwnElement, elem
<1>5. src = ip /\ elem # None => elem = ip
  BY <1>3 DEF OwnElement, elem
<1>6. StatsLocals(c, ip)'
  <2>1. CASE src # ip
    BY <1>2, <1>4, <2>1 DEF StatsLocals
  <2>2. CASE src = ip /\ pc'[c] = "stats_init"
    BY <1>1, <1>2, <1>3, <2>2 DEF StatsLocals, elem, Looked
  <2>3. CASE src = ip /\ pc'[c] = "wl_state"
    BY <1>1, <1>2, <1>3, <1>5, <2>3 DEF StatsLocals, Settled, elem
  <2> QED
    BY <1>2, <2>1, <2>2, <2>3
<1>7. \A d \in CPUs \ {c} : StatsLocals(d, ip)'
  BY <1>1, <1>2, OtherStats DEF StatsInv
<1> QED
  BY <1>1, <1>6, <1>7, Zenon DEF StatsInv


LEMMA StatsInitStats ==
  ASSUME TypeInv, NEW ip \in IPs, Steered(ip), StatsInv(ip), NEW c \in CPUs, StatsInit(c)
  PROVE  StatsInv(ip)'
<1> DEFINE src == pkt[c].src_ip
           m == ip_stats_map'
<1>1. /\ pc[c] = "stats_init" /\ pc'[c] = "stats_again" /\ src \in IPs
      /\ UNCHANGED <<pkt, verdicts>> /\ \A d \in CPUs \ {c} : pc'[d] = pc[d]
  BY Zenon DEF StatsInit, At, Goto, TypeInv, TypeOK, Locals, LocalsAt, Holding, Labels
<1>2. /\ ip_stats_map \in HashMaps(Counts) /\ Zero \in Counts
      /\ m = HashUpdate(ip_stats_map, c, src, Zero)
  BY DEF StatsInit, TypeInv, TypeOK, Counts, Zero
<1>3. OwnElement(ip_stats_map, ip) /\ \A d \in CPUs : StatsLocals(d, ip)
  BY DEF StatsInv
<1>4. HashFull(ip_stats_map) => HashFull(m)
  BY <1>1, <1>2, FullStays
<1> HIDE DEF m
<1>5. CASE src # ip
  <2>1. /\ OwnElement(m, ip) /\ m.link[ip] = ip_stats_map.link[ip]
        /\ m.value[ip] = ip_stats_map.value[ip]
    BY <1>1, <1>2, <1>3, <1>5, UpdateOther
  <2>2. StatsLocals(c, ip)'
    BY <1>1, <1>3, <1>5 DEF StatsLocals
  <2>3. \A d \in CPUs \ {c} : StatsLocals(d, ip)'
    BY <1>1, <1>3, <1>4, <2>1, OtherStats DEF m
  <2> QED
    BY <1>1, <1>4, <2>1, <2>2, <2>3, Zenon DEF StatsInv, m
<1>6. CASE src = ip
  <2>1. ip_stats_map.link[ip] = None /\ c \in Steer[ip]
    BY <1>1, <1>3, <1>6 DEF StatsLocals
  <2>2. /\ OwnElement(m, ip) /\ Settled(m, ip)
        /\ IF HashFull(ip_stats_map) THEN m = ip_stats_map ELSE m.link[ip] = ip /\ m.value[ip] = Zero
    BY <1>1, <1>2, <1>3, <1>6, <2>1, UpdateOwn
  <2>3. StatsLocals(c, ip)'
    BY <1>1, <1>3, <1>6, <2>1, <2>2 DEF StatsLocals, m, Looked
  <2>4. ASSUME NEW d \in CPUs \ {c}
        PROVE  StatsLocals(d, ip)'
    <3>1. pkt[d].src_ip # ip
      BY <1>3, <2>1, SteeredTo DEF StatsLocals
    <3> QED
      BY <1>1, <1>3, <3>1 DEF StatsLocals
  <2>5. ip \in IPs /\ None # ip
    BY NamesDiffer
  <2>6. CASE HashFull(ip_stats_map)
    <3>1. m = ip_stats_map
      BY <2>2, <2>6
    <3> QED
      BY <1>1, <2>2, <2>3, <2>4, <3>1, Zenon DEF StatsInv, m
  <2>7. CASE ~HashFull(ip_stats_map)
    <3>1. m.link[ip] = ip /\ m.value[ip] = verdicts[ip]
      BY <2>1, <2>2, <2>7 DEF StatsInv
    <3> QED
      BY <1>1, <2>2, <2>3, <2>4, <2>5, <3>1, Zenon DEF StatsInv, m
  <2> QED
    BY <2>6, <2>7
<1> QED
  BY <1>5, <1>6

LEMMA CountIpStats ==
  ASSUME TypeInv, NEW ip \in IPs, StatsInv(ip), NEW c \in CPUs, CountIp(c)
  PROVE  StatsInv(ip)'
<1> DEFINE src == pkt[c].src_ip
           elem == pkt[c].ip_stats
           v == pkt[c].ret
           m == ip_stats_map'
           n == [ip_stats_map.value[elem] EXCEPT ![v] = @ + 1]
<1>1. /\ pc[c] = "count_ip" /\ pc'[c] = "count_all" /\ src \in IPs /\ v \in Verdicts
      /\ UNCHANGED pkt /\ \A d \in CPUs \ {c} : pc'[d] = pc[d]
      /\ elem \in Pointers /\ verdicts \in [IPs -> Counts]
      /\ ip_stats_map \in HashMaps(Counts)
  BY Zenon DEF CountIp, At, Goto, TypeInv, TypeOK, Locals, LocalsAt, Holding, Labels, Packets, Deciding
<1>2. /\ OwnElement(ip_stats_map, ip) /\ \A d \in CPUs : StatsLocals(d, ip)
      /\ None # ip
  BY NamesDiffer DEF StatsInv
<1>3. verdicts'[ip] = IF src = ip THEN [verdicts[ip] EXCEPT ![v] = @ + 1] ELSE verdicts[ip]
  BY <1>1 DEF CountIp
<1>4. /\ m.link = ip_stats_map.link /\ OwnElement(m, ip)
      /\ HashFull(m) <=> HashFull(ip_stats_map)
      /\ m.value[ip] = IF elem = ip THEN n ELSE ip_stats_map.value[ip]
  <2>1. CASE elem = None
    BY <1>2, <2>1 DEF CountIp
  <2>2. CASE elem # None
    <3>1. elem \in Elements /\ ip_stats_map.value[elem] \in Counts
      BY <1>1, <2>2 DEF Pointers, HashMaps
    <3>2. n \in Counts
      BY <1>1, <3>1, CountsIncrement
    <3>3. m = [ip_stats_map EXCEPT !.value[elem] = n]
      BY <2>2 DEF CountIp
    <3> HIDE DEF n, elem, m
    <3> QED
      BY <1>1, <1>2, <3>1, <3>2, <3>3, StoreElement
  <2> QED
    BY <2>1, <2>2
<1> HIDE DEF m, n
<1>5. \A d \in CPUs : StatsLocals(d, ip)'
  <2>1. StatsLocals(c, ip)'
    BY <1>1, <1>2, <1>4 DEF StatsLocals, Settled, Looked, Holding, Labels, m
  <2>2. \A d \in CPUs \ {c} : StatsLocals(d, ip)'
    BY <1>1, <1>2, <1>4, OtherStats DEF m
  <2> QED
    BY <2>1, <2>2
<1>6. CASE src # ip
  <2>1. elem # ip
    BY <1>2, <1>6 DEF StatsLocals
  <2> QED
    BY <1>3, <1>4, <1>5, <1>6, <2>1, Zenon DEF StatsInv, m
<1>7. CASE src = ip
  <2>1. elem = ip_stats_map.link[ip] /\ Settled(ip_stats_map, ip)
    BY <1>1, <1>2, <1>7 DEF StatsLocals, Looked, Holding, Labels
  <2>2. CASE ip_stats_map.link[ip] = ip
    <3>1. elem = ip /\ ip_stats_map.value[ip] = verdicts[ip]
      BY <2>1, <2>2 DEF StatsInv
    <3>2. m.value[ip] = verdicts'[ip]
      BY <1>3, <1>4, <1>7, <3>1 DEF n
    <3> QED
      BY <1>2, <1>4, <1>5, <2>2, <3>2, Zenon DEF StatsInv, m
  <2>3. CASE ip_stats_map.link[ip] # ip
    <3>1. HashFull(m) /\ m.link[ip] # ip
      BY <1>4, <2>1, <2>3 DEF Settled
    <3> QED
      BY <1>4, <1>5, <3>1, Zenon DEF StatsInv, m
  <2> QED
    BY <2>2, <2>3
<1> QED
  BY <1>6, <1>7

LEMMA NewLocals ==
  ASSUME pkt \in [CPUs -> Packets], NEW c \in CPUs,
         Return(c) \/ \E frame \in IPs \cup {NotIPv4} : Receive(c, frame)
  PROVE  /\ pkt'[c].ip_stats = None /\ pkt'[c].timestamp = None
         /\ pkt'[c].src_ip \in IPs =>
              c \in Steer[pkt'[c].src_ip] /\ pkt'[c].current_time = clock
         /\ pkt'[c].current_time \in {0, clock}
<1>1. CASE Return(c)
  BY <1>1, NamesDiffer DEF Return, NoPacket
<1>2. ASSUME NEW frame \in IPs \cup {NotIPv4}, Receive(c, frame)
      PROVE  /\ pkt'[c].ip_stats = None /\ pkt'[c].timestamp = None
             /\ pkt'[c].src_ip = frame /\ pkt'[c].current_time = clock
             /\ frame \in IPs => c \in Steer[frame]
  <2> DEFINE r == IF frame = NotIPv4 THEN "PASS" ELSE "none"
             q == [NoPacket EXCEPT !.src_ip = frame, !.current_time = clock, !.ret = r]
  <2>1. pkt' = [pkt EXCEPT ![c] = q] /\ (frame \in IPs => c \in Steer[frame])
    BY <1>2, Zenon DEF Receive
  <2>2. /\ q.ip_stats = None /\ q.timestamp = None
        /\ q.src_ip = frame /\ q.current_time = clock
    BY DEF NoPacket
  <2> HIDE DEF q
  <2> QED
    BY <2>1, <2>2, SMTT(30)
<1> QED
  BY <1>1, <1>2

\* A packet arrives or is done with.
LEMMA NewPacketStats ==
  ASSUME TypeInv, NEW ip \in IPs, StatsInv(ip), NEW c \in CPUs,
         Return(c) \/ \E frame \in IPs \cup {NotIPv4} : Receive(c, frame)
  PROVE  StatsInv(ip)'
<1>1. pc \in [CPUs -> Labels] /\ pkt \in [CPUs -> Packets] /\ None # ip /\ NotIPv4 # ip
  BY NamesDiffer, SMTT(30) DEF TypeInv, TypeOK
<1>2. /\ \A d \in CPUs \ {c} : pc'[d] = pc[d] /\ pkt'[d] = pkt[d]
      /\ UNCHANGED <<ip_stats_map, verdicts>>
      /\ pc'[c] \in {"idle", "reserve", "return"}
  BY <1>1, Zenon DEF Return, Receive, Goto, statsVars
<1>3. pkt'[c].ip_stats = None /\ (pkt'[c].src_ip = ip => c \in Steer[ip])
  BY <1>1, NewLocals
<1>4. StatsLocals(c, ip)'
  BY <1>1, <1>2, <1>3 DEF StatsLocals, Looked, Holding
<1>5. \A d \in CPUs \ {c} : StatsLocals(d, ip)'
  BY <1>2, OtherStats DEF StatsInv
<1> QED
  BY <1>2, <1>4, <1>5, Zenon DEF StatsInv

LEMMA NextStats ==
  ASSUME TypeInv, [Next]_vars, NEW ip \in IPs, Steered(ip), StatsInv(ip)
  PROVE  StatsInv(ip)'
<1>1. ASSUME NEW c \in CPUs, xdp_filter(c)
      PROVE  StatsInv(ip)'
  <2>1. \A d \in CPUs \ {c} : pc'[d] = pc[d] /\ pkt'[d] = pkt[d]
    BY <1>1, OwnStep
  <2> QED
    BY <1>1, <2>1, StatsKinds, QuietStats, StatsLookupStats, StatsInitStats, CountIpStats,
       NewPacketStats, SMTT(30)
<1>2. CASE Update \/ Drain \/ Tick \/ UNCHANGED vars
  <2>1. UNCHANGED <<pc, pkt, ip_stats_map, verdicts>>
    BY <1>2, Zenon DEF Update, Drain, Tick, vars, statsVars
  <2> QED
    BY <2>1, Zenon DEF StatsInv, StatsLocals
<1> QED
  BY <1>1, <1>2, NewPacketStats DEF Next, Traffic


-----------------------------------------------------------------------------
(* ip_timestamps_map. *)

LEMMA InitRate == \A ip \in IPs : Init => RateInv(ip)
<1> SUFFICES ASSUME NEW ip \in IPs, Init
             PROVE  RateInv(ip)
  OBVIOUS
<1>1. OwnElement(ip_timestamps_map, ip) /\ ip_timestamps_map.link[ip] = None
  BY NamesDiffer DEF Init, HashInit, OwnElement
<1>2. \A c \in CPUs : RateLocals(c, ip)
  BY NamesDiffer DEF Init, RateLocals, NoPacket
<1> QED
  BY <1>1, <1>2, NamesDiffer DEF RateInv, Init

\* What another CPU knows survives a step that keeps the element of ip.
LEMMA OtherRate ==
  ASSUME NEW ip \in IPs, NEW d \in CPUs, RateLocals(d, ip),
         pc'[d] = pc[d], pkt'[d] = pkt[d], UNCHANGED clock,
         ip_timestamps_map'.link[ip] = ip_timestamps_map.link[ip],
         ip_timestamps_map'.value[ip] = ip_timestamps_map.value[ip]
  PROVE  RateLocals(d, ip)'
  BY DEF RateLocals

\* A CPU that has no packet of ip does not depend on the element.
LEMMA StrangerRate ==
  ASSUME NEW ip \in IPs, NEW d \in CPUs, RateLocals(d, ip), pkt[d].src_ip # ip,
         pkt'[d] = pkt[d], UNCHANGED clock
  PROVE  RateLocals(d, ip)'
  BY DEF RateLocals

\* A step of c that does not look at the timestamps.
RateQuiet(c) ==
  /\ UNCHANGED <<ip_timestamps_map, admitted, clock>>
  /\ pkt'[c].src_ip = pkt[c].src_ip /\ pkt'[c].timestamp = pkt[c].timestamp
  /\ pkt'[c].current_time = pkt[c].current_time
  /\ pc'[c] \notin {"ts_init", "ts_check", "ts_store"}

LEMMA RateKinds ==
  ASSUME TypeInv, NEW c \in CPUs, xdp_filter(c)
  PROVE  \/ TimestampLookup(c) \/ TimestampInit(c) \/ TimestampCheck(c) \/ TimestampStore(c)
         \/ Return(c) \/ RateQuiet(c)
<1> SUFFICES ASSUME ~TimestampLookup(c), ~TimestampInit(c), ~TimestampCheck(c),
                    ~TimestampStore(c), ~Return(c)
             PROVE  RateQuiet(c)
  OBVIOUS
<1>1. pc \in [CPUs -> Labels] /\ pkt \in [CPUs -> Packets]
  BY Zenon DEF TypeInv, TypeOK
<1>2. UNCHANGED <<ip_timestamps_map, admitted, clock>>
  BY DEF xdp_filter, Reserve, ReserveFails, StatsLookup, StatsInit, StateCheck, WhitelistLookup,
         BlacklistLookup, NotLimited, RateLookup, CountIp, CountAll, Submit, rateVars, envVars
<1>3. \/ UNCHANGED pkt
      \/ \E v : pkt' = [pkt EXCEPT ![c].log = v]
      \/ \E v : pkt' = [pkt EXCEPT ![c].ret = v]
      \/ \E v : pkt' = [pkt EXCEPT ![c].ip_stats = v]
      \/ \E v : pkt' = [pkt EXCEPT ![c].interval = v]
  BY Zenon DEF xdp_filter, Reserve, ReserveFails, StatsLookup, StatsInit, StateCheck,
         WhitelistLookup, BlacklistLookup, NotLimited, RateLookup, CountIp, CountAll, Submit, Decide
<1>4. /\ pkt'[c].src_ip = pkt[c].src_ip /\ pkt'[c].timestamp = pkt[c].timestamp
      /\ pkt'[c].current_time = pkt[c].current_time
  BY <1>1, <1>3, SMTT(30) DEF Packets
<1>5. pc'[c] \notin {"ts_init", "ts_check", "ts_store"}
  BY <1>1 DEF xdp_filter, Reserve, ReserveFails, StatsLookup, StatsInit, StateCheck,
         WhitelistLookup, BlacklistLookup, NotLimited, RateLookup, CountIp, CountAll, Submit,
         Decide, At, Goto
<1> QED
  BY <1>2, <1>4, <1>5 DEF RateQuiet

LEMMA QuietRate ==
  ASSUME NEW ip \in IPs, RateInv(ip), NEW c \in CPUs, RateQuiet(c),
         \A d \in CPUs \ {c} : pc'[d] = pc[d] /\ pkt'[d] = pkt[d]
  PROVE  RateInv(ip)'
<1>1. RateLocals(c, ip)'
  BY DEF RateInv, RateLocals, RateQuiet
<1>2. \A d \in CPUs \ {c} : RateLocals(d, ip)'
  BY OtherRate DEF RateInv, RateQuiet
<1> QED
  BY <1>1, <1>2, Zenon DEF RateInv, RateQuiet

LEMMA NewPacketRate ==
  ASSUME TypeInv, NEW ip \in IPs, RateInv(ip), NEW c \in CPUs,
         Return(c) \/ \E frame \in IPs \cup {NotIPv4} : Receive(c, frame)
  PROVE  RateInv(ip)'
<1>1. /\ pc \in [CPUs -> Labels] /\ pkt \in [CPUs -> Packets] /\ None # ip /\ NotIPv4 # ip
      /\ clock \in Nat
  BY NamesDiffer, XdpAssumption, SMTT(30) DEF TypeInv, TypeOK, Time
<1>2. /\ \A d \in CPUs \ {c} : pc'[d] = pc[d] /\ pkt'[d] = pkt[d]
      /\ UNCHANGED <<ip_timestamps_map, admitted, clock>>
      /\ pc'[c] \in {"idle", "reserve", "return"}
  BY <1>1, Zenon DEF Return, Receive, Goto, rateVars
<1>3. /\ pkt'[c].timestamp = None
      /\ pkt'[c].src_ip = ip => c \in Steer[ip] /\ pkt'[c].current_time = clock
  BY <1>1, NewLocals
<1>4. pkt'[c].current_time <= clock
  BY <1>1, NewLocals, SMTT(30)
<1>5. RateLocals(c, ip)'
  BY <1>1, <1>2, <1>3, <1>4, SMTT(30) DEF RateLocals, RateInv
<1>6. \A d \in CPUs \ {c} : RateLocals(d, ip)'
  BY <1>2, OtherRate DEF RateInv
<1> QED
  BY <1>2, <1>5, <1>6, Zenon DEF RateInv

LEMMA TimestampLookupRate ==
  ASSUME TypeInv, NEW ip \in IPs, RateInv(ip), NEW c \in CPUs, TimestampLookup(c)
  PROVE  RateInv(ip)'
<1> DEFINE src == pkt[c].src_ip
           elem == ip_timestamps_map.link[src]
<1>1. /\ pkt \in [CPUs -> Packets] /\ pc \in [CPUs -> Labels] /\ src \in IPs
      /\ UNCHANGED <<ip_timestamps_map, admitted, clock>>
  BY Zenon DEF TimestampLookup, At, TypeInv, TypeOK, Locals, LocalsAt, Holding, Labels, rateVars, envVars
<1>2. /\ pkt'[c].src_ip = src /\ pkt'[c].timestamp = elem
      /\ pkt'[c].current_time = pkt[c].current_time
      /\ pc'[c] = IF elem = None THEN "ts_init" ELSE "ts_check"
      /\ \A d \in CPUs \ {c} : pc'[d] = pc[d] /\ pkt'[d] = pkt[d]
  BY <1>1 DEF TimestampLookup, Goto, Packets
<1>3. OwnElement(ip_timestamps_map, ip) /\ RateLocals(c, ip)
  BY DEF RateInv
<1> HIDE DEF elem
<1>4. src # ip => elem # ip
  BY <1>1, <1>3 DEF OwnElement, elem
<1>5. src = ip => elem = ip_timestamps_map.link[ip] /\ elem \in {None, ip}
  BY <1>3 DEF OwnElement, elem
<1>6. RateLocals(c, ip)'
  BY <1>1, <1>2, <1>3, <1>4, <1>5 DEF RateLocals
<1>7. \A d \in CPUs \ {c} : RateLocals(d, ip)'
  BY <1>1, <1>2, OtherRate DEF RateInv
<1> QED
  BY <1>1, <1>6, <1>7, Zenon DEF RateInv


LEMMA NoWrap ==
  ASSUME NEW x \in Nat, NEW n \in Nat, x < n
  PROVE  x % n = x
  OBVIOUS

LEMMA IntervalType == Intervals \subseteq Nat
  BY MapsAssumption DEF Intervals

\* The clock does not run backwards, so on the only CPU of ip the unsigned
\* difference is the time since the last admission.
LEMMA TimestampCheckRate ==
  ASSUME TypeInv, NEW ip \in IPs, RateInv(ip), NEW c \in CPUs, TimestampCheck(c)
  PROVE  RateInv(ip)'
<1>1. /\ pkt \in [CPUs -> Packets] /\ pc \in [CPUs -> Labels] /\ At(c, "ts_check")
      /\ UNCHANGED <<ip_timestamps_map, admitted, clock>>
  BY DEF TimestampCheck, TypeInv, TypeOK, rateVars, envVars
<1>2. OwnElement(ip_timestamps_map, ip) /\ RateLocals(c, ip)
  BY DEF RateInv
<1>3. PICK v \in PacketInterval(c) :
        \/ Decide(c, "DROP")
        \/ ~(Elapsed(c) < v) /\ Goto(c, "ts_store") /\ pkt' = [pkt EXCEPT ![c].interval = v]
  BY DEF TimestampCheck
<1>4. v \in Intervals
  BY <1>1, <1>3 DEF PacketInterval, TypeInv, Locals, LocalsAt, Stamping, At
<1>5. \A d \in CPUs \ {c} : pc'[d] = pc[d] /\ pkt'[d] = pkt[d]
  BY <1>1, <1>3 DEF Decide, Goto
<1>6. /\ pkt'[c].src_ip = pkt[c].src_ip /\ pkt'[c].timestamp = pkt[c].timestamp
      /\ pkt'[c].current_time = pkt[c].current_time
  BY <1>1, <1>3 DEF Decide, Packets
<1>7. RateLocals(c, ip)'
  <2>1. CASE Decide(c, "DROP")
    <3>1. pc'[c] = "count_ip"
      BY <1>1, <2>1, SMTT(30) DEF Decide, Goto
    <3> QED
      BY <1>1, <1>2, <1>6, <3>1 DEF RateLocals
  <2>2. CASE /\ ~(Elapsed(c) < v) /\ Goto(c, "ts_store")
             /\ pkt' = [pkt EXCEPT ![c].interval = v]
    <3>1. pc'[c] = "ts_store" /\ pkt'[c].interval = v
      BY <1>1, <2>2 DEF Goto, Packets
    <3>2. ASSUME pkt[c].src_ip = ip
          PROVE  pkt[c].current_time - ip_timestamps_map.value[ip] >= v
      <4> DEFINE now == pkt[c].current_time
                 last == ip_timestamps_map.value[ip]
      <4>1. pkt[c].timestamp = ip /\ last <= now
        BY <1>1, <1>2, <3>2 DEF RateLocals, At
      <4>2. last \in Time /\ now \in Time
        BY <1>1 DEF TypeInv, TypeOK, HashMaps, Elements, Packets
      <4>3. now - last \in Nat /\ now - last < TimeMod /\ TimeMod \in Nat
        BY <4>1, <4>2, XdpAssumption DEF Time
      <4>4. Elapsed(c) = now - last
        BY <4>1, <4>3, NoWrap, SMTT(30) DEF Elapsed
      <4> QED
        BY <1>4, <2>2, <4>3, <4>4, IntervalType, SMTT(30)
    <3> QED
      BY <1>1, <1>2, <1>6, <3>1, <3>2 DEF RateLocals, At
  <2> QED
    BY <1>3, <2>1, <2>2, SMTT(30)
<1>8. \A d \in CPUs \ {c} : RateLocals(d, ip)'
  BY <1>1, <1>5, OtherRate DEF RateInv
<1> QED
  BY <1>1, <1>7, <1>8, Zenon DEF RateInv

Admissions == [at : Time, interval : Intervals]

LEMMA SpacedAppend ==
  ASSUME NEW s \in Seq(Admissions), NEW e \in Admissions, NEW t, t = Append(s, e),
         Spaced(s), s # <<>> => e.at - s[Len(s)].at >= e.interval
  PROVE  Spaced(t) /\ t # <<>> /\ t[Len(t)] = e
<1> DEFINE n == Len(s)
<1>1. /\ n \in Nat /\ t \in Seq(Admissions) /\ Len(t) = n + 1 /\ t[n + 1] = e
      /\ \A i \in 1 .. n : t[i] = s[i]
  BY AppendProperties, LenProperties
<1>2. n # 0 => s # <<>>
  BY EmptySeq
<1> HIDE DEF n
<1>3. ASSUME NEW i \in 1 .. n
      PROVE  t[i + 1].at - t[i].at >= t[i + 1].interval
  <2>1. CASE i = n
    BY <1>1, <1>2, <2>1 DEF n
  <2>2. CASE i # n
    <3>1. i \in 1 .. Len(s) - 1 /\ i + 1 \in 1 .. n
      BY <1>1, <2>2 DEF n
    <3> QED
      BY <1>1, <3>1 DEF Spaced
  <2> QED
    BY <2>1, <2>2, Zenon
<1>4. Spaced(t)
  BY <1>1, <1>3 DEF Spaced
<1>5. t # <<>>
  BY <1>1, EmptySeq
<1> QED
  BY <1>1, <1>4, <1>5

\* What an admission on c does to the state that RateInv is about.
LEMMA AdmitStep ==
  ASSUME TypeInv, NEW ip \in IPs, NEW c \in CPUs, pc[c] \in Stamping, Admit(c)
  PROVE  /\ pkt[c].src_ip \in IPs
         /\ [at |-> pkt[c].current_time, interval |-> pkt[c].interval] \in Admissions
         /\ admitted[ip] \in Seq(Admissions)
         /\ admitted'[ip] =
              IF pkt[c].src_ip = ip
              THEN Append(admitted[ip],
                          [at |-> pkt[c].current_time, interval |-> pkt[c].interval])
              ELSE admitted[ip]
         /\ pc'[c] = "count_ip" /\ pkt'[c].src_ip = pkt[c].src_ip
         /\ pkt'[c].timestamp = pkt[c].timestamp
         /\ pkt'[c].current_time = pkt[c].current_time
         /\ \A d \in CPUs \ {c} : pc'[d] = pc[d] /\ pkt'[d] = pkt[d]
<1>1. /\ pkt \in [CPUs -> Packets] /\ pc \in [CPUs -> Labels]
      /\ admitted \in [IPs -> Seq(Admissions)]
  BY Zenon DEF TypeInv, TypeOK, Admissions
<1>2. /\ pkt[c].src_ip \in IPs /\ pkt[c].interval \in Intervals
      /\ pkt[c].current_time \in Time
  BY <1>1 DEF TypeInv, Locals, LocalsAt, Packets, Stamping, Holding, Labels
<1>3. /\ pc'[c] = "count_ip" /\ pkt'[c].src_ip = pkt[c].src_ip
      /\ pkt'[c].timestamp = pkt[c].timestamp
      /\ pkt'[c].current_time = pkt[c].current_time
      /\ \A d \in CPUs \ {c} : pc'[d] = pc[d] /\ pkt'[d] = pkt[d]
  BY <1>1 DEF Admit, Decide, Goto, Packets
<1> DEFINE e == [at |-> pkt[c].current_time, interval |-> pkt[c].interval]
<1>4. e \in Admissions
  BY <1>2 DEF Admissions
<1>5. admitted' = [admitted EXCEPT ![pkt[c].src_ip] = Append(@, e)]
  BY DEF Admit
<1> HIDE DEF e
<1>6. admitted'[ip] = IF pkt[c].src_ip = ip THEN Append(admitted[ip], e) ELSE admitted[ip]
  BY <1>1, <1>2, <1>5
<1> QED
  BY <1>1, <1>2, <1>3, <1>4, <1>6, Zenon DEF e


LEMMA TimestampInitRate ==
  ASSUME TypeInv, NEW ip \in IPs, Steered(ip), RateInv(ip), NEW c \in CPUs, TimestampInit(c)
  PROVE  RateInv(ip)'
<1> DEFINE src == pkt[c].src_ip
           now == pkt[c].current_time
           m == ip_timestamps_map'
           e == [at |-> pkt[c].current_time, interval |-> pkt[c].interval]
<1>1. /\ pc[c] = "ts_init" /\ pc[c] \in Stamping /\ Admit(c)
      /\ UNCHANGED clock /\ clock \in Time
      /\ ip_timestamps_map \in HashMaps(Time) /\ now \in Time
      /\ m = HashUpdate(ip_timestamps_map, c, src, now)
  BY Zenon DEF TimestampInit, At, Stamping, TypeInv, TypeOK, Packets, envVars
<1>2. /\ src \in IPs /\ e \in Admissions /\ admitted[ip] \in Seq(Admissions)
      /\ admitted'[ip] = IF src = ip THEN Append(admitted[ip], e) ELSE admitted[ip]
      /\ pc'[c] = "count_ip" /\ pkt'[c].src_ip = src
      /\ pkt'[c].timestamp = pkt[c].timestamp /\ pkt'[c].current_time = now
      /\ \A d \in CPUs \ {c} : pc'[d] = pc[d] /\ pkt'[d] = pkt[d]
  BY <1>1, AdmitStep
<1>3. OwnElement(ip_timestamps_map, ip) /\ \A d \in CPUs : RateLocals(d, ip)
  BY SMTT(30) DEF RateInv
<1>4. HashFull(ip_timestamps_map) => HashFull(m)
  BY <1>1, <1>2, FullStays
<1> HIDE DEF m, now, src, e
<1>5. CASE src # ip
  <2>1. /\ OwnElement(m, ip) /\ m.link[ip] = ip_timestamps_map.link[ip]
        /\ m.value[ip] = ip_timestamps_map.value[ip]
    BY <1>1, <1>2, <1>3, <1>5, UpdateOther, SMTT(30)
  <2>2. admitted'[ip] = admitted[ip]
    BY <1>2, <1>5, SMTT(30)
  <2>3. RateLocals(c, ip)'
    BY <1>1, <1>2, <1>3, <1>5, Zenon DEF RateLocals, now, src
  <2>4. \A d \in CPUs \ {c} : RateLocals(d, ip)'
    BY <1>1, <1>2, <1>3, <2>1, OtherRate, Zenon DEF m
  <2> QED
    BY <1>1, <1>4, <2>1, <2>2, <2>3, <2>4, Zenon DEF RateInv, m
<1>6. CASE src = ip
  <2>1. ip_timestamps_map.link[ip] = None /\ c \in Steer[ip] /\ now <= clock
    BY <1>1, <1>3, <1>6, SMTT(30) DEF RateLocals, src, now
  <2>2. /\ OwnElement(m, ip)
        /\ IF HashFull(ip_timestamps_map) THEN m = ip_timestamps_map
           ELSE m.link[ip] = ip /\ m.value[ip] = now
    <3>1. /\ ip_timestamps_map \in HashMaps(Time) /\ now \in Time
          /\ m = HashUpdate(ip_timestamps_map, c, ip, now)
      BY <1>1, <1>6, Zenon
    <3> QED
      BY <1>3, <2>1, <3>1, UpdateOwn, SMTT(30)
  <2>3. None # ip
    BY NamesDiffer
  <2>4. RateLocals(c, ip)'
    <3>1. m.link[ip] = ip => m.value[ip] <= pkt'[c].current_time
      <4>1. now <= now
        BY <1>1 DEF Time
      <4> QED
        BY <1>2, <2>1, <2>2, <2>3, <4>1, Zenon
    <3>2. pkt'[c].current_time <= clock' /\ c \in Steer[ip] /\ pc'[c] = "count_ip"
      BY <1>1, <1>2, <2>1, Zenon
    <3>3. pkt'[c].src_ip = ip
      BY <1>2, <1>6
    <3> QED
      BY <3>1, <3>2, <3>3 DEF RateLocals, m
  <2>5. ASSUME NEW d \in CPUs \ {c}
        PROVE  RateLocals(d, ip)'
    <3>1. pkt[d].src_ip # ip
      BY <1>3, <2>1, SteeredTo, Zenon DEF RateLocals
    <3> QED
      BY <1>1, <1>2, <1>3, <3>1, StrangerRate, Zenon
  <2>6. CASE HashFull(ip_timestamps_map)
    <3>1. m.link[ip] # ip /\ HashFull(m)
      BY <2>1, <2>2, <2>3, <2>6
    <3> QED
      BY <2>2, <2>4, <2>5, <3>1, Zenon DEF RateInv, m
  <2>7. CASE ~HashFull(ip_timestamps_map)
    <3>1. m.link[ip] = ip /\ m.value[ip] = now /\ admitted[ip] = <<>>
      BY <2>1, <2>2, <2>7, SMTT(30) DEF RateInv
    <3>2. admitted'[ip] = Append(<<>>, e) /\ <<>> \in Seq(Admissions) /\ Spaced(<<>>)
      BY <1>2, <1>6, <3>1 DEF Spaced
    <3>3. /\ Spaced(admitted'[ip]) /\ admitted'[ip] # <<>>
          /\ admitted'[ip][Len(admitted'[ip])] = e
      BY <1>2, <3>2, SpacedAppend, Zenon
    <3>4. e.at = now
      BY DEF e, now
    <3>5. m.value[ip] <= clock'
      BY <1>1, <2>1, <3>1
    <3> QED
      BY <2>2, <2>3, <2>4, <2>5, <3>1, <3>3, <3>4, <3>5, Zenon DEF RateInv, m
  <2> QED
    BY <2>6, <2>7
<1> QED
  BY <1>5, <1>6

LEMMA TimestampStoreRate ==
  ASSUME TypeInv, NEW ip \in IPs, Steered(ip), RateInv(ip), NEW c \in CPUs, TimestampStore(c)
  PROVE  RateInv(ip)'
<1> DEFINE src == pkt[c].src_ip
           now == pkt[c].current_time
           elem == pkt[c].timestamp
           m == ip_timestamps_map'
           e == [at |-> pkt[c].current_time, interval |-> pkt[c].interval]
<1>1. /\ pc[c] = "ts_store" /\ pc[c] \in Stamping /\ Admit(c)
      /\ UNCHANGED clock /\ clock \in Time
      /\ ip_timestamps_map \in HashMaps(Time) /\ now \in Time /\ elem \in Elements
      /\ m = [ip_timestamps_map EXCEPT !.value[elem] = now]
  BY Zenon DEF TimestampStore, At, Stamping, TypeInv, TypeOK, Packets, Locals, LocalsAt, envVars
<1>2. /\ src \in IPs /\ e \in Admissions /\ admitted[ip] \in Seq(Admissions)
      /\ admitted'[ip] = IF src = ip THEN Append(admitted[ip], e) ELSE admitted[ip]
      /\ pc'[c] = "count_ip" /\ pkt'[c].src_ip = src
      /\ pkt'[c].timestamp = elem /\ pkt'[c].current_time = now
      /\ \A d \in CPUs \ {c} : pc'[d] = pc[d] /\ pkt'[d] = pkt[d]
  BY <1>1, AdmitStep
<1>3. OwnElement(ip_timestamps_map, ip) /\ \A d \in CPUs : RateLocals(d, ip)
  BY DEF RateInv
<1> HIDE DEF m, now, src, elem, e
<1>4. /\ m.link = ip_timestamps_map.link /\ OwnElement(m, ip)
      /\ m.value[ip] = IF elem = ip THEN now ELSE ip_timestamps_map.value[ip]
      /\ HashFull(m) <=> HashFull(ip_timestamps_map)
  <2>1. ip_timestamps_map \in HashMaps(Time)
    BY <1>1
  <2>2. m = [ip_timestamps_map EXCEPT !.value[elem] = now]
    BY <1>1
  <2>3. elem \in Elements /\ now \in Time
    BY <1>1
  <2>4. m.link = ip_timestamps_map.link /\ m.spare = ip_timestamps_map.spare
    BY <2>1, <2>2 DEF HashMaps
  <2>5. m.value = [ip_timestamps_map.value EXCEPT ![elem] = now]
    BY <2>1, <2>2 DEF HashMaps
  <2> QED
    BY <1>3, <2>1, <2>3, <2>4, <2>5 DEF HashMaps, Elements, HashFull, OwnElement
<1>5. CASE src # ip
  <2>1. elem # ip
    BY <1>3, <1>5 DEF RateLocals, elem, src
  <2>2. m.value[ip] = ip_timestamps_map.value[ip] /\ admitted'[ip] = admitted[ip]
    BY <1>2, <1>4, <1>5, <2>1
  <2>3. RateLocals(c, ip)'
    BY <1>1, <1>2, <1>3, <1>5, <2>1 DEF RateLocals, now
  <2>4. \A d \in CPUs \ {c} : RateLocals(d, ip)'
    BY <1>1, <1>2, <1>3, <1>4, <2>2, OtherRate DEF m
  <2> QED
    BY <1>1, <1>4, <2>2, <2>3, <2>4, Zenon DEF RateInv, m
<1>6. CASE src = ip
  <2>1. /\ elem = ip /\ ip_timestamps_map.link[ip] = ip /\ c \in Steer[ip] /\ now <= clock
        /\ now - ip_timestamps_map.value[ip] >= pkt[c].interval
    BY <1>1, <1>3, <1>6 DEF RateLocals, src, now, elem
  <2>2. RateLocals(c, ip)'
    BY <1>1, <1>2, <1>3, <1>4, <1>6, <2>1 DEF RateLocals, m, now, src, elem, Time
  <2>3. ASSUME NEW d \in CPUs \ {c}
        PROVE  RateLocals(d, ip)'
    <3>1. pkt[d].src_ip # ip
      BY <1>3, <2>1, SteeredTo, SMTT(30) DEF RateLocals
    <3> QED
      BY <1>1, <1>2, <1>3, <3>1, StrangerRate
  <2>4. /\ Spaced(admitted[ip]) /\ admitted[ip] # <<>>
        /\ admitted[ip][Len(admitted[ip])].at = ip_timestamps_map.value[ip]
    BY <2>1 DEF RateInv
  <2>5. e.at = now /\ e.interval = pkt[c].interval
    BY DEF e, now
  <2>6. admitted'[ip] = Append(admitted[ip], e)
    BY <1>2, <1>6
  <2>7. /\ Spaced(admitted'[ip]) /\ admitted'[ip] # <<>>
        /\ admitted'[ip][Len(admitted'[ip])] = e
    BY <1>2, <2>1, <2>4, <2>5, <2>6, SpacedAppend
  <2>8. m.link[ip] = ip /\ None # ip /\ m.value[ip] = now /\ m.value[ip] <= clock'
    BY <1>1, <1>4, <2>1, NamesDiffer
  <2> QED
    BY <1>4, <2>2, <2>3, <2>5, <2>7, <2>8, Zenon DEF RateInv, m
<1> QED
  BY <1>5, <1>6

LEMMA NextRate ==
  ASSUME TypeInv, [Next]_vars, NEW ip \in IPs, Steered(ip), RateInv(ip)
  PROVE  RateInv(ip)'
<1>1. ASSUME NEW c \in CPUs, xdp_filter(c)
      PROVE  RateInv(ip)'
  <2>1. \A d \in CPUs \ {c} : pc'[d] = pc[d] /\ pkt'[d] = pkt[d]
    BY <1>1, OwnStep
  <2> QED
    BY <1>1, <2>1, RateKinds, QuietRate, TimestampLookupRate, TimestampInitRate,
       TimestampCheckRate, TimestampStoreRate, NewPacketRate, SMTT(30)
<1>2. CASE Update \/ Drain \/ UNCHANGED vars
  <2>1. UNCHANGED <<pc, pkt, ip_timestamps_map, admitted, clock>>
    BY <1>2, Zenon DEF Update, Drain, vars, rateVars, envVars
  <2> QED
    BY <2>1, Zenon DEF RateInv, RateLocals
<1>3. CASE Tick
  <2>1. UNCHANGED <<pc, pkt, ip_timestamps_map, admitted>> /\ clock' = clock + 1
    BY <1>3 DEF Tick, rateVars
  <2>2. /\ clock \in Int /\ ip_timestamps_map.value[ip] \in Int
        /\ \A c \in CPUs : pkt[c].current_time \in Int
    BY SMTT(30) DEF TypeInv, TypeOK, Time, Packets, HashMaps, Elements
  <2>3. \A c \in CPUs : RateLocals(c, ip)'
    BY <2>1, <2>2, SMTT(30) DEF RateInv, RateLocals
  <2>4. ip_timestamps_map.link[ip] = ip => ip_timestamps_map.value[ip] <= clock'
    BY <2>1, <2>2 DEF RateInv
  <2> QED
    BY <2>1, <2>3, <2>4, Zenon DEF RateInv
<1> QED
  BY <1>1, <1>2, <1>3, NewPacketRate, SMTT(30) DEF Next, Traffic

-----------------------------------------------------------------------------

LEMMA InitSteered == Init => SteeredInv
  BY InitStats, InitRate DEF SteeredInv

LEMMA NextSteered == TypeInv /\ SteeredInv /\ [Next]_vars => SteeredInv'
<1> SUFFICES ASSUME TypeInv, SteeredInv, [Next]_vars, NEW ip \in IPs, Steered(ip)
             PROVE  StatsInv(ip)' /\ RateInv(ip)'
  BY DEF SteeredInv, Steered
<1>1. StatsInv(ip) /\ RateInv(ip)
  BY DEF SteeredInv
<1> QED
  BY <1>1, NextStats, NextRate

LEMMA SteeredCorrect == Spec => [](TypeInv /\ SteeredInv)
<1>1. Init => TypeInv /\ SteeredInv
  BY InitTypeInv, InitSteered
<1>2. TypeInv /\ SteeredInv /\ [Next]_vars => (TypeInv /\ SteeredInv)'
  BY NextTypeInv, NextSteered
<1> QED
  BY <1>1, <1>2, PTL DEF Spec

\* The counters that log_drop and log_pass keep of an address in ip_stats_map
\* are exact as long as one CPU receives it, whatever races other CPUs run
\* over the elements of other addresses.
THEOREM ExactCorrect == Spec => []ExactWhenSteered
<1>1. SteeredInv => ExactWhenSteered
  <2> SUFFICES ASSUME SteeredInv, NEW ip \in IPs, Steered(ip), Room(ip_stats_map, ip)
               PROVE  IpStats(ip) = verdicts[ip]
    BY DEF ExactWhenSteered
  <2>1. StatsInv(ip) /\ ip_stats_map.link[ip] \in {None, ip} /\ None # ip
    BY NamesDiffer, SMTT(30) DEF SteeredInv, StatsInv, OwnElement
  <2> QED
    BY <2>1 DEF StatsInv, IpStats, Room
<1> QED
  BY <1>1, SteeredCorrect, PTL

\* Two admissions of an address that one CPU receives are at least the
\* interval apart that check_rate_limit read for the second, whatever user
\* space does to the limit or the state flag in between.
THEOREM SpacedCorrect == Spec => []SpacedWhenSteered
<1>1. SteeredInv => SpacedWhenSteered
  <2> SUFFICES ASSUME SteeredInv, NEW ip \in IPs, Steered(ip), Room(ip_timestamps_map, ip)
               PROVE  Spaced(admitted[ip])
    BY SMTT(30) DEF SpacedWhenSteered
  <2>1. RateInv(ip) /\ ip_timestamps_map.link[ip] \in {None, ip} /\ Spaced(<<>>)
    BY DEF SteeredInv, RateInv, OwnElement, Spaced
  <2> QED
    BY <2>1 DEF RateInv, Room
<1> QED
  BY <1>1, SteeredCorrect, PTL


-----------------------------------------------------------------------------
(* WindowBound follows from SpacedWhenSteered. *)

LEMMA Greatest ==
  ASSUME NEW n \in Nat, NEW T, T \subseteq 1 .. n, T # {}
  PROVE  \E x \in T : \A y \in T : y <= x
<1> DEFINE U == {u \in Nat : \A y \in T : y <= u}
<1>1. n \in U
  OBVIOUS
<1>2. PICK x \in U : \A u \in U : x <= u
  BY <1>1, Least, Zenon
<1>3. x - 1 \notin U
  BY <1>2
<1>4. PICK y \in T : ~(y <= x - 1)
  <2>1. PICK z \in T : z \in 1 .. n /\ z <= x
    BY <1>2, Zenon
  <2>2. x - 1 \in Nat
    BY <1>2, <2>1
  <2> QED
    BY <1>3, <2>2
<1>5. y = x
  BY <1>2, <1>4
<1> QED
  BY <1>2, <1>5

\* n spaced admissions whose intervals are at least d take at least n * d.
LEMMA Chain ==
  ASSUME NEW s \in Seq(Admissions), Spaced(s), NEW d \in Nat,
         NEW a \in 1 .. Len(s), NEW b \in a .. Len(s),
         \A k \in a + 1 .. b : s[k].interval >= d
  PROVE  s[b].at - s[a].at >= (b - a) * d
<1> DEFINE Far(j) == s[j].at - s[a].at >= (j - a) * d
           T == {j \in a .. b : ~Far(j)}
<1>1. /\ Len(s) \in Nat /\ a \in Nat /\ b \in Nat
      /\ \A j \in 1 .. Len(s) : s[j].at \in Int /\ s[j].interval \in Int
  <2>1. \A j \in 1 .. Len(s) : s[j] \in Admissions
    BY ElementOfSeq, LenProperties
  <2>2. \A e \in Admissions : e.at \in Nat /\ e.interval \in Nat
    <3>1. \A e \in Admissions : e.at \in Time /\ e.interval \in Intervals
      BY DEF Admissions
    <3>2. Time \subseteq Nat
      BY DEF Time
    <3> QED
      BY <3>1, <3>2, IntervalType, Zenon
  <2>3. \A e \in Admissions : e.at \in Int /\ e.interval \in Int
    <3>1. Nat \subseteq Int
      OBVIOUS
    <3> QED
      BY <2>2, <3>1, Zenon
  <2> QED
    BY <2>1, <2>3, LenProperties
<1> SUFFICES ASSUME T # {}
             PROVE  FALSE
  BY <1>1
<1>2. PICK j \in T : \A k \in T : j <= k
  <2>1. T \subseteq Nat
    BY <1>1
  <2> HIDE DEF T
  <2> QED
    BY <2>1, Least, Zenon
<1>3. j # a
  <2> DEFINE x == s[a].at
  <2>1. x \in Int /\ (a - a) * d = 0
    BY <1>1
  <2> HIDE DEF x
  <2>2. x - x >= (a - a) * d
    BY <2>1
  <2>3. Far(a)
    BY <2>2 DEF x
  <2> QED
    BY <1>2, <2>3
<1>4. j - 1 \in a .. b /\ j - 1 \notin T /\ j - 1 \in 1 .. Len(s) - 1 /\ j \in a + 1 .. b
  BY <1>1, <1>2, <1>3
<1>5. s[j].at - s[j - 1].at >= d
  <2> DEFINE i == j - 1
  <2>1. i \in 1 .. Len(s) - 1 /\ i + 1 = j
    BY <1>1, <1>4
  <2> HIDE DEF i
  <2>2. s[i + 1].at - s[i].at >= s[i + 1].interval
    BY <2>1, Zenon DEF Spaced
  <2>3. s[j].interval >= d
    BY <1>4
  <2>4. j \in 1 .. Len(s) /\ i \in 1 .. Len(s)
    BY <1>1, <1>4, <2>1
  <2> DEFINE x == s[j].at
             y == s[i].at
             v == s[j].interval
  <2>5. x \in Int /\ y \in Int /\ v \in Int
    BY <1>1, <2>4, Zenon
  <2>6. x - y >= v /\ v >= d
    BY <2>1, <2>2, <2>3
  <2> HIDE DEF x, y, v
  <2>7. x - y >= d
    BY <2>5, <2>6
  <2> QED
    BY <2>7 DEF i, x, y
<1>6. s[j - 1].at - s[a].at >= (j - 1 - a) * d
  BY <1>4
<1>7. (j - a) * d = (j - 1 - a) * d + d /\ (j - a) * d \in Int
  BY <1>1, <1>4
<1>8. s[j].at \in Int /\ s[j - 1].at \in Int /\ s[a].at \in Int /\ (j - 1 - a) * d \in Int
  BY <1>1, <1>4, SMTT(30)
<1>9. Far(j)
  <2> DEFINE x == s[j].at
             y == s[j - 1].at
             z == s[a].at
             w == (j - 1 - a) * d
  <2>1. x - y >= d /\ y - z >= w /\ x \in Int /\ y \in Int /\ z \in Int /\ w \in Int
    BY <1>5, <1>6, <1>8
  <2> HIDE DEF x, y, z, w
  <2>2. x - z >= w + d
    BY <2>1
  <2> QED
    BY <1>7, <2>2 DEF x, z, w
<1> QED
  BY <1>2, <1>9

LEMMA RoundedUp ==
  ASSUME NEW n \in Nat, NEW d \in Nat \ {0}, NEW x \in Nat, x * d < n
  PROVE  x + 1 <= (n + d - 1) \div d
<1> DEFINE q == (n + d - 1) \div d
<1>1. q \in Nat /\ n + d - 1 < (q + 1) * d
  OBVIOUS
<1> HIDE DEF q
<1>2. (x + 1) * d < (q + 1) * d
  BY <1>1
<1>3. x + 1 < q + 1
  BY <1>1, <1>2
<1> QED
  BY <1>1, <1>3 DEF q


\* The admissions that fall into a window follow each other, so that their
\* number is bounded by how far the first and the last are apart.
LEMMA WindowSize ==
  ASSUME TypeInv, NEW ip \in IPs, NEW t \in Time, NEW d \in 1 .. NsPerSec, Spaced(admitted[ip]),
         \A i \in Window(ip, t) : admitted[ip][i].interval >= d
  PROVE  Cardinality(Window(ip, t)) <= (NsPerSec + d - 1) \div d
<1> DEFINE s == admitted[ip]
           n == Len(s)
           W == Window(ip, t)
<1>1. s \in Seq(Admissions) /\ n \in Nat
  <2>1. admitted \in [IPs -> Seq(Admissions)]
    BY Zenon DEF TypeInv, TypeOK, Admissions
  <2> QED
    BY <2>1, LenProperties
<1>2. \A i \in 1 .. n : s[i].at \in Nat /\ s[i].interval \in Nat
  <2>1. \A i \in 1 .. n : s[i] \in Admissions
    BY <1>1, ElementOfSeq, LenProperties
  <2>2. \A e \in Admissions : e.at \in Time /\ e.interval \in Intervals
    BY DEF Admissions
  <2>3. Time \subseteq Nat
    BY DEF Time
  <2> QED
    BY <2>1, <2>2, <2>3, IntervalType, Zenon
<1>3. W = {i \in 1 .. n : t <= s[i].at /\ s[i].at < t + NsPerSec}
  BY DEF Window
<1>4. t \in Nat /\ d \in Nat \ {0} /\ NsPerSec \in Nat
  BY MapsAssumption DEF Time
<1> HIDE DEF s, n, W
<1>5. CASE W = {}
  <2>1. Cardinality(W) = 0
    BY <1>5, FS_EmptySet
  <2>2. (NsPerSec + d - 1) \div d \in Nat
    BY <1>4
  <2> QED
    BY <2>1, <2>2 DEF W
<1>6. CASE W # {}
  <2>1. PICK a \in W : \A i \in W : a <= i
    <3>1. W \subseteq Nat
      BY <1>3
    <3> QED
      BY <1>6, <3>1, Least, Zenon
  <2>2. PICK b \in W : \A i \in W : i <= b
    <3>1. W \subseteq 1 .. n
      BY <1>3
    <3> QED
      BY <1>1, <1>6, <3>1, Greatest, Zenon
  <2>3. a \in 1 .. n /\ b \in a .. n /\ a \in Nat /\ b \in Nat
    BY <1>1, <1>3, <2>1, <2>2
  <2>4. ASSUME NEW k \in a .. b
        PROVE  k \in W
    <3>1. k \in 1 .. n /\ k \in a .. n /\ b \in k .. n
      BY <1>1, <2>3
    <3>2. \A j \in 1 .. n : s[j].interval >= 0
      BY <1>2
    <3>3. s[k].at - s[a].at >= (k - a) * 0
      <4>1. \A j \in a + 1 .. k : s[j].interval >= 0
        <5>1. \A j \in a + 1 .. k : j \in 1 .. n
          BY <1>1, <2>3, <3>1
        <5> QED
          BY <3>2, <5>1
      <4> QED
        BY <1>1, <2>3, <3>1, <4>1, Chain, Zenon DEF s, n
    <3>4. s[b].at - s[k].at >= (b - k) * 0
      <4>1. \A j \in k + 1 .. b : s[j].interval >= 0
        <5>1. \A j \in k + 1 .. b : j \in 1 .. n
          BY <1>1, <2>3, <3>1
        <5> QED
          BY <3>2, <5>1
      <4> QED
        BY <1>1, <2>3, <3>1, <4>1, Chain, Zenon DEF s, n
    <3>5. (k - a) * 0 = 0 /\ (b - k) * 0 = 0
      BY <2>3, <3>1
    <3>6. t <= s[a].at /\ s[b].at < t + NsPerSec
      BY <1>3, <2>1, <2>2
    <3>7. s[a].at \in Nat /\ s[k].at \in Nat /\ s[b].at \in Nat
      BY <1>2, <2>3, <3>1
    <3> QED
      BY <1>3, <1>4, <3>1, <3>3, <3>4, <3>5, <3>6, <3>7, SMTT(30)
  <2>5. s[b].at - s[a].at >= (b - a) * d
    <3>1. \A k \in a + 1 .. b : s[k].interval >= d
      BY <2>3, <2>4 DEF W, s
    <3> QED
      BY <1>1, <1>4, <2>3, <3>1, Chain, Zenon DEF s, n
  <2>6. s[b].at - s[a].at < NsPerSec
    <3>1. t <= s[a].at /\ s[b].at < t + NsPerSec /\ s[a].at \in Nat /\ s[b].at \in Nat
      BY <1>2, <1>3, <2>1, <2>2, <2>3
    <3> QED
      BY <1>4, <3>1
  <2>7. b - a \in Nat /\ (b - a) * d < NsPerSec
    <3>1. s[a].at \in Nat /\ s[b].at \in Nat /\ b - a \in Nat /\ (b - a) * d \in Nat
      BY <1>2, <1>4, <2>3
    <3> QED
      BY <1>4, <2>5, <2>6, <3>1, SMTT(30)
  <2>8. b - a + 1 <= (NsPerSec + d - 1) \div d
    BY <1>4, <2>7, RoundedUp
  <2>9. Cardinality(W) = b - a + 1
    <3>1. W = a .. b
      BY <1>3, <2>1, <2>2, <2>3, <2>4
    <3> QED
      BY <2>3, <3>1, FS_Interval
  <2> QED
    BY <2>8, <2>9 DEF W
<1> QED
  BY <1>5, <1>6

\* In no window of one second does check_rate_limit admit more packets of an
\* address that one CPU receives than its shortest interval fits into it,
\* rounded up.
THEOREM WindowCorrect == Spec => []WindowBound
<1>1. TypeInv /\ SpacedWhenSteered => WindowBound
  BY WindowSize DEF WindowBound, SpacedWhenSteered
<1> QED
  BY <1>1, SteeredCorrect, SpacedCorrect, PTL
=============================================================================

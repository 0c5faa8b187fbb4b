------------------------------ MODULE FilterMaps ------------------------------
(***************************************************************************)
(* The BPF maps that user space writes and xdp_filter reads: the state     *)
(* flag of each config type, the two LPM tries and the rate limits.  The   *)
(* operations are the leaf functions of Blacklist, Whitelist and RateLimit;*)
(* each is one bpf() system call, hence one atomic step.                   *)
(***************************************************************************)
EXTENDS Addresses

CONSTANTS
  Keys,        \* subnets that user space may name: [ip, prefixlen]
  Pps,         \* packets_per_second values a rate limit may name
  NsPerSec,    \* 1000000000 in the code
  MaxEntries,  \* MAX_ENTRIES of every map
  None         \* a NULL lookup result

ASSUME MapsAssumption ==
  /\ Pps \subseteq Nat \ {0}
  /\ NsPerSec \in Nat
  /\ MaxEntries \in Nat
  /\ None \notin Int

VARIABLES
  config_state_map,    \* ConfigKey -> 0 or 1
  subnets_map,         \* blacklist_subnets_map and whitelist_subnets_map
  ip_rate_limits_map   \* address -> packet_interval_ns, None when absent

configMaps == <<config_state_map, subnets_map, ip_rate_limits_map>>

Lists == {"blacklist", "whitelist"}
ConfigKeys == Lists \cup {"ratelimit"}
Intervals == {NsPerSec \div p : p \in Pps}

MapsTypeOK ==
  /\ config_state_map \in [ConfigKeys -> {0, 1}]
  /\ subnets_map \in [Lists -> SUBSET Keys]
  /\ ip_rate_limits_map \in [IPs -> Intervals \cup {None}]

\* Array maps start zeroed, tries and hash maps empty.
MapsInit ==
  /\ config_state_map = [k \in ConfigKeys |-> 0]
  /\ subnets_map = [l \in Lists |-> {}]
  /\ ip_rate_limits_map = [ip \in IPs |-> None]

-----------------------------------------------------------------------------
(* What xdp_filter sees. *)

is_config_enabled(k) == config_state_map[k] = 1

\* bpf_map_lookup_elem with a full-length key: some entry is a prefix of ip.
Listed(l, ip) == \E key \in subnets_map[l] : Covers(key, ip)

\* The decision of the two list checks on the present contents of the maps.
Rejected(ip) ==
  \/ is_config_enabled("whitelist") /\ ~Listed("whitelist", ip)
  \/ is_config_enabled("blacklist") /\ Listed("blacklist", ip)

ListVerdict(ip) == IF Rejected(ip) THEN "DROP" ELSE "PASS"

-----------------------------------------------------------------------------
(* What user space does. *)

SetState(k, v) ==
  /\ config_state_map' = [config_state_map EXCEPT ![k] = v]
  /\ UNCHANGED <<subnets_map, ip_rate_limits_map>>

\* A trie at max_entries refuses a new node; the caller only reports it.
add_ip_subnets(l, key) ==
  /\ subnets_map' = [subnets_map EXCEPT ![l] =
       LET others == {k \in @ : ~SameNode(k, key)}
       IN  IF Cardinality(others) < MaxEntries THEN others \cup {key} ELSE @]
  /\ UNCHANGED <<config_state_map, ip_rate_limits_map>>

\* Deleting an absent entry (ENOENT) succeeds.
remove_ip_subnets(l, key) ==
  /\ subnets_map' = [subnets_map EXCEPT ![l] = {k \in @ : ~SameNode(k, key)}]
  /\ UNCHANGED <<config_state_map, ip_rate_limits_map>>

Limited == {ip \in IPs : ip_rate_limits_map[ip] # None}

\* Mutant: an address that has a limit keeps it.
add_rate_limit_noexist(ip, pps) ==
  /\ ip_rate_limits_map' =
       IF ip \notin Limited /\ Cardinality(Limited) < MaxEntries
       THEN [ip_rate_limits_map EXCEPT ![ip] = NsPerSec \div pps]
       ELSE ip_rate_limits_map
  /\ UNCHANGED <<config_state_map, subnets_map>>

add_rate_limit(ip, pps) ==
  /\ ip_rate_limits_map' =
       IF ip \in Limited \/ Cardinality(Limited) < MaxEntries
       THEN [ip_rate_limits_map EXCEPT ![ip] = NsPerSec \div pps]
       ELSE ip_rate_limits_map
  /\ UNCHANGED <<config_state_map, subnets_map>>

\* The entry of ip_timestamps_map stays behind.
remove_rate_limit(ip) ==
  /\ ip_rate_limits_map' = [ip_rate_limits_map EXCEPT ![ip] = None]
  /\ UNCHANGED <<config_state_map, subnets_map>>

MapUpdate ==
  \/ \E k \in ConfigKeys, v \in {0, 1} : SetState(k, v)
  \/ \E l \in Lists, key \in Keys : add_ip_subnets(l, key)
  \/ \E l \in Lists, key \in Keys : remove_ip_subnets(l, key)
  \/ \E ip \in IPs, pps \in Pps : add_rate_limit(ip, pps)
  \/ \E ip \in IPs : remove_rate_limit(ip)
=============================================================================

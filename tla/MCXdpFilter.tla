------------------------------ MODULE MCXdpFilter -----------------------------
(* Instances of XdpFilter for TLC. *)
EXTENDS XdpFilter

CONSTANTS c1, c2, c3

\* The host 0 (with 2-bit addresses the subnet of 0 and 1), and the default
\* route written with a host bit set.
MCKeys == {[ip |-> 0, prefixlen |-> 1], [ip |-> 1, prefixlen |-> 0]}
NoKeys == {}

\* Receive queues: every CPU gets every address; or all packets of address 0
\* arrive on c1, and those of 1 and 2 on two CPUs each.
AnyCPU == [ip \in IPs |-> CPUs]
OneSteered ==
  [ip \in IPs |-> CASE ip = 0 -> {c1} [] ip = 1 -> {c2, c3} [] OTHER -> {c1, c3}]

\* An update by user space that changes something.
MCUpdate == Update /\ configMaps' # configMaps

-----------------------------------------------------------------------------
(* Packets against updates.  Only what the environment does is restricted,  *)
(* never a step of xdp_filter or of the reader.                             *)

\* Only the lists change, and time stands still.
ListsOnly ==
  /\ ~is_config_enabled("ratelimit") /\ Limited = {}
  /\ clock = 0

\* Only limits change, and every frame carries IPv4.
LimitsOnly ==
  /\ \A l \in Lists : ~is_config_enabled(l) /\ subnets_map[l] = {}
  /\ \A c \in CPUs : At(c, "return") => pkt[c].src_ip # NotIPv4

\* Bound on updates and packets together, one more for an address that is
\* limited and that ip_timestamps_map has no room for.
UpdatesBound ==
  /\ ListsOnly \/ LimitsOnly
  /\ \/ updates + received <= 6
     \/ updates + received = 7 /\ \E ip \in Limited : ~Room(ip_timestamps_map, ip)

UpdatesNext ==
  \/ Traffic /\ UpdatesBound'
  \/ MCUpdate /\ UpdatesBound'
  \/ Drain
  \/ Tick /\ UpdatesBound'

UpdatesSpec == Init /\ [][UpdatesNext]_vars /\ Fairness

-----------------------------------------------------------------------------
(* CPUs against each other: all packets with empty maps, or two of them with *)
(* maps that are changed while none is in flight.                           *)

RacesNext ==
  \/ Traffic /\ (updates > 0 => received' <= 2)
  \/ received < 2 /\ (\A c \in CPUs : At(c, "idle")) /\ MCUpdate
  \/ Drain

RacesSpec == Init /\ [][RacesNext]_vars /\ Fairness
=============================================================================

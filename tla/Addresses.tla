------------------------------ MODULE Addresses -------------------------------
(***************************************************************************)
(* IPv4 source addresses and the subnet keys of the LPM tries.             *)
(***************************************************************************)
EXTENDS Integers, FiniteSets

CONSTANTS
  IPs,       \* source addresses that occur in traffic and in rate limits
  AddrBits   \* width of an address (32 in the code)

ASSUME AddressAssumption == IPs \subseteq Nat /\ IsFiniteSet(IPs) /\ AddrBits \in Nat

\* The first prefixlen bits of an address.
Prefix(ip, prefixlen) == ip \div 2^(AddrBits - prefixlen)

\* A trie key [ip, prefixlen] is a prefix of the address.
Covers(key, ip) == Prefix(key.ip, key.prefixlen) = Prefix(ip, key.prefixlen)

\* Two keys address the same trie node: host bits do not count.
SameNode(k1, k2) == k1.prefixlen = k2.prefixlen /\ Covers(k1, k2.ip)
=============================================================================

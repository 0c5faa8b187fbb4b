----------------------------- MODULE MCConfigTypes ----------------------------
(* Instances of ConfigTypes for TLC. *)
EXTENDS ConfigTypes, SequencesExt

ip(a) == [is |-> "ip", ip |-> a]
subnet(a, n) == [is |-> "subnet", ip |-> a, len |-> n]
number(k) == [is |-> "number", n |-> k]

MCKeys == [ip : IPs, prefixlen : 0 .. AddrBits]
MCPps == 1 .. WordMod - 1

\* Skipped and state lines, subnets with and without host bits, a prefix
\* length that is too large, one that is too large for 32 bits, a line with a
\* command of its own and one without a slash.
ListLines ==
  {<<>>, <<word("#")>>, enabled, disabled, <<subnet(0, 1)>>, <<subnet(1, 0)>>,
   <<subnet(0, AddrBits + 1)>>, <<subnet(0, WordMod + 1)>>,
   <<word("remove"), subnet(0, 1)>>, <<ip(0)>>}

\* Limits with and without a command, of two addresses; 0, a negative number
\* and one that does not fit; a removal, a missing number, an unknown word.
LimitLines ==
  {<<word("#")>>, disabled, <<ip(0), number(2)>>, <<word("add"), ip(0), number(4)>>,
   <<ip(1), number(-1)>>, <<ip(0), number(0)>>, <<ip(0), number(WordMod)>>,
   <<word("remove"), ip(0)>>, <<word("add"), ip(1)>>, <<word("other"), ip(0)>>}

Few == {NoFile, <<>>, <<disabled>>, <<<<subnet(0, 1)>>>>}
Upto(lines, n) == {NoFile} \cup BoundedSeq(lines, n)

\* One file of each type.
Triples(b, w, r) == [blacklist : b, whitelist : w, ratelimit : r]

LoadFiles == Triples(Upto(ListLines, 2), Upto(ListLines, 2), {NoFile})
             \cup Triples({NoFile}, Few, Upto(LimitLines, 3))

NoMessages == {}
=============================================================================

----------------------------- MODULE MCReconfigure ----------------------------
(* An instance of Reconfigure for TLC. *)
EXTENDS Reconfigure, TLC

w(t) == [is |-> "word", text |-> t]
ip(a) == [is |-> "ip", ip |-> a]
subnet(a, n) == [is |-> "subnet", ip |-> a, len |-> n]
number(k) == [is |-> "number", n |-> k]
message(t, l) == [type |-> t, line |-> l]

MCKeys == [ip : IPs, prefixlen : 0 .. AddrBits]
MCPps == 1 .. WordMod - 1

MCFiles == {[blacklist |-> <<<<subnet(0, 10)>>>>, whitelist |-> NoFile,
             ratelimit |-> <<<<ip(0), number(5)>>>>]}

Block == message("blacklist", <<w("add"), subnet(512, 10)>>)
Unblock == message("blacklist", <<w("remove"), subnet(512, 10)>>)
Disable == message("blacklist", <<w("disabled")>>)
Limit == message("ratelimit", <<w("add"), ip(0), number(12)>>)
Unlimit == message("ratelimit", <<w("remove"), ip(0)>>)
MCWritten == {Block, Unblock, Disable, Limit, Unlimit}

\* A message that ends too early: without its last digit, without its
\* argument, or before the colon that ends the type.
MCTorn ==
  (Block :> {message("blacklist", <<w("add"), subnet(512, 1)>>), message("other", <<>>)})
  @@ (Unblock :> {message("blacklist", <<w("remove"), subnet(512, 1)>>)})
  @@ (Disable :> {message("blacklist", <<w("other")>>)})
  @@ (Limit :> {message("ratelimit", <<w("add"), ip(0), number(1)>>),
                message("ratelimit", <<w("add"), ip(0)>>)})
  @@ (Unlimit :> {message("ratelimit", <<w("remove")>>)})

MCMessages == MCWritten \cup UNION {MCTorn[m] : m \in MCWritten}

\* Three messages that undo, repeat or have nothing to do with one another.
Scripts == {<<Block, Unblock, Block>>, <<Block, Block, Disable>>, <<Limit, Unlimit, Limit>>,
            <<Limit, Limit, Block>>, <<Unblock, Disable, Disable>>, <<Disable, Block, Unblock>>}

\* Descriptors that MapFdManager lacks are a question for ConfigTypes.
Scripted == text \in Scripts /\ \A m \in DOMAIN fds : fds[m]
=============================================================================

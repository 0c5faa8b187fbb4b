--------------------------- MODULE ConfigTypesProofs --------------------------
(***************************************************************************)
(* Whatever the config files and the event messages contain, the types     *)
(* hold, user space changes the maps only by the single updates that       *)
(* XdpFilter assumes, a loaded type is as its file describes it, and       *)
(* loading moves no address back.                                          *)
(***************************************************************************)
EXTENDS ConfigTypes, FiniteSetTheorems, NaturalsInduction, TLAPS

USE DEF TypesConstants

\* What loadConfig works on.
LoadInv ==
  /\ type \in ConfigKeys \cup {"events"}
  /\ reading => type \in ConfigKeys
  /\ rest \in Seq(Seq(Words))
  /\ file \in Files

LEMMA PlainWord == ASSUME NEW text \in Texts PROVE word(text) \in Words
  BY Zenon DEF word, Words

LEMMA WordType ==
  ASSUME NEW l \in Seq(Words), NEW i \in Nat \ {0} PROVE Word(l, i) \in Words
<1>1. word("") \in Words
  BY PlainWord, Zenon DEF Texts
<1>2. i <= Len(l) => l[i] \in Words
  OBVIOUS
<1> QED
  BY <1>1, <1>2, Zenon DEF Word

\* A word in the form of a subnet names a valid key or none.
LEMMA ParsedSubnet == ASSUME NEW w \in Words PROVE parse_subnet(w) \subseteq Keys
<1> SUFFICES ASSUME w.is = "subnet", w.len % WordMod <= AddrBits
             PROVE  [ip |-> w.ip, prefixlen |-> w.len % WordMod] \in Keys
  BY DEF parse_subnet
<1>1. w.ip \in IPs /\ w.len \in Nat
  BY DEF Words
<1>2. w.len % WordMod \in Nat
  BY <1>1, TypesAssumption, AddressAssumption
<1> QED
  BY <1>1, <1>2, TypesAssumption, AddressAssumption

\* A number is read as a non-zero 32-bit limit or refused.
LEMMA ParsedPps == ASSUME NEW w \in Words PROVE parse_pps(w) \subseteq Pps
<1> SUFFICES ASSUME w.is = "number", w.n \in 1 - WordMod .. WordMod - 1, w.n # 0
             PROVE  w.n % WordMod \in Pps
  BY DEF parse_pps
<1>1. w.n \in Int /\ WordMod \in Nat
  BY TypesAssumption DEF Words
<1>2. CASE w.n > 0
  <2>1. w.n % WordMod = w.n
    BY <1>1, <1>2
  <2> QED
    BY <1>1, <1>2, <2>1, TypesAssumption
<1>3. CASE w.n < 0
  <2>1. w.n % WordMod = w.n + WordMod
    BY <1>1, <1>3
  <2> QED
    BY <1>1, <1>3, <2>1, TypesAssumption
<1> QED
  BY <1>1, <1>2, <1>3

\* updateConfig makes one update or none.
LEMMA UpdateStep ==
  ASSUME NEW t \in ConfigKeys, NEW l \in Seq(Words), updateConfig(t, l)
  PROVE  MapUpdate \/ UNCHANGED configMaps
<1>1. CASE set_state(t, 1) \/ set_state(t, 0)
  BY <1>1 DEF set_state, MapUpdate
<1>2. CASE Change(t, l)
  <2>1. Word(l, 1) \in Words /\ Word(l, 2) \in Words /\ Word(l, 3) \in Words
    BY WordType
  <2>2. parse_subnet(Word(l, 2)) \subseteq Keys /\ parse_pps(Word(l, 3)) \subseteq Pps
    BY <2>1, ParsedSubnet, ParsedPps
  <2>3. Word(l, 2).is = "ip" => Word(l, 2).ip \in IPs
    BY <2>1 DEF Words
  <2> QED
    BY <1>2, <2>2, <2>3, Zenon DEF Change, MapUpdate
<1> QED
  BY <1>1, <1>2 DEF updateConfig

LEMMA CommandLine ==
  ASSUME NEW t, NEW l \in Seq(Words) PROVE command_line(t, l) \in Seq(Words)
<1>1. word("add") \in Words
  BY PlainWord, Zenon DEF Texts
<1> QED
  BY <1>1 DEF command_line

LEMMA ReturnType ==
  ASSUME type \in ConfigKeys, Return
  PROVE  type' \in ConfigKeys \cup {"events"} /\ ~reading' /\ rest' \in Seq(Seq(Words))
<1>1. type' \in ConfigKeys \cup {"events"}
  BY DEF Return, ConfigKeys, Lists
<1>2. ~reading'
  BY Zenon DEF Return
<1>3. rest' \in Seq(Seq(Words))
  BY DEF Return
<1> QED
  BY <1>1, <1>2, <1>3

LEMMA LoadStep == LoadInv /\ [Next]_vars => LoadInv'
<1> SUFFICES ASSUME LoadInv, [Next]_vars PROVE LoadInv'
  OBVIOUS
<1> USE DEF LoadInv
<1>1. CASE OpenConfig
  <2>1. file[type] # NoFile => file[type] \in Seq(Seq(Words))
    BY <1>1, TypesAssumption DEF OpenConfig
  <2>2. file' = file
    BY <1>1 DEF OpenConfig, input
  <2>3. CASE Return
    BY <1>1, <2>2, <2>3, ReturnType DEF OpenConfig
  <2>4. CASE reading' = TRUE /\ rest' = file[type] /\ file[type] # NoFile /\ UNCHANGED type
    BY <1>1, <2>1, <2>2, <2>4 DEF OpenConfig
  <2> QED
    BY <1>1, <2>3, <2>4, Zenon DEF OpenConfig
<1>2. CASE SkipLine \/ ProcessLine
  <2>1. rest # <<>> /\ rest' = Tail(rest)
    BY <1>2, Zenon DEF SkipLine, ProcessLine
  <2>2. UNCHANGED <<type, reading, file>>
    BY <1>2, Zenon DEF SkipLine, ProcessLine, input
  <2>3. rest' \in Seq(Seq(Words))
    BY <2>1
  <2> QED
    BY <2>2, <2>3
<1>3. CASE FirstLine \/ EndOfFile
  <2>1. type \in ConfigKeys /\ file' = file
    BY <1>3, Zenon DEF FirstLine, EndOfFile, input
  <2>2. Return \/ UNCHANGED <<type, reading, rest>>
    BY <1>3, Zenon DEF FirstLine, EndOfFile
  <2> QED
    BY <2>1, <2>2, ReturnType
<1>4. ASSUME NEW m \in Messages, processEventMessage(m) PROVE LoadInv'
  BY <1>4 DEF processEventMessage, input
<1>5. CASE UNCHANGED vars
  BY <1>5 DEF vars, input
<1> QED
  BY <1>1, <1>2, <1>3, <1>4, <1>5 DEF Next, loadAllConfigs

LEMMA MapStep == LoadInv /\ [Next]_vars => [MapUpdate]_configMaps
<1> SUFFICES ASSUME LoadInv, [Next]_vars PROVE MapUpdate \/ UNCHANGED configMaps
  OBVIOUS
<1>1. CASE OpenConfig \/ SkipLine
  BY <1>1 DEF OpenConfig, SkipLine
<1>2. CASE FirstLine \/ EndOfFile
  <2>1. \E v \in {0, 1} : set_state(type, v) \/ UNCHANGED configMaps
    BY <1>2 DEF FirstLine, EndOfFile
  <2>2. type \in ConfigKeys
    BY <1>2 DEF FirstLine, EndOfFile, LoadInv
  <2> QED
    BY <2>1, <2>2, Zenon DEF set_state, MapUpdate
<1>3. CASE ProcessLine
  <2>1. type \in ConfigKeys /\ Head(rest) \in Seq(Words)
    BY <1>3 DEF ProcessLine, LoadInv
  <2>2. command_line(type, Head(rest)) \in Seq(Words)
    BY <2>1, CommandLine
  <2> QED
    BY <1>3, <2>1, <2>2, UpdateStep DEF ProcessLine
<1>4. ASSUME NEW m \in Messages, processEventMessage(m)
      PROVE  MapUpdate \/ UNCHANGED configMaps
  BY <1>4, UpdateStep, TypesAssumption DEF processEventMessage
<1>5. CASE UNCHANGED vars
  BY <1>5 DEF vars
<1> QED
  BY <1>1, <1>2, <1>3, <1>4, <1>5 DEF Next, loadAllConfigs

-----------------------------------------------------------------------------
(* What a file says of its first lines, with the lines as an argument.       *)

\* The keys that the first n lines name.
Names(lines, n) == UNION {parse_subnet(lines[i][1]) :
                            i \in {j \in 1 .. n : Significant(lines[j])}}

\* The limit that a line sets for ip as the parsers see it.
ParsedLimits(line, ip) ==
  LET about(i) == Word(line, i) = [is |-> "ip", ip |-> ip]
      limits(i) == {NsPerSec \div pps : pps \in parse_pps(Word(line, i))}
  IN  CASE about(1) -> limits(2)
        [] Word(line, 1) = word("add") /\ about(2) -> limits(3)
        [] Word(line, 1) = word("remove") /\ about(2) -> {None}
        [] OTHER -> {}

LimitLines(lines, n, ip) == {i \in 1 .. n : ParsedLimits(lines[i], ip) # {}}

Latest(lines, S, ip) ==
  IF S = {} THEN None ELSE CHOOSE l \in ParsedLimits(lines[Max(S)], ip) : TRUE

\* The limit that the first n lines leave ip with.
LimitAfter(lines, n, ip) == Latest(lines, LimitLines(lines, n, ip), ip)

Meant(lines) == {i \in 1 .. Len(lines) : Significant(lines[i])}

Enables(t, lines) ==
  IF Meant(lines) = {} THEN t = "blacklist" ELSE lines[Min(Meant(lines))] # disabled

LEMMA NamesNext ==
  ASSUME NEW lines, NEW n \in Nat
  PROVE  Names(lines, n + 1) =
           Names(lines, n) \cup (IF Significant(lines[n + 1])
                                 THEN parse_subnet(lines[n + 1][1]) ELSE {})
<1>1. \A i : i \in 1 .. n + 1 <=> i \in 1 .. n \/ i = n + 1
  OBVIOUS
<1> QED
  BY <1>1, Zenon DEF Names

LEMMA NamesNone ==
  ASSUME NEW lines, NEW n \in Nat, \A i \in 1 .. n : ~Significant(lines[i])
  PROVE  Names(lines, n) = {}
  BY Zenon DEF Names

LEMMA NamesType ==
  ASSUME NEW lines \in Seq(Seq(Words)), NEW n \in 0 .. Len(lines)
  PROVE  Names(lines, n) \subseteq Names(lines, Len(lines)) /\ Names(lines, n) \subseteq Keys
<1>1. \A i \in 1 .. n : i \in 1 .. Len(lines)
  OBVIOUS
<1>2. ASSUME NEW i \in 1 .. Len(lines), Significant(lines[i]) PROVE lines[i][1] \in Words
  BY <1>2 DEF Significant
<1> QED
  BY <1>1, <1>2, ParsedSubnet, Zenon DEF Names

LEMMA LimitSame ==
  ASSUME NEW lines, NEW n \in Nat, NEW ip, ParsedLimits(lines[n + 1], ip) = {}
  PROVE  LimitAfter(lines, n + 1, ip) = LimitAfter(lines, n, ip)
<1>1. \A i : i \in 1 .. n + 1 <=> i \in 1 .. n \/ i = n + 1
  OBVIOUS
<1>2. LimitLines(lines, n + 1, ip) = LimitLines(lines, n, ip)
  BY <1>1, Zenon DEF LimitLines
<1> QED
  BY <1>2, Zenon DEF LimitAfter

LEMMA LimitSet ==
  ASSUME NEW lines, NEW n \in Nat, NEW ip, NEW l,
         l \in ParsedLimits(lines[n + 1], ip), \A x \in ParsedLimits(lines[n + 1], ip) : x = l
  PROVE  LimitAfter(lines, n + 1, ip) = l
<1> DEFINE S == LimitLines(lines, n + 1, ip)
<1>1. n + 1 \in S
  <2>1. n + 1 \in 1 .. n + 1
    OBVIOUS
  <2> QED
    BY <2>1, Zenon DEF LimitLines
<1>2. \A y \in S : y \in Int /\ y <= n + 1
  BY DEF LimitLines
<1>3. Max(S) = n + 1
  <2> HIDE DEF S
  <2>1. \A y \in S : n + 1 >= y
    BY <1>2
  <2>2. Max(S) \in S /\ \A y \in S : Max(S) >= y
    BY <1>1, <2>1, Zenon DEF Max
  <2> QED
    BY <1>1, <1>2, <2>2
<1>4. LimitAfter(lines, n + 1, ip) = CHOOSE x \in ParsedLimits(lines[Max(S)], ip) : TRUE
  BY <1>1, Zenon DEF LimitAfter, Latest
<1>5. LimitAfter(lines, n + 1, ip) \in ParsedLimits(lines[n + 1], ip)
  BY <1>3, <1>4, Zenon
<1> QED
  BY <1>5, Zenon

LEMMA Unmeant ==
  ASSUME NEW line \in Seq(Words), ~Significant(line), NEW ip PROVE ParsedLimits(line, ip) = {}
<1>1. Word(line, 1) = word("") \/ Word(line, 1) = word("#")
  <2>1. CASE line = <<>>
    BY <2>1 DEF Word
  <2>2. CASE line # <<>> /\ line[1] = word("#")
    <3>1. 1 <= Len(line)
      BY <2>2
    <3> QED
      BY <2>2, <3>1, Zenon DEF Word
  <2> QED
    BY <2>1, <2>2, Zenon DEF Significant
<1>2. ASSUME NEW a \in {"", "#"}
      PROVE  /\ word(a) # word("add") /\ word(a) # word("remove")
             /\ word(a) # [is |-> "ip", ip |-> ip]
  <2>1. word(a).text = a /\ word("add").text = "add" /\ word("remove").text = "remove"
    BY Zenon DEF word
  <2>2. word(a).is = "word" /\ [is |-> "ip", ip |-> ip].is = "ip"
    BY Zenon DEF word
  <2> QED
    BY <2>1, <2>2, Zenon
<1>3. /\ Word(line, 1) # word("add") /\ Word(line, 1) # word("remove")
      /\ Word(line, 1) # [is |-> "ip", ip |-> ip]
  BY <1>1, <1>2, Zenon
<1> QED
  BY <1>3, Zenon DEF ParsedLimits

LEMMA LimitNone ==
  ASSUME NEW lines \in Seq(Seq(Words)), NEW n \in 0 .. Len(lines), NEW ip,
         \A i \in 1 .. n : ~Significant(lines[i])
  PROVE  LimitAfter(lines, n, ip) = None
<1>1. \A i \in 1 .. n : lines[i] \in Seq(Words)
  OBVIOUS
<1>2. LimitLines(lines, n, ip) = {}
  BY <1>1, Unmeant, Zenon DEF LimitLines
<1> QED
  BY <1>2, Zenon DEF LimitAfter, Latest

\* The first significant line is line n + 1.
LEMMA EnablesFirst ==
  ASSUME NEW lines \in Seq(Seq(Words)), NEW n \in Nat, n + 1 <= Len(lines), NEW t,
         \A i \in 1 .. n : ~Significant(lines[i]), Significant(lines[n + 1])
  PROVE  Enables(t, lines) <=> lines[n + 1] # disabled
<1> DEFINE S == Meant(lines)
<1>1. n + 1 \in S
  BY DEF Meant
<1>2. \A y \in S : y \in Int /\ n + 1 <= y
  BY DEF Meant
<1>3. Min(S) = n + 1
  <2> HIDE DEF S
  <2>1. Min(S) \in S /\ \A y \in S : Min(S) <= y
    BY <1>1, <1>2, Zenon DEF Min
  <2> QED
    BY <1>1, <1>2, <2>1
<1> QED
  BY <1>1, <1>3, Zenon DEF Enables

LEMMA EnablesNone ==
  ASSUME NEW lines, NEW t, \A i \in 1 .. Len(lines) : ~Significant(lines[i])
  PROVE  Enables(t, lines) <=> t = "blacklist"
  BY Zenon DEF Enables, Meant


-----------------------------------------------------------------------------
(* What the leaf functions do to what xdp_filter sees. *)

LEMMA KeysFinite == IsFiniteSet(Keys)
<1> DEFINE D == IPs \X (0 .. AddrBits)
           f == [p \in D |-> [ip |-> p[1], prefixlen |-> p[2]]]
<1>1. IsFiniteSet(D)
  <2>1. IsFiniteSet(0 .. AddrBits)
    BY AddressAssumption, FS_Interval
  <2> QED
    BY <2>1, AddressAssumption, FS_Product, Zenon
<1>2. f \in [D -> Keys]
  BY TypesAssumption
<1>3. ASSUME NEW k \in Keys PROVE \E p \in D : f[p] = k
  <2>1. k.ip \in IPs /\ k.prefixlen \in 0 .. AddrBits /\ k = [ip |-> k.ip, prefixlen |-> k.prefixlen]
    BY TypesAssumption
  <2>2. <<k.ip, k.prefixlen>> \in D /\ f[<<k.ip, k.prefixlen>>] = k
    BY <2>1
  <2> QED
    BY <2>2, Zenon
<1>4. f \in Surjection(D, Keys)
  BY <1>2, <1>3, Zenon DEF Surjection
<1> QED
  BY <1>1, <1>4, FS_Surjection, Zenon

\* Keys of one trie node cover the same addresses.
LEMMA SameCover ==
  ASSUME NEW k1, NEW k2, NEW ip, SameNode(k1, k2)
  PROVE  Covers(k1, ip) <=> Covers(k2, ip)
  BY Zenon DEF SameNode, Covers

\* Adding a key covers at most its addresses, uncovers none, and covers them
\* all when the trie may hold every key of a set F it stays within.
LEMMA AddCovers ==
  ASSUME MapsTypeOK, NEW l \in Lists, NEW key \in Keys, add_ip_subnets(l, key)
  PROVE  /\ subnets_map'[l] \subseteq subnets_map[l] \cup {key}
         /\ \A ip \in IPs : Listed(l, ip) => Listed(l, ip)'
         /\ \A F \in SUBSET Keys :
              subnets_map[l] \subseteq F /\ key \in F /\ Cardinality(F) <= MaxEntries =>
                key \in subnets_map'[l]
         /\ \A m \in Lists \ {l} : subnets_map'[m] = subnets_map[m]
<1> DEFINE others == {k \in subnets_map[l] : ~SameNode(k, key)}
           new == IF Cardinality(others) < MaxEntries THEN others \cup {key} ELSE subnets_map[l]
<1>1. subnets_map \in [Lists -> SUBSET Keys]
  BY Zenon DEF MapsTypeOK
<1>2. subnets_map' = [subnets_map EXCEPT ![l] = new]
  BY Zenon DEF add_ip_subnets
<1>3. subnets_map'[l] = new /\ \A m \in Lists \ {l} : subnets_map'[m] = subnets_map[m]
  <2> HIDE DEF new
  <2> QED
    BY <1>1, <1>2, Zenon
<1>4. subnets_map'[l] \subseteq subnets_map[l] \cup {key}
  BY <1>3, Zenon
<1>5. ASSUME NEW ip \in IPs, Listed(l, ip) PROVE Listed(l, ip)'
  <2>1. PICK k \in subnets_map[l] : Covers(k, ip)
    BY <1>5, Zenon DEF Listed
  <2>2. CASE k \in subnets_map'[l]
    BY <2>1, <2>2, Zenon DEF Listed
  <2>3. CASE k \notin subnets_map'[l]
    <3>1. SameNode(k, key) /\ key \in subnets_map'[l]
      BY <1>3, <2>3, Zenon
    <3>2. Covers(key, ip)
      BY <2>1, <3>1, SameCover
    <3> QED
      BY <3>1, <3>2, Zenon DEF Listed
  <2> QED
    BY <2>2, <2>3
<1>6. ASSUME NEW F \in SUBSET Keys, subnets_map[l] \subseteq F, key \in F,
             Cardinality(F) <= MaxEntries
      PROVE  key \in subnets_map'[l]
  <2>1. SameNode(key, key)
    BY Zenon DEF SameNode, Covers
  <2>2. others \subseteq F \ {key}
    BY <1>6, <2>1, Zenon
  <2>3. IsFiniteSet(F) /\ Cardinality(F) \in Nat
    BY KeysFinite, FS_Subset, FS_CardinalityType, Zenon
  <2>4. IsFiniteSet(F \ {key}) /\ Cardinality(F \ {key}) = Cardinality(F) - 1
    BY <1>6, <2>3, FS_RemoveElement
  <2>5. Cardinality(others) \in Nat /\ Cardinality(others) <= Cardinality(F \ {key})
    BY <2>2, <2>4, FS_Subset, FS_CardinalityType, Zenon
  <2>6. Cardinality(others) < MaxEntries
    BY <1>6, <2>3, <2>4, <2>5, MapsAssumption
  <2> QED
    BY <1>3, <2>6, Zenon
<1> QED
  BY <1>3, <1>4, <1>5, <1>6, Zenon

\* With room for every address a limit is stored.
LEMMA AddLimit ==
  ASSUME MapsTypeOK, NEW ip \in IPs, NEW pps, add_rate_limit(ip, pps),
         Cardinality(IPs) <= MaxEntries
  PROVE  ip_rate_limits_map' = [ip_rate_limits_map EXCEPT ![ip] = NsPerSec \div pps]
<1>1. CASE ip \in Limited
  BY <1>1, Zenon DEF add_rate_limit
<1>2. CASE ip \notin Limited
  <2>1. Limited \subseteq IPs \ {ip}
    BY <1>2, Zenon DEF Limited
  <2>2. Cardinality(IPs) \in Nat /\ IsFiniteSet(IPs \ {ip})
        /\ Cardinality(IPs \ {ip}) = Cardinality(IPs) - 1
    BY AddressAssumption, FS_RemoveElement, FS_CardinalityType
  <2>3. Cardinality(Limited) \in Nat /\ Cardinality(Limited) <= Cardinality(IPs \ {ip})
    BY <2>1, <2>2, FS_Subset, FS_CardinalityType, Zenon
  <2>4. Cardinality(Limited) < MaxEntries
    BY <2>2, <2>3, MapsAssumption
  <2> QED
    BY <2>4, Zenon DEF add_rate_limit
<1> QED
  BY <1>1, <1>2


-----------------------------------------------------------------------------
(* What processing a line of a file does, against what the line says. *)

LEMMA WordTexts ==
  ASSUME NEW a \in Texts, NEW b \in Texts, a # b PROVE word(a) # word(b)
<1>1. word(a).text = a /\ word(b).text = b
  BY DEF word
<1> QED
  BY <1>1, Zenon

LEMMA Prepended ==
  ASSUME NEW w \in Words, NEW line \in Seq(Words)
  PROVE  /\ Word(<<w>> \o line, 1) = w
         /\ \A i \in Nat \ {0} : Word(<<w>> \o line, i + 1) = Word(line, i)
<1> DEFINE cl == <<w>> \o line
<1>1. /\ Len(cl) = Len(line) + 1 /\ cl[1] = w
      /\ \A i \in 1 .. Len(line) : cl[i + 1] = line[i]
  OBVIOUS
<1>2. Len(line) \in Nat
  OBVIOUS
<1> HIDE DEF cl
<1>3. Word(cl, 1) = w
  <2>1. 1 <= Len(cl)
    BY <1>1, <1>2
  <2> QED
    BY <1>1, <2>1, Zenon DEF Word
<1>4. ASSUME NEW i \in Nat \ {0} PROVE Word(cl, i + 1) = Word(line, i)
  <2>1. CASE i <= Len(line)
    <3>1. i + 1 <= Len(cl) /\ cl[i + 1] = line[i]
      BY <1>1, <1>2, <2>1
    <3> QED
      BY <2>1, <3>1, Zenon DEF Word
  <2>2. CASE ~(i <= Len(line))
    <3>1. ~(i + 1 <= Len(cl))
      BY <1>1, <1>2, <2>2
    <3> QED
      BY <2>2, <3>1, Zenon DEF Word
  <2> QED
    BY <2>1, <2>2
<1> QED
  BY <1>3, <1>4, Zenon DEF cl

LEMMA FirstWord ==
  ASSUME NEW line \in Seq(Words), line # <<>>
  PROVE  Word(line, 1) = line[1] /\ line[1] \in Words
<1>1. 1 <= Len(line) /\ line[1] \in Words
  OBVIOUS
<1> QED
  BY <1>1, Zenon DEF Word

LEMMA OneSubnet ==
  ASSUME NEW w \in Words, parse_subnet(w) # {}
  PROVE  \E key \in Keys : parse_subnet(w) = {key}
  BY ParsedSubnet, Zenon DEF parse_subnet

LEMMA OnePps ==
  ASSUME NEW w \in Words, parse_pps(w) # {} PROVE \E pps \in Pps : parse_pps(w) = {pps}
  BY ParsedPps, Zenon DEF parse_pps

\* A line of a list adds the subnet it names, whatever else it says.
LEMMA ListLine ==
  ASSUME NEW t \in Lists, NEW line \in Seq(Words), line # <<>>, fd[t].data,
         updateConfig(t, command_line(t, line))
  PROVE  \/ parse_subnet(line[1]) = {} /\ UNCHANGED configMaps
         \/ \E key \in Keys : parse_subnet(line[1]) = {key} /\ add_ip_subnets(t, key)
<1> DEFINE cl == <<word("add")>> \o line
<1>1. t # "ratelimit"
  BY DEF Lists
<1>2. command_line(t, line) = cl
  BY <1>1, Zenon DEF command_line
<1>3. word("add") \in Words
  BY PlainWord, Zenon DEF Texts
<1>4. Word(cl, 1) = word("add") /\ Word(cl, 2) = line[1]
  <2>1. Word(cl, 1 + 1) = Word(line, 1) /\ Word(cl, 1) = word("add")
    BY <1>3, Prepended
  <2> QED
    BY <2>1, FirstWord
<1> HIDE DEF cl
<1>5. word("add") # word("enabled") /\ word("add") # word("disabled")
      /\ word("add") # word("remove")
  BY WordTexts, Zenon DEF Texts
<1>6. CASE parse_subnet(line[1]) = {}
  <2>1. ~WellFormed(t, cl)
    BY <1>4, <1>6, Zenon DEF WellFormed
  <2> QED
    BY <1>2, <1>4, <1>5, <1>6, <2>1, Zenon DEF updateConfig
<1>7. CASE parse_subnet(line[1]) # {}
  <2>1. PICK key \in Keys : parse_subnet(line[1]) = {key}
    BY <1>7, FirstWord, OneSubnet
  <2>2. WellFormed(t, cl)
    BY <1>4, <1>7, Zenon DEF WellFormed
  <2>3. Change(t, cl)
    BY <1>2, <1>4, <1>5, <2>2, Zenon DEF updateConfig
  <2>4. add_ip_subnets(t, key)
    BY <1>1, <1>4, <1>5, <2>1, <2>3, Zenon DEF Change
  <2> QED
    BY <2>1, <2>4
<1> QED
  BY <1>6, <1>7

Address(ip) == [is |-> "ip", ip |-> ip]

\* What a line with its command says of ip.
CommandLimits(line, ip) ==
  IF Word(line, 2) # Address(ip) THEN {}
  ELSE IF Word(line, 1) = word("add")
       THEN {NsPerSec \div pps : pps \in parse_pps(Word(line, 3))} ELSE {None}

\* An address is no plain word, and says which address it is.
LEMMA AddressWord ==
  ASSUME NEW w \in Words
  PROVE  /\ \A ip, text : Address(ip) # word(text)
         /\ \A ip, o : Address(ip) = Address(o) => ip = o
         /\ w.is = "ip" => w.ip \in IPs /\ w = Address(w.ip)
         /\ \A ip : w = Address(ip) => w.is = "ip"
<1>1. \A ip, text : Address(ip).is = "ip" /\ Address(ip).ip = ip /\ word(text).is = "word"
  BY DEF Address, word
<1>2. w.is = "ip" => w.ip \in IPs /\ w = Address(w.ip)
  BY DEF Words, Address
<1>3. \A ip : w = Address(ip) => w.is = "ip"
  BY <1>1, Zenon
<1>4. \A ip, text : Address(ip) # word(text)
  BY <1>1, Zenon
<1>5. \A ip, o : Address(ip) = Address(o) => ip = o
  BY <1>1, Zenon
<1> QED
  BY <1>2, <1>3, <1>4, <1>5


\* Putting "add" before a line without a command does not change what it says.
LEMMA LimitCommand ==
  ASSUME NEW line \in Seq(Words), line # <<>>, NEW ip
  PROVE  /\ Word(command_line("ratelimit", line), 1) \in {word("add"), word("remove")}
         /\ ParsedLimits(line, ip) = CommandLimits(command_line("ratelimit", line), ip)
<1>1. Word(line, 1) = line[1] /\ line[1] \in Words
  BY FirstWord
<1>2. word("add") # word("remove") /\ \A text : Address(ip) # word(text)
  <2>1. word("add") # word("remove")
    BY WordTexts, Zenon DEF Texts
  <2> QED
    BY <1>1, <2>1, AddressWord, Zenon
<1>3. CASE line[1] \in {word("add"), word("remove")}
  <2>1. command_line("ratelimit", line) = line
    BY <1>3, Zenon DEF command_line
  <2>2. ParsedLimits(line, ip) = CommandLimits(line, ip)
    BY <1>1, <1>2, <1>3, Zenon DEF ParsedLimits, CommandLimits, Address
  <2> QED
    BY <1>1, <1>3, <2>1, <2>2, Zenon
<1>4. CASE line[1] \notin {word("add"), word("remove")}
  <2> DEFINE cl == <<word("add")>> \o line
  <2>1. command_line("ratelimit", line) = cl
    BY <1>4, Zenon DEF command_line
  <2>2. word("add") \in Words
    BY PlainWord, Zenon DEF Texts
  <2>3. /\ Word(cl, 1) = word("add") /\ Word(cl, 1 + 1) = Word(line, 1)
        /\ Word(cl, 2 + 1) = Word(line, 2)
    BY <2>2, Prepended
  <2> HIDE DEF cl
  <2>4. Word(cl, 2) = Word(line, 1) /\ Word(cl, 3) = Word(line, 2)
    BY <2>3
  <2>5. ParsedLimits(line, ip) = CommandLimits(cl, ip)
    BY <1>1, <1>2, <1>4, <2>3, <2>4, Zenon DEF ParsedLimits, CommandLimits, Address
  <2> QED
    BY <2>1, <2>3, <2>5, Zenon
<1> QED
  BY <1>3, <1>4

\* A command changes the limit of the address it names, if it names one.
LEMMA LimitUpdate ==
  ASSUME NEW cl \in Seq(Words), Word(cl, 1) \in {word("add"), word("remove")},
         fd["ratelimit"].data, updateConfig("ratelimit", cl)
  PROVE  \/ (\A ip \in IPs : CommandLimits(cl, ip) = {}) /\ UNCHANGED configMaps
         \/ \E ip \in IPs :
              /\ \A o \in IPs \ {ip} : CommandLimits(cl, o) = {}
              /\ \/ \E pps \in Pps : /\ CommandLimits(cl, ip) = {NsPerSec \div pps}
                                     /\ add_rate_limit(ip, pps)
                 \/ CommandLimits(cl, ip) = {None} /\ remove_rate_limit(ip)
<1> DEFINE arg == Word(cl, 2)
<1>1. arg \in Words /\ Word(cl, 3) \in Words
  BY WordType
<1>2. /\ word("add") # word("enabled") /\ word("add") # word("disabled")
      /\ word("remove") # word("enabled") /\ word("remove") # word("disabled")
      /\ word("add") # word("remove")
  BY WordTexts, Zenon DEF Texts
<1>3. "ratelimit" \notin Lists
  BY DEF Lists
<1>4. ASSUME arg.is # "ip" \/ (Word(cl, 1) = word("add") /\ parse_pps(Word(cl, 3)) = {})
      PROVE  (\A ip \in IPs : CommandLimits(cl, ip) = {}) /\ UNCHANGED configMaps
  <2>1. ~WellFormed("ratelimit", cl)
    BY <1>3, <1>4, Zenon DEF WellFormed
  <2>2. UNCHANGED configMaps
    BY <1>2, <2>1, Zenon DEF updateConfig
  <2>3. ASSUME NEW ip \in IPs, arg = Address(ip) PROVE CommandLimits(cl, ip) = {}
    <3>1. arg.is = "ip"
      BY <1>1, <2>3, AddressWord, Zenon
    <3> QED
      BY <1>4, <3>1, Zenon DEF CommandLimits
  <2> QED
    BY <2>2, <2>3, Zenon DEF CommandLimits
<1>5. ASSUME arg.is = "ip", Word(cl, 1) = word("add") => parse_pps(Word(cl, 3)) # {}
      PROVE  \E ip \in IPs :
               /\ \A o \in IPs \ {ip} : CommandLimits(cl, o) = {}
               /\ \/ \E pps \in Pps : /\ CommandLimits(cl, ip) = {NsPerSec \div pps}
                                      /\ add_rate_limit(ip, pps)
                  \/ CommandLimits(cl, ip) = {None} /\ remove_rate_limit(ip)
  <2>1. PICK ip \in IPs : ip = arg.ip /\ arg = Address(ip)
    BY <1>1, <1>5, AddressWord, Zenon
  <2>2. ASSUME NEW o \in IPs \ {ip} PROVE CommandLimits(cl, o) = {}
    <3>1. Address(o) # Address(ip)
      BY <1>1, AddressWord, Zenon
    <3> QED
      BY <2>1, <3>1, Zenon DEF CommandLimits
  <2>3. WellFormed("ratelimit", cl)
    BY <1>3, <1>5, Zenon DEF WellFormed
  <2>4. Change("ratelimit", cl)
    BY <1>2, <2>3, Zenon DEF updateConfig
  <2>5. CASE Word(cl, 1) = word("add")
    <3>1. PICK pps \in Pps : parse_pps(Word(cl, 3)) = {pps}
      BY <1>1, <1>5, <2>5, OnePps
    <3>2. add_rate_limit(ip, pps)
      BY <1>2, <1>3, <2>1, <2>4, <2>5, <3>1, Zenon DEF Change
    <3>3. CommandLimits(cl, ip) = {NsPerSec \div pps}
      BY <2>1, <2>5, <3>1, Zenon DEF CommandLimits
    <3> QED
      BY <2>2, <3>2, <3>3, Zenon
  <2>6. CASE Word(cl, 1) = word("remove")
    <3>1. remove_rate_limit(ip)
      BY <1>2, <1>3, <2>1, <2>4, <2>6, Zenon DEF Change
    <3>2. CommandLimits(cl, ip) = {None}
      BY <1>2, <2>1, <2>6, Zenon DEF CommandLimits
    <3> QED
      BY <2>2, <3>1, <3>2, Zenon
  <2> QED
    BY <2>5, <2>6
<1> QED
  BY <1>4, <1>5, Zenon

\* "enabled" and "disabled" name no subnet and no limit.
LEMMA StateLine ==
  ASSUME NEW line \in {enabled, disabled}
  PROVE  parse_subnet(line[1]) = {} /\ \A ip : ParsedLimits(line, ip) = {}
<1>1. PICK text \in {"enabled", "disabled"} : line = <<word(text)>>
  BY Zenon DEF enabled, disabled
<1>2. line[1] = word(text) /\ Word(line, 1) = word(text)
  BY <1>1 DEF Word
<1>3. word(text) # word("add") /\ word(text) # word("remove") /\ word(text) \in Words
  BY WordTexts, PlainWord, Zenon DEF Texts
<1>4. \A ip : word(text) # Address(ip)
  BY <1>3, AddressWord, Zenon
<1>5. word(text).is = "word"
  BY DEF word
<1>6. parse_subnet(line[1]) = {}
  BY <1>2, <1>5 DEF parse_subnet
<1>7. \A ip : ParsedLimits(line, ip) = {}
  BY <1>2, <1>3, <1>4, Zenon DEF ParsedLimits, Address
<1> QED
  BY <1>6, <1>7


-----------------------------------------------------------------------------
(* The invariant of loading: what the maps hold of the type being loaded is  *)
(* what the lines read so far say, and what they hold of a type that is      *)
(* loaded is what its file says.                                             *)

\* loadConfig of t is over.
Past(t) == CASE t = "blacklist" -> type # "blacklist"
             [] t = "whitelist" -> type \in {"ratelimit", "events"}
             [] t = "ratelimit" -> type = "events"

Readable(t) == fds[t] /\ fds["config_state"] /\ file[t] # NoFile

\* The data map of t holds what the first n lines of the file say, up to its
\* capacity.
Holds(t, n) ==
  /\ t \in Lists =>
       /\ subnets_map[t] \subseteq Names(file[t], n)
       /\ Cardinality(Names(file[t], Len(file[t]))) <= MaxEntries =>
            \A ip \in IPs : Listed(t, ip) <=> \E key \in Names(file[t], n) : Covers(key, ip)
  /\ t = "ratelimit" /\ Cardinality(IPs) <= MaxEntries =>
       \A ip \in IPs : ip_rate_limits_map[ip] = LimitAfter(file[t], n, ip)

\* Nothing has been stored for t.
NoData(t) ==
  /\ t \in Lists => subnets_map[t] = {}
  /\ t = "ratelimit" => \A ip \in IPs : ip_rate_limits_map[ip] = None

LinesRead == Len(file[type]) - Len(rest)

\* The file of the present type is being read.
Progress ==
  /\ Readable(type) /\ fd[type] = [data |-> TRUE, state |-> TRUE]
  /\ LinesRead \in 0 .. Len(file[type])
  /\ \A i \in 1 .. Len(rest) : rest[i] = file[type][LinesRead + i]
  /\ first_line => \A i \in 1 .. LinesRead : ~Significant(file[type][i])
  /\ ~first_line => /\ config_state_map[type] = 1 /\ Enables(type, file[type])
                    /\ Holds(type, LinesRead)

Untouched(t) == config_state_map[t] = 0 /\ NoData(t)

AsWritten(t) ==
  /\ config_state_map[t] = 1 <=> Enables(t, file[t])
  /\ Enables(t, file[t]) => Holds(t, Len(file[t]))

LoadOf(t) ==
  /\ ~Past(t) /\ ~(type = t /\ reading /\ ~first_line) => Untouched(t)
  /\ Past(t) /\ Readable(t) => AsWritten(t)

LoadedInv == (reading => Progress) /\ \A t \in ConfigKeys : LoadOf(t)

\* Together with the types.
Inv ==
  /\ LoadInv /\ TypeOK
  /\ type \in ConfigKeys => handled = None
  /\ handled = None => LoadedInv

-----------------------------------------------------------------------------
(* Types. *)

LEMMA UpdateType == MapsTypeOK /\ MapUpdate => MapsTypeOK'
<1> SUFFICES ASSUME MapsTypeOK, MapUpdate PROVE MapsTypeOK'
  OBVIOUS
<1>1. ASSUME NEW k \in ConfigKeys, NEW v \in {0, 1}, SetState(k, v) PROVE MapsTypeOK'
  BY <1>1 DEF SetState, MapsTypeOK
<1>2. ASSUME NEW l \in Lists, NEW key \in Keys, add_ip_subnets(l, key) PROVE MapsTypeOK'
  BY <1>2 DEF add_ip_subnets, MapsTypeOK
<1>3. ASSUME NEW l \in Lists, NEW key \in Keys, remove_ip_subnets(l, key) PROVE MapsTypeOK'
  BY <1>3 DEF remove_ip_subnets, MapsTypeOK
<1>4. ASSUME NEW ip \in IPs, NEW pps \in Pps, add_rate_limit(ip, pps) PROVE MapsTypeOK'
  BY <1>4 DEF add_rate_limit, MapsTypeOK, Intervals
<1>5. ASSUME NEW ip \in IPs, remove_rate_limit(ip) PROVE MapsTypeOK'
  BY <1>5 DEF remove_rate_limit, MapsTypeOK
<1> QED
  BY <1>1, <1>2, <1>3, <1>4, <1>5 DEF MapUpdate

LEMMA TypeStep == LoadInv /\ TypeOK /\ [Next]_vars => TypeOK'
<1> SUFFICES ASSUME LoadInv, TypeOK, [Next]_vars PROVE TypeOK'
  OBVIOUS
<1>1. LoadInv'
  BY LoadStep
<1>2. MapsTypeOK'
  <2>1. MapUpdate \/ UNCHANGED configMaps
    BY MapStep
  <2> QED
    BY <2>1, UpdateType, Zenon DEF TypeOK, MapsTypeOK, configMaps
<1>3. fds' = fds
  BY Zenon
  DEF Next, loadAllConfigs, OpenConfig, SkipLine, FirstLine, ProcessLine, EndOfFile,
      processEventMessage, input, vars
<1>4. first_line' \in BOOLEAN /\ reading' \in BOOLEAN
  BY Zenon
  DEF Next, loadAllConfigs, OpenConfig, SkipLine, FirstLine, ProcessLine, EndOfFile,
      processEventMessage, Return, TypeOK, vars
<1>5. handled' \in Messages \cup {None}
  BY Zenon
  DEF Next, loadAllConfigs, OpenConfig, SkipLine, FirstLine, ProcessLine, EndOfFile,
      processEventMessage, TypeOK, vars
<1>6. fd' \in [ConfigKeys -> [data : BOOLEAN, state : BOOLEAN]]
  <2>1. CASE OpenConfig
    <3>1. [data |-> fds[type], state |-> fds[type] /\ fds["config_state"]]
            \in [data : BOOLEAN, state : BOOLEAN]
      BY <2>1 DEF OpenConfig, TypeOK
    <3> QED
      BY <2>1, <3>1 DEF OpenConfig, TypeOK
  <2>2. CASE fd' = fd
    BY <2>2, Zenon DEF TypeOK
  <2> QED
    BY <2>1, <2>2, Zenon
    DEF Next, loadAllConfigs, SkipLine, FirstLine, ProcessLine, EndOfFile,
        processEventMessage, vars
<1> QED
  BY <1>1, <1>2, <1>3, <1>4, <1>5, <1>6, Zenon DEF TypeOK, LoadInv


-----------------------------------------------------------------------------
(* One line more. *)

LEMMA FileType ==
  ASSUME file \in Files, NEW t \in ConfigKeys, file[t] # NoFile
  PROVE  file[t] \in Seq(Seq(Words))
  BY TypesAssumption, Zenon

LEMMA HoldsSame ==
  ASSUME NEW t, NEW n, Holds(t, n), file' = file,
         t \in Lists => subnets_map'[t] = subnets_map[t],
         t = "ratelimit" => ip_rate_limits_map' = ip_rate_limits_map
  PROVE  Holds(t, n)'
  BY Zenon DEF Holds, Listed

LEMMA NoDataSame ==
  ASSUME NEW t, NoData(t), t \in Lists => subnets_map'[t] = subnets_map[t],
         t = "ratelimit" => ip_rate_limits_map' = ip_rate_limits_map
  PROVE  NoData(t)'
  BY Zenon DEF NoData

\* No significant line, nothing stored.
LEMMA HoldsNothing ==
  ASSUME NEW t \in ConfigKeys, NoData(t), file[t] \in Seq(Seq(Words)),
         NEW n \in 0 .. Len(file[t]), \A i \in 1 .. n : ~Significant(file[t][i])
  PROVE  Holds(t, n)
<1>1. n \in Nat
  OBVIOUS
<1>2. Names(file[t], n) = {}
  BY <1>1, NamesNone
<1>3. \A ip : LimitAfter(file[t], n, ip) = None
  BY LimitNone, Zenon
<1> QED
  BY <1>2, <1>3, Zenon DEF Holds, NoData, Listed

\* A line that says nothing.
LEMMA HoldsSkip ==
  ASSUME NEW t, NEW n \in Nat, Holds(t, n),
         t \in Lists /\ Significant(file[t][n + 1]) => parse_subnet(file[t][n + 1][1]) = {},
         t = "ratelimit" => \A ip \in IPs : ParsedLimits(file[t][n + 1], ip) = {}
  PROVE  Holds(t, n + 1)
<1>1. t \in Lists => Names(file[t], n + 1) = Names(file[t], n)
  <2>1. Names(file[t], n + 1) = Names(file[t], n) \cup
          (IF Significant(file[t][n + 1]) THEN parse_subnet(file[t][n + 1][1]) ELSE {})
    BY NamesNext
  <2>2. t \in Lists =>
          (IF Significant(file[t][n + 1]) THEN parse_subnet(file[t][n + 1][1]) ELSE {}) = {}
    BY Zenon
  <2> QED
    BY <2>1, <2>2, Zenon
<1>2. t = "ratelimit" => \A ip \in IPs : LimitAfter(file[t], n + 1, ip) = LimitAfter(file[t], n, ip)
  BY LimitSame, Zenon
<1> QED
  BY <1>1, <1>2, Zenon DEF Holds

\* A line that names a key.
LEMMA HoldsAdd ==
  ASSUME MapsTypeOK, NEW t \in Lists, NEW n \in Nat, n + 1 <= Len(file[t]), Holds(t, n),
         file[t] \in Seq(Seq(Words)), file' = file, Significant(file[t][n + 1]),
         NEW key \in Keys, parse_subnet(file[t][n + 1][1]) = {key}, add_ip_subnets(t, key)
  PROVE  Holds(t, n + 1)'
<1> DEFINE old == Names(file[t], n)
           new == Names(file[t], n + 1)
           all == Names(file[t], Len(file[t]))
<1>1. new = old \cup {key}
  BY NamesNext, Zenon
<1>2. n + 1 \in 0 .. Len(file[t]) /\ Len(file[t]) \in Nat
  OBVIOUS
<1>3. new \subseteq all /\ all \subseteq Keys
  <2>1. new \subseteq all
    BY <1>2, NamesType
  <2>2. Len(file[t]) \in 0 .. Len(file[t])
    BY <1>2
  <2> QED
    BY <2>1, <2>2, NamesType, Zenon
<1>4. /\ subnets_map[t] \subseteq old
      /\ Cardinality(all) <= MaxEntries =>
           \A ip \in IPs : Listed(t, ip) <=> \E k \in old : Covers(k, ip)
  BY Zenon DEF Holds
<1> HIDE DEF old, new, all
<1>5. /\ subnets_map'[t] \subseteq subnets_map[t] \cup {key}
      /\ \A ip \in IPs : Listed(t, ip) => Listed(t, ip)'
      /\ \A F \in SUBSET Keys :
           subnets_map[t] \subseteq F /\ key \in F /\ Cardinality(F) <= MaxEntries =>
             key \in subnets_map'[t]
  BY AddCovers, Zenon
<1>6. subnets_map'[t] \subseteq new
  BY <1>1, <1>4, <1>5, Zenon
<1>7. ASSUME Cardinality(all) <= MaxEntries, NEW ip \in IPs
      PROVE  Listed(t, ip)' <=> \E k \in new : Covers(k, ip)
  <2>1. key \in subnets_map'[t]
    BY <1>1, <1>3, <1>4, <1>5, <1>7, Zenon
  <2>2. Listed(t, ip)' => \E k \in new : Covers(k, ip)
    BY <1>6, Zenon DEF Listed
  <2>3. ASSUME NEW k \in new, Covers(k, ip) PROVE Listed(t, ip)'
    <3>1. CASE k \in old
      BY <1>4, <1>5, <1>7, <2>3, <3>1, Zenon
    <3>2. CASE k = key
      BY <2>1, <2>3, <3>2, Zenon DEF Listed
    <3> QED
      BY <1>1, <3>1, <3>2, Zenon
  <2> QED
    BY <2>2, <2>3
<1>8. t # "ratelimit"
  BY DEF Lists
<1> QED
  BY <1>6, <1>7, <1>8, Zenon DEF Holds, new, all

\* A line that sets or removes a limit.
LEMMA HoldsLimit ==
  ASSUME MapsTypeOK, NEW n \in Nat, Holds("ratelimit", n), file' = file,
         NEW ip \in IPs,
         \A o \in IPs \ {ip} : ParsedLimits(file["ratelimit"][n + 1], o) = {},
         \/ \E pps \in Pps : /\ ParsedLimits(file["ratelimit"][n + 1], ip) = {NsPerSec \div pps}
                             /\ add_rate_limit(ip, pps)
         \/ ParsedLimits(file["ratelimit"][n + 1], ip) = {None} /\ remove_rate_limit(ip)
  PROVE  Holds("ratelimit", n + 1)'
<1>1. "ratelimit" \notin Lists
  BY DEF Lists
<1> SUFFICES ASSUME Cardinality(IPs) <= MaxEntries, NEW o \in IPs
             PROVE  ip_rate_limits_map'[o] = LimitAfter(file["ratelimit"], n + 1, o)
  BY <1>1, Zenon DEF Holds
<1>2. ip_rate_limits_map[o] = LimitAfter(file["ratelimit"], n, o)
  BY Zenon DEF Holds
<1>3. ip_rate_limits_map \in [IPs -> Intervals \cup {None}]
  BY Zenon DEF MapsTypeOK
<1>4. PICK l : /\ ParsedLimits(file["ratelimit"][n + 1], ip) = {l}
               /\ ip_rate_limits_map' = [ip_rate_limits_map EXCEPT ![ip] = l]
  BY AddLimit, Zenon DEF remove_rate_limit
<1>5. CASE o = ip
  <2>1. ip_rate_limits_map'[o] = l
    BY <1>3, <1>4, <1>5, Zenon
  <2>2. LimitAfter(file["ratelimit"], n + 1, ip) = l
    <3>1. /\ l \in ParsedLimits(file["ratelimit"][n + 1], ip)
          /\ \A x \in ParsedLimits(file["ratelimit"][n + 1], ip) : x = l
      BY <1>4, Zenon
    <3> QED
      BY <3>1, LimitSet, Zenon
  <2> QED
    BY <1>5, <2>1, <2>2, Zenon
<1>6. CASE o # ip
  <2>1. ip_rate_limits_map'[o] = ip_rate_limits_map[o]
    BY <1>3, <1>4, <1>6, Zenon
  <2> QED
    BY <1>2, <1>6, <2>1, LimitSame, Zenon
<1> QED
  BY <1>5, <1>6


-----------------------------------------------------------------------------
(* Steps of loadAllConfigs. *)

\* A step leaves what is stored for t alone.
Kept(t) ==
  /\ config_state_map'[t] = config_state_map[t]
  /\ t \in Lists => subnets_map'[t] = subnets_map[t]
  /\ t = "ratelimit" => ip_rate_limits_map' = ip_rate_limits_map

LEMMA PastOf ==
  ASSUME type \in ConfigKeys
  PROVE  /\ ~Past(type)
         /\ Return => \A t \in ConfigKeys : Past(t)' <=> Past(t) \/ t = type
<1>1. CASE type = "blacklist"
  BY <1>1 DEF Past, Return, ConfigKeys, Lists
<1>2. CASE type = "whitelist"
  BY <1>2 DEF Past, Return, ConfigKeys, Lists
<1>3. CASE type = "ratelimit"
  BY <1>3 DEF Past, Return, ConfigKeys, Lists
<1> QED
  BY <1>1, <1>2, <1>3, Zenon DEF ConfigKeys, Lists

\* The types that are not being loaded.
LEMMA OtherType ==
  ASSUME type \in ConfigKeys, NEW t \in ConfigKeys, t # type, LoadOf(t), Kept(t),
         input' = input, Return \/ type' = type
  PROVE  LoadOf(t)'
<1>1. Past(t)' <=> Past(t)
  <2>1. CASE Return
    BY <2>1, PastOf, Zenon
  <2>2. CASE type' = type
    BY <2>2, Zenon DEF Past
  <2> QED
    BY <2>1, <2>2
<1>2. file' = file /\ (Readable(t)' <=> Readable(t))
  BY Zenon DEF input, Readable
<1>3. Untouched(t) => Untouched(t)'
  BY NoDataSame, Zenon DEF Untouched, Kept
<1>4. AsWritten(t) => AsWritten(t)'
  BY <1>2, HoldsSame, Zenon DEF AsWritten, Kept
<1> QED
  BY <1>1, <1>2, <1>3, <1>4, Zenon DEF LoadOf

\* The line that is read next is line LinesRead + 1 of the file.
LEMMA AtLine ==
  ASSUME LoadInv, reading, Progress
  PROVE  \E t \in ConfigKeys, n \in Nat :
           /\ type = t /\ LinesRead = n /\ n \in 0 .. Len(file[t])
           /\ file[t] \in Seq(Seq(Words))
           /\ rest = <<>> => n = Len(file[t])
           /\ rest # <<>> => /\ n + 1 <= Len(file[t]) /\ Head(rest) = file[t][n + 1]
                             /\ Head(rest) \in Seq(Words)
<1>1. PICK t \in ConfigKeys : t = type
  BY Zenon DEF LoadInv
<1>2. rest \in Seq(Seq(Words)) /\ file[t] \in Seq(Seq(Words))
  BY <1>1, FileType, Zenon DEF LoadInv, Progress, Readable
<1>3. PICK n \in Nat : n = LinesRead /\ n \in 0 .. Len(file[t])
  BY <1>1 DEF Progress
<1>4. n = Len(file[t]) - Len(rest)
  BY <1>1, <1>3, Zenon DEF LinesRead
<1>5. rest = <<>> => n = Len(file[t])
  BY <1>2, <1>4
<1>6. ASSUME rest # <<>>
      PROVE  n + 1 <= Len(file[t]) /\ Head(rest) = file[t][n + 1] /\ Head(rest) \in Seq(Words)
  <2>1. Len(rest) \in Nat \ {0} /\ Head(rest) = rest[1] /\ Head(rest) \in Seq(Words)
    BY <1>2, <1>6
  <2>2. 1 \in 1 .. Len(rest) /\ n + 1 <= Len(file[t])
    BY <1>2, <1>4, <2>1
  <2>3. rest[1] = file[t][n + 1]
    BY <1>1, <1>3, <2>2, Zenon DEF Progress
  <2> QED
    BY <2>1, <2>2, <2>3
<1> QED
  BY <1>1, <1>2, <1>3, <1>5, <1>6, Zenon

\* Reading a line on.
LEMMA LineOn ==
  ASSUME LoadInv, reading, Progress, rest # <<>>, rest' = Tail(rest), type' = type,
         file' = file
  PROVE  /\ LinesRead' = LinesRead + 1 /\ LinesRead' \in 0 .. Len(file[type])
         /\ \A i \in 1 .. Len(rest') : rest'[i] = file[type][LinesRead' + i]
<1>1. PICK t \in ConfigKeys, n \in Nat :
        type = t /\ LinesRead = n /\ file[t] \in Seq(Seq(Words)) /\ n + 1 <= Len(file[t])
  BY AtLine
<1>2. rest \in Seq(Seq(Words)) /\ n = Len(file[t]) - Len(rest)
  BY <1>1, Zenon DEF LoadInv, LinesRead
<1>3. Len(rest') = Len(rest) - 1 /\ \A i \in 1 .. Len(rest') : rest'[i] = rest[i + 1]
  BY <1>2
<1>4. LinesRead' = n + 1
  BY <1>1, <1>2, <1>3 DEF LinesRead
<1>5. ASSUME NEW i \in 1 .. Len(rest') PROVE rest'[i] = file[t][n + 1 + i]
  <2>1. i + 1 \in 1 .. Len(rest)
    BY <1>2, <1>3
  <2>2. rest[i + 1] = file[t][n + (i + 1)]
    BY <1>1, <2>1, Zenon DEF Progress
  <2>3. n + (i + 1) = n + 1 + i
    OBVIOUS
  <2> QED
    BY <1>3, <2>2, <2>3
<1>6. n + 1 \in 0 .. Len(file[t])
  BY <1>1
<1> QED
  BY <1>1, <1>4, <1>5, <1>6, Zenon

LEMMA OpenLoaded == Inv /\ OpenConfig /\ handled = None => LoadedInv'
<1> SUFFICES ASSUME Inv, OpenConfig, handled = None PROVE LoadedInv'
  OBVIOUS
<1>1. PICK t \in ConfigKeys : t = type
  BY Zenon DEF OpenConfig
<1>2. /\ ~reading /\ \A u \in ConfigKeys : LoadOf(u) /\ Kept(u)
      /\ input' = input /\ file' = file /\ fds' = fds
  BY Zenon DEF OpenConfig, Inv, LoadedInv, Kept, configMaps, input
<1>3. ~Past(t) /\ Untouched(t)
  BY <1>1, <1>2, PastOf, Zenon DEF LoadOf
<1>4. Untouched(t)'
  BY <1>2, <1>3, NoDataSame, Zenon DEF Untouched, Kept
<1>5. /\ fd'[t] = [data |-> fds[t], state |-> fds[t] /\ fds["config_state"]]
      /\ fd'[t].state <=> fds[t] /\ fds["config_state"]
  BY <1>1 DEF OpenConfig, Inv, TypeOK
<1>6. CASE fd'[t].state /\ file[t] # NoFile
  <2>1. reading' /\ rest' = file[t] /\ type' = t /\ first_line'
    BY <1>1, <1>6, Zenon DEF OpenConfig
  <2>2. file[t] \in Seq(Seq(Words))
    BY <1>6, FileType, Zenon DEF Inv, LoadInv
  <2>3. LinesRead' = 0
    BY <1>2, <2>1, <2>2 DEF LinesRead
  <2>4. Readable(t)' /\ fd'[t] = [data |-> TRUE, state |-> TRUE]
    BY <1>2, <1>5, <1>6, Zenon DEF Readable, Inv, TypeOK
  <2>5. 0 \in 0 .. Len(file[t]) /\ \A i \in 1 .. Len(file[t]) : file[t][0 + i] = file[t][i]
    BY <2>2
  <2>6. \A i \in 1 .. 0 : FALSE
    OBVIOUS
  <2>7. Progress'
    BY <1>2, <2>1, <2>3, <2>4, <2>5, <2>6, Zenon DEF Progress
  <2>8. LoadOf(t)'
    <3>1. ~Past(t)'
      BY <1>1, <1>3, <2>1, Zenon DEF Past
    <3> QED
      BY <1>4, <3>1, Zenon DEF LoadOf
  <2>9. \A u \in ConfigKeys \ {t} : LoadOf(u)'
    BY <1>1, <1>2, <2>1, OtherType, Zenon
  <2> QED
    BY <2>7, <2>8, <2>9, Zenon DEF LoadedInv
<1>7. CASE ~(fd'[t].state /\ file[t] # NoFile)
  <2>1. Return /\ ~reading'
    BY <1>1, <1>7, Zenon DEF OpenConfig, Return
  <2>2. ~Readable(t)'
    BY <1>2, <1>5, <1>7, Zenon DEF Readable
  <2>3. Past(t)'
    BY <1>1, <2>1, PastOf, Zenon
  <2>4. LoadOf(t)'
    BY <2>2, <2>3, Zenon DEF LoadOf
  <2>5. \A u \in ConfigKeys \ {t} : LoadOf(u)'
    BY <1>1, <1>2, <2>1, OtherType, Zenon
  <2> QED
    BY <2>1, <2>4, <2>5, Zenon DEF LoadedInv
<1> QED
  BY <1>6, <1>7


\* A line was read on and the present type holds what it says.
LEMMA LineRead ==
  ASSUME LoadInv, LoadedInv, reading, rest # <<>>, rest' = Tail(rest), input' = input,
         UNCHANGED <<type, reading, first_line, fd>>,
         NEW t \in ConfigKeys, type = t, \A u \in ConfigKeys \ {t} : Kept(u),
         config_state_map'[t] = config_state_map[t],
         first_line => ~Significant(Head(rest)) /\ Untouched(t)',
         ~first_line => \A n \in Nat : n = LinesRead /\ Holds(t, n) => Holds(t, n + 1)'
  PROVE  LoadedInv'
<1>1. Progress /\ file' = file /\ fds' = fds
  BY Zenon DEF LoadedInv, input
<1>2. PICK n \in Nat :
        n = LinesRead /\ n + 1 <= Len(file[t]) /\ Head(rest) = file[t][n + 1]
  BY <1>1, AtLine, Zenon
<1>3. /\ LinesRead' = n + 1 /\ n + 1 \in 0 .. Len(file[t])
      /\ \A i \in 1 .. Len(rest') : rest'[i] = file[t][n + 1 + i]
  BY <1>1, <1>2, LineOn, Zenon
<1>4. Readable(t)' /\ fd'[t] = [data |-> TRUE, state |-> TRUE]
  BY <1>1, Zenon DEF Progress, Readable
<1>5. first_line => \A i \in 1 .. n + 1 : ~Significant(file[t][i])
  <2>1. \A i \in 1 .. n + 1 : i \in 1 .. n \/ i = n + 1
    OBVIOUS
  <2> QED
    BY <1>1, <1>2, <2>1, Zenon DEF Progress
<1>6. ~first_line => config_state_map'[t] = 1 /\ Enables(t, file[t]) /\ Holds(t, n + 1)'
  BY <1>1, <1>2, Zenon DEF Progress
<1>7. Progress'
  BY <1>1, <1>3, <1>4, <1>5, <1>6, Zenon DEF Progress
<1>8. LoadOf(t)'
  <2>1. ~Past(t)'
    BY PastOf, Zenon DEF Past
  <2> QED
    BY <2>1, Zenon DEF LoadOf
<1>9. \A u \in ConfigKeys \ {t} : LoadOf(u)'
  BY OtherType, Zenon DEF LoadedInv
<1> QED
  BY <1>7, <1>8, <1>9, Zenon DEF LoadedInv

LEMMA SkipLoaded == Inv /\ SkipLine /\ handled = None => LoadedInv'
<1> SUFFICES ASSUME Inv, SkipLine, handled = None PROVE LoadedInv'
  OBVIOUS
<1>1. /\ LoadInv /\ LoadedInv /\ reading /\ rest # <<>> /\ rest' = Tail(rest) /\ input' = input
      /\ UNCHANGED <<type, reading, first_line, fd>> /\ ~Significant(Head(rest))
      /\ UNCHANGED configMaps /\ file' = file /\ Progress
  BY Zenon DEF SkipLine, Inv, LoadedInv, input
<1>2. PICK t \in ConfigKeys, n \in Nat :
        /\ type = t /\ LinesRead = n /\ Head(rest) = file[t][n + 1]
        /\ Head(rest) \in Seq(Words)
  BY <1>1, AtLine, Zenon
<1>3. \A u \in ConfigKeys : Kept(u)
  BY <1>1, Zenon DEF Kept, configMaps
<1>4. ASSUME first_line PROVE Untouched(t)'
  <2>1. Untouched(t)
    BY <1>1, <1>2, <1>4, PastOf, Zenon DEF LoadedInv, LoadOf
  <2> QED
    BY <1>3, <2>1, NoDataSame, Zenon DEF Untouched, Kept
<1>5. ASSUME Holds(t, n) PROVE Holds(t, n + 1)'
  <2>1. \A ip \in IPs : ParsedLimits(file[t][n + 1], ip) = {}
    BY <1>1, <1>2, Unmeant, Zenon
  <2>2. Holds(t, n + 1)
    BY <1>1, <1>2, <1>5, <2>1, HoldsSkip, Zenon
  <2> QED
    BY <1>1, <1>3, <2>2, HoldsSame, Zenon DEF Kept
<1> QED
  BY <1>1, <1>2, <1>3, <1>4, <1>5, LineRead, Zenon DEF Kept

\* Switching the state of the type being loaded.
LEMMA Switched ==
  ASSUME TypeOK, Progress, reading, NEW t \in ConfigKeys, type = t, NEW v, set_state(t, v)
  PROVE  /\ config_state_map'[t] = v /\ UNCHANGED <<subnets_map, ip_rate_limits_map>>
         /\ \A u \in ConfigKeys \ {t} : Kept(u)
<1>1. fd[t].state
  <2>1. fd[t] = [data |-> TRUE, state |-> TRUE]
    BY Zenon DEF Progress
  <2> QED
    BY <2>1
<1>2. /\ config_state_map' = [config_state_map EXCEPT ![t] = v]
      /\ UNCHANGED <<subnets_map, ip_rate_limits_map>>
  BY <1>1, Zenon DEF set_state, SetState
<1>3. config_state_map \in [ConfigKeys -> {0, 1}]
  BY Zenon DEF TypeOK, MapsTypeOK
<1>4. config_state_map'[t] = v /\ \A u \in ConfigKeys \ {t} : config_state_map'[u] = config_state_map[u]
  BY <1>2, <1>3, Zenon
<1> QED
  BY <1>2, <1>4, Zenon DEF Kept

LEMMA FirstLoaded == Inv /\ FirstLine /\ handled = None => LoadedInv'
<1> SUFFICES ASSUME Inv, FirstLine, handled = None PROVE LoadedInv'
  OBVIOUS
<1>1. /\ LoadInv /\ TypeOK /\ LoadedInv /\ Progress /\ reading /\ rest # <<>> /\ first_line
      /\ Significant(Head(rest)) /\ ~first_line' /\ input' = input /\ file' = file
      /\ fds' = fds /\ fd' = fd
  BY Zenon DEF FirstLine, Inv, LoadedInv, input
<1>2. PICK t \in ConfigKeys, n \in Nat :
        /\ type = t /\ LinesRead = n /\ n \in 0 .. Len(file[t])
        /\ file[t] \in Seq(Seq(Words)) /\ n + 1 <= Len(file[t])
        /\ Head(rest) = file[t][n + 1]
  BY <1>1, AtLine, Zenon
<1>3. ~Past(t) /\ Untouched(t)
  BY <1>1, <1>2, PastOf, Zenon DEF LoadedInv, LoadOf
<1>4. \A i \in 1 .. n : ~Significant(file[t][i])
  BY <1>1, <1>2, Zenon DEF Progress
<1>5. Enables(t, file[t]) <=> Head(rest) # disabled
  BY <1>1, <1>2, <1>4, EnablesFirst, Zenon
<1>6. CASE Head(rest) = disabled
  <2>1. set_state(t, 0) /\ Return /\ ~reading'
    BY <1>2, <1>6, Zenon DEF FirstLine, Return
  <2>2. config_state_map'[t] = 0 /\ \A u \in ConfigKeys \ {t} : Kept(u)
    BY <1>1, <1>2, <2>1, Switched, Zenon
  <2>3. Past(t)'
    BY <1>2, <2>1, PastOf, Zenon
  <2>4. AsWritten(t)'
    BY <1>1, <1>5, <1>6, <2>2 DEF AsWritten
  <2>5. LoadOf(t)'
    BY <2>3, <2>4, Zenon DEF LoadOf
  <2>6. \A u \in ConfigKeys \ {t} : LoadOf(u)'
    BY <1>1, <1>2, <2>1, <2>2, OtherType, Zenon DEF LoadedInv
  <2> QED
    BY <2>1, <2>5, <2>6, Zenon DEF LoadedInv
<1>7. CASE Head(rest) # disabled
  <2>1. set_state(t, 1) /\ type' = t /\ reading' /\ rest' = rest
    BY <1>1, <1>2, <1>7, Zenon DEF FirstLine
  <2>2. /\ config_state_map'[t] = 1 /\ \A u \in ConfigKeys \ {t} : Kept(u)
        /\ UNCHANGED <<subnets_map, ip_rate_limits_map>>
    BY <1>1, <1>2, <2>1, Switched, Zenon
  <2>3. Holds(t, n)
    BY <1>2, <1>3, <1>4, HoldsNothing, Zenon DEF Untouched
  <2>4. Holds(t, n)'
    BY <1>1, <2>2, <2>3, HoldsSame, Zenon
  <2>5. LinesRead' = n
    BY <1>1, <1>2, <2>1, Zenon DEF LinesRead
  <2>6. Progress'
    BY <1>1, <1>2, <1>5, <1>7, <2>1, <2>2, <2>4, <2>5, Zenon DEF Progress, Readable
  <2>7. LoadOf(t)'
    <3>1. ~Past(t)'
      BY <1>2, <1>3, <2>1, Zenon DEF Past
    <3> QED
      BY <1>1, <2>1, <3>1, Zenon DEF LoadOf
  <2>8. \A u \in ConfigKeys \ {t} : LoadOf(u)'
    BY <1>1, <1>2, <2>1, <2>2, OtherType, Zenon DEF LoadedInv
  <2> QED
    BY <2>6, <2>7, <2>8, Zenon DEF LoadedInv
<1> QED
  BY <1>6, <1>7


LEMMA ProcessLoaded == Inv /\ ProcessLine /\ handled = None => LoadedInv'
<1> SUFFICES ASSUME Inv, ProcessLine, handled = None PROVE LoadedInv'
  OBVIOUS
<1>1. /\ LoadInv /\ TypeOK /\ MapsTypeOK /\ LoadedInv /\ Progress /\ reading /\ rest # <<>>
      /\ rest' = Tail(rest) /\ input' = input /\ UNCHANGED <<type, reading, first_line, fd>>
      /\ Significant(Head(rest)) /\ ~first_line /\ file' = file
  BY Zenon DEF ProcessLine, Inv, TypeOK, LoadedInv, input
<1>2. PICK t \in ConfigKeys, n \in Nat :
        /\ type = t /\ LinesRead = n /\ file[t] \in Seq(Seq(Words))
        /\ n + 1 <= Len(file[t]) /\ Head(rest) = file[t][n + 1] /\ Head(rest) \in Seq(Words)
  BY <1>1, AtLine, Zenon
<1> DEFINE line == file[t][n + 1]
<1>3. line # <<>> /\ Significant(line) /\ line \in Seq(Words) /\ line = Head(rest)
  BY <1>1, <1>2, Zenon DEF Significant
<1>4. fd[t].data
  <2>1. fd[t] = [data |-> TRUE, state |-> TRUE]
    BY <1>1, <1>2, Zenon DEF Progress
  <2> QED
    BY <2>1
<1>5. Holds(t, n)
  BY <1>1, <1>2, Zenon DEF Progress
<1> SUFFICES (\A u \in ConfigKeys \ {t} : Kept(u)) /\ config_state_map'[t] = config_state_map[t]
             /\ Holds(t, n + 1)'
  BY <1>1, <1>2, LineRead, Zenon
<1> HIDE DEF line
<1>6. ASSUME UNCHANGED configMaps, t \in Lists => parse_subnet(line[1]) = {},
             t = "ratelimit" => \A ip \in IPs : ParsedLimits(line, ip) = {}
      PROVE  (\A u \in ConfigKeys \ {t} : Kept(u)) /\ config_state_map'[t] = config_state_map[t]
             /\ Holds(t, n + 1)'
  <2>1. Holds(t, n + 1)
    BY <1>5, <1>6, HoldsSkip, Zenon DEF line
  <2> QED
    BY <1>1, <1>6, <2>1, HoldsSame, Zenon DEF Kept, configMaps
<1>7. CASE line \in {enabled, disabled}
  BY <1>3, <1>6, <1>7, StateLine, Zenon DEF ProcessLine
<1>8. CASE line \notin {enabled, disabled} /\ t \in Lists
  <2>1. updateConfig(t, command_line(t, line)) /\ t # "ratelimit"
    BY <1>2, <1>3, <1>8, Zenon DEF ProcessLine, Lists
  <2>2. CASE parse_subnet(line[1]) = {} /\ UNCHANGED configMaps
    BY <1>6, <2>1, <2>2, Zenon
  <2>3. ASSUME NEW key \in Keys, parse_subnet(line[1]) = {key}, add_ip_subnets(t, key)
        PROVE  /\ \A u \in ConfigKeys \ {t} : Kept(u)
               /\ config_state_map'[t] = config_state_map[t] /\ Holds(t, n + 1)'
    <3>1. Holds(t, n + 1)'
      BY <1>1, <1>2, <1>3, <1>5, <1>8, <2>3, HoldsAdd, Zenon DEF line
    <3>2. \A u \in Lists \ {t} : subnets_map'[u] = subnets_map[u]
      BY <1>1, <1>8, <2>3, AddCovers, Zenon
    <3> QED
      BY <2>3, <3>1, <3>2, Zenon DEF Kept, add_ip_subnets
  <2> QED
    BY <1>3, <1>4, <1>8, <2>1, <2>2, <2>3, ListLine, Zenon
<1>9. CASE line \notin {enabled, disabled} /\ t = "ratelimit"
  <2> DEFINE cl == command_line(t, line)
  <2>1. updateConfig(t, cl) /\ t \notin Lists
    BY <1>2, <1>3, <1>9, Zenon DEF ProcessLine, Lists
  <2>2. cl \in Seq(Words) /\ Word(cl, 1) \in {word("add"), word("remove")}
    BY <1>3, <1>9, CommandLine, LimitCommand, Zenon
  <2>3. \A ip \in IPs : ParsedLimits(line, ip) = CommandLimits(cl, ip)
    BY <1>3, <1>9, LimitCommand, Zenon
  <2> HIDE DEF cl
  <2>4. CASE (\A ip \in IPs : CommandLimits(cl, ip) = {}) /\ UNCHANGED configMaps
    BY <1>6, <2>1, <2>3, <2>4, Zenon
  <2>5. ASSUME NEW ip \in IPs, \A o \in IPs \ {ip} : CommandLimits(cl, o) = {},
               \/ \E pps \in Pps : /\ CommandLimits(cl, ip) = {NsPerSec \div pps}
                                   /\ add_rate_limit(ip, pps)
               \/ CommandLimits(cl, ip) = {None} /\ remove_rate_limit(ip)
        PROVE  /\ \A u \in ConfigKeys \ {t} : Kept(u)
               /\ config_state_map'[t] = config_state_map[t] /\ Holds(t, n + 1)'
    <3>1. UNCHANGED <<config_state_map, subnets_map>>
      BY <2>5, Zenon DEF add_rate_limit, remove_rate_limit
    <3>2. \/ \E pps \in Pps : /\ ParsedLimits(line, ip) = {NsPerSec \div pps}
                               /\ add_rate_limit(ip, pps)
          \/ ParsedLimits(line, ip) = {None} /\ remove_rate_limit(ip)
      BY <2>3, <2>5, Zenon
    <3>3. \A o \in IPs \ {ip} : ParsedLimits(line, o) = {}
      BY <2>3, <2>5, Zenon
    <3>4. Holds(t, n + 1)'
      BY <1>1, <1>5, <1>9, <3>2, <3>3, HoldsLimit, Zenon DEF line
    <3> QED
      BY <1>9, <3>1, <3>4, Zenon DEF Kept
  <2> QED
    BY <1>4, <1>9, <2>1, <2>2, <2>4, <2>5, LimitUpdate, Zenon
<1> QED
  BY <1>7, <1>8, <1>9, Zenon DEF ConfigKeys

LEMMA EndLoaded == Inv /\ EndOfFile /\ handled = None => LoadedInv'
<1> SUFFICES ASSUME Inv, EndOfFile, handled = None PROVE LoadedInv'
  OBVIOUS
<1>1. /\ LoadInv /\ TypeOK /\ LoadedInv /\ Progress /\ reading /\ rest = <<>>
      /\ Return /\ ~reading' /\ input' = input /\ file' = file
  BY Zenon DEF EndOfFile, Return, Inv, LoadedInv, input
<1>2. PICK t \in ConfigKeys, n \in Nat :
        /\ type = t /\ LinesRead = n /\ n \in 0 .. Len(file[t])
        /\ file[t] \in Seq(Seq(Words)) /\ n = Len(file[t])
  BY <1>1, AtLine, Zenon
<1>3. Past(t)'
  BY <1>1, <1>2, PastOf, Zenon
<1>4. AsWritten(t)' /\ \A u \in ConfigKeys \ {t} : Kept(u)
  <2>1. CASE first_line
    <3>1. ~Past(t) /\ Untouched(t)
      BY <1>1, <1>2, <2>1, PastOf, Zenon DEF LoadedInv, LoadOf
    <3>2. \A i \in 1 .. n : ~Significant(file[t][i])
      BY <1>1, <1>2, <2>1, Zenon DEF Progress
    <3>3. Enables(t, file[t]) <=> t = "blacklist"
      BY <1>2, <3>2, EnablesNone, Zenon
    <3>4. /\ config_state_map'[t] = IF t = "blacklist" THEN 1 ELSE 0
          /\ UNCHANGED <<subnets_map, ip_rate_limits_map>>
          /\ \A u \in ConfigKeys \ {t} : Kept(u)
      <4>1. set_state(t, IF t = "blacklist" THEN 1 ELSE 0)
        BY <1>2, <2>1, Zenon DEF EndOfFile
      <4> QED
        BY <1>1, <1>2, <4>1, Switched, Zenon
    <3>5. Holds(t, n)'
      <4>1. Holds(t, n)
        BY <1>2, <3>1, <3>2, HoldsNothing, Zenon DEF Untouched
      <4> QED
        BY <1>1, <3>4, <4>1, HoldsSame, Zenon
    <3>6. config_state_map'[t] = 1 <=> t = "blacklist"
      BY <3>4
    <3> QED
      BY <1>1, <1>2, <3>3, <3>4, <3>5, <3>6, Zenon DEF AsWritten
  <2>2. CASE ~first_line
    <3>1. UNCHANGED configMaps
      BY <2>2, Zenon DEF EndOfFile
    <3>2. config_state_map[t] = 1 /\ Enables(t, file[t]) /\ Holds(t, n)
      BY <1>1, <1>2, <2>2, Zenon DEF Progress
    <3>3. Holds(t, n)'
      BY <1>1, <3>1, <3>2, HoldsSame, Zenon DEF configMaps
    <3> QED
      BY <1>1, <1>2, <3>1, <3>2, <3>3, Zenon DEF AsWritten, Kept, configMaps
  <2> QED
    BY <2>1, <2>2
<1>5. LoadOf(t)'
  BY <1>3, <1>4, Zenon DEF LoadOf
<1>6. \A u \in ConfigKeys \ {t} : LoadOf(u)'
  BY <1>1, <1>2, <1>4, OtherType, Zenon DEF LoadedInv
<1> QED
  BY <1>1, <1>5, <1>6, Zenon DEF LoadedInv


-----------------------------------------------------------------------------
(* The theorems. *)

LEMMA InitInv == Init => Inv
<1> SUFFICES ASSUME Init PROVE Inv
  OBVIOUS
<1>1. type = "blacklist" /\ ~reading /\ rest = <<>> /\ first_line = TRUE /\ handled = None
      /\ file \in Files /\ MapsInit
  BY Zenon DEF Init
<1>2. LoadInv
  BY <1>1 DEF LoadInv, ConfigKeys, Lists
<1>3. MapsTypeOK
  BY <1>1 DEF MapsInit, MapsTypeOK
<1>4. TypeOK
  <2>1. fd \in [ConfigKeys -> [data : BOOLEAN, state : BOOLEAN]]
    BY DEF Init
  <2>2. reading \in BOOLEAN
    BY Zenon DEF Init
  <2> QED
    BY <1>1, <1>2, <1>3, <2>1, <2>2, Zenon DEF Init, TypeOK, LoadInv
<1>5. ASSUME NEW t \in ConfigKeys PROVE LoadOf(t)
  <2>1. ~Past(t)
    BY <1>1, Zenon DEF Past, ConfigKeys, Lists
  <2>2. config_state_map[t] = 0 /\ NoData(t)
    BY <1>1 DEF MapsInit, NoData
  <2> QED
    BY <2>1, <2>2, Zenon DEF LoadOf, Untouched
<1> QED
  BY <1>1, <1>2, <1>4, <1>5, Zenon DEF Inv, LoadedInv

LEMMA NextInv == Inv /\ [Next]_vars => Inv'
<1> SUFFICES ASSUME Inv, [Next]_vars PROVE Inv'
  OBVIOUS
<1>1. LoadInv' /\ TypeOK'
  BY LoadStep, TypeStep, Zenon DEF Inv
<1>2. type' \in ConfigKeys => handled' = None
  <2>1. CASE loadAllConfigs
    <3>1. type \in ConfigKeys /\ handled' = handled
      BY <2>1, Zenon
      DEF Inv, LoadInv, loadAllConfigs, OpenConfig, SkipLine, FirstLine, ProcessLine, EndOfFile
    <3> QED
      BY <3>1, Zenon DEF Inv
  <2>2. ASSUME NEW m \in Messages, processEventMessage(m) PROVE type' \notin ConfigKeys
    BY <2>2 DEF processEventMessage, ConfigKeys, Lists
  <2>3. CASE UNCHANGED vars
    BY <2>3, Zenon DEF vars, Inv
  <2> QED
    BY <2>1, <2>2, <2>3, Zenon DEF Next
<1>3. ASSUME handled' = None PROVE LoadedInv'
  <2>1. ASSUME NEW m \in Messages, processEventMessage(m) PROVE FALSE
    BY <1>3, <2>1, TypesAssumption, Zenon DEF processEventMessage
  <2>2. CASE loadAllConfigs
    <3>1. handled = None
      BY <1>3, <2>2, Zenon
      DEF loadAllConfigs, OpenConfig, SkipLine, FirstLine, ProcessLine, EndOfFile
    <3> QED
      BY <2>2, <3>1, OpenLoaded, SkipLoaded, FirstLoaded, ProcessLoaded, EndLoaded, Zenon
      DEF loadAllConfigs
  <2>3. CASE UNCHANGED vars
    <3>1. LoadedInv /\ UNCHANGED <<type, reading, rest, first_line, fd>>
          /\ UNCHANGED configMaps /\ UNCHANGED <<file, fds>>
      BY <1>3, <2>3, Zenon DEF vars, Inv, input
    <3>2. \A t, n : Holds(t, n)' <=> Holds(t, n)
      BY <3>1, Zenon DEF Holds, Listed, configMaps
    <3>3. LinesRead' = LinesRead
      BY <3>1, Zenon DEF LinesRead
    <3>4. Progress <=> Progress'
      BY <3>1, <3>2, <3>3, Zenon DEF Progress, Readable, configMaps
    <3>5. ASSUME NEW t \in ConfigKeys PROVE LoadOf(t)'
      BY <3>1, <3>2, Zenon
      DEF LoadedInv, LoadOf, Past, Readable, Untouched, NoData, AsWritten, configMaps
    <3> QED
      BY <3>1, <3>4, <3>5, Zenon DEF LoadedInv
  <2> QED
    BY <2>1, <2>2, <2>3, Zenon DEF Next
<1> QED
  BY <1>1, <1>2, <1>3, Zenon DEF Inv

\* The inductive invariant of loading holds in every state.
LEMMA InvCorrect == Spec => []Inv
  BY InitInv, NextInv, PTL DEF Spec

\* The parsers and the reference reading agree on a word without a number that
\* wraps.
LEMMA NamedParsed ==
  ASSUME NEW w \in Words, Unwrapped(w)
  PROVE  /\ NamedSubnet(w) = parse_subnet(w)
         /\ NamedLimit(w) = {NsPerSec \div pps : pps \in parse_pps(w)}
<1>1. WordMod \in Nat /\ WordMod > 0 /\ Pps = 1 .. WordMod - 1
  BY TypesAssumption, AddressAssumption DEF TypesConstants
<1>2. ASSUME NEW n \in Nat, n < WordMod PROVE n % WordMod = n
  BY <1>1, <1>2
<1>3. NamedSubnet(w) = parse_subnet(w)
  <2>1. CASE w.is = "subnet"
    <3>1. w.len \in Nat /\ w.len < WordMod
      BY <2>1 DEF Words, Unwrapped
    <3>2. w.len % WordMod = w.len
      BY <1>2, <3>1
    <3> QED
      BY <3>2, Zenon DEF NamedSubnet, parse_subnet
  <2> QED
    BY <2>1, Zenon DEF NamedSubnet, parse_subnet
<1>4. NamedLimit(w) = {NsPerSec \div pps : pps \in parse_pps(w)}
  <2>1. CASE w.is = "number"
    <3>1. w.n \in Nat
      BY <2>1 DEF Words, Unwrapped
    <3>2. CASE w.n \in Pps
      <4>1. /\ w.n \in 1 - WordMod .. WordMod - 1 /\ w.n # 0
            /\ w.n % WordMod = w.n
        BY <1>1, <1>2, <3>1, <3>2
      <4>2. parse_pps(w) = {w.n}
        BY <2>1, <4>1, Zenon DEF parse_pps
      <4> QED
        BY <2>1, <3>2, <4>2, Zenon DEF NamedLimit
    <3>3. CASE w.n \notin Pps
      <4>1. ~(w.n \in 1 - WordMod .. WordMod - 1 /\ w.n # 0)
        BY <1>1, <3>1, <3>3
      <4> QED
        BY <3>3, <4>1, Zenon DEF NamedLimit, parse_pps
    <3> QED
      BY <3>2, <3>3
  <2>2. CASE w.is # "number"
    BY <2>2, Zenon DEF NamedLimit, parse_pps
  <2> QED
    BY <2>1, <2>2
<1> QED
  BY <1>3, <1>4

LEMMA LimitsParsed ==
  ASSUME NEW line \in Seq(Words), \A j \in DOMAIN line : Unwrapped(line[j]), NEW ip
  PROVE  LineLimits(line, ip) = ParsedLimits(line, ip)
<1>1. ASSUME NEW i \in {2, 3}
      PROVE  NamedLimit(Word(line, i)) = {NsPerSec \div pps : pps \in parse_pps(Word(line, i))}
  <2>1. CASE i <= Len(line)
    <3>1. i \in DOMAIN line /\ line[i] \in Words
      BY <2>1
    <3>2. Word(line, i) \in Words /\ Unwrapped(Word(line, i))
      BY <2>1, <3>1, Zenon DEF Word
    <3> QED
      BY <3>2, NamedParsed
  <2>2. CASE ~(i <= Len(line))
    <3>1. Word(line, i).is = "word"
      BY <2>2, Zenon DEF Word, word
    <3> QED
      BY <3>1 DEF NamedLimit, parse_pps
  <2> QED
    BY <2>1, <2>2
<1>2. /\ NamedLimit(Word(line, 2)) = {NsPerSec \div pps : pps \in parse_pps(Word(line, 2))}
      /\ NamedLimit(Word(line, 3)) = {NsPerSec \div pps : pps \in parse_pps(Word(line, 3))}
  BY <1>1
<1> QED
  BY <1>2, Zenon DEF LineLimits, ParsedLimits

\* A set of line numbers has a last one: the least of its upper bounds.
LEMMA LastLine ==
  ASSUME NEW n \in Nat, NEW S, S \subseteq 1 .. n, S # {}
  PROVE  Max(S) \in S
<1> DEFINE R == OpToRel(<, Nat)
           U == {u \in Nat : \A y \in S : y <= u}
<1>1. IsWellFoundedOn(R, Nat)
  BY NatLessThanWellFounded, Zenon
<1>2. \A x, y \in Nat : y < x => <<y, x>> \in R
  BY DEF OpToRel
<1>3. n \in U /\ U \subseteq Nat
  OBVIOUS
<1> HIDE DEF R
<1>4. PICK x \in U : \A u \in U : ~(<<u, x>> \in R)
  BY <1>1, <1>3, WFMin, Zenon
<1>5. x \in Nat /\ \A y \in S : y \in 1 .. n /\ y <= x
  BY <1>4
<1>6. x - 1 \in Nat
  <2>1. PICK z \in S : TRUE
    OBVIOUS
  <2>2. z \in 1 .. n /\ z <= x
    BY <1>5, <2>1
  <2> QED
    BY <1>5, <2>2
<1>7. x - 1 \notin U
  <2>1. x - 1 < x
    BY <1>5
  <2>2. <<x - 1, x>> \in R
    BY <1>2, <1>5, <1>6, <2>1, Zenon
  <2> QED
    BY <1>4, <2>2, Zenon
<1>8. PICK y \in S : ~(y <= x - 1)
  BY <1>6, <1>7
<1>9. y = x
  BY <1>5, <1>8
<1>10. x \in S /\ \A z \in S : x >= z
  BY <1>5, <1>9
<1> QED
  BY <1>10, Zenon DEF Max

\* What the invariant says of a loaded type is what LoadedAsWritten says.
LEMMA InvWritten == Inv => LoadedAsWritten
<1> SUFFICES ASSUME Inv, NEW t \in ConfigKeys, Loaded(t)
             PROVE  /\ is_config_enabled(t) <=> FileEnables(t)
                    /\ FileEnables(t) /\ FileUnwrapped(t) =>
                         /\ t \in Lists /\ Cardinality(FileNames(t)) <= MaxEntries =>
                              \A ip \in IPs : Listed(t, ip) <=>
                                               \E key \in FileNames(t) : Covers(key, ip)
                         /\ t = "ratelimit" /\ Cardinality(IPs) <= MaxEntries =>
                              \A ip \in IPs : ip_rate_limits_map[ip] = FileLimit(ip)
  BY Zenon DEF LoadedAsWritten
<1>1. Past(t) /\ Readable(t) /\ handled = None
  BY Zenon DEF Loaded, Past, Readable
<1>2. AsWritten(t)
  BY <1>1, Zenon DEF Inv, LoadedInv, LoadOf
<1>3. file[t] \in Seq(Seq(Words))
  BY <1>1, FileType, Zenon DEF Inv, LoadInv, Readable
<1>4. /\ DOMAIN file[t] = 1 .. Len(file[t])
      /\ \A i \in DOMAIN file[t] : file[t][i] \in Seq(Words)
  BY <1>3
<1>5. FileEnables(t) <=> Enables(t, file[t])
  BY <1>4, Zenon DEF FileEnables, Enables, Meant
<1>6. ASSUME FileUnwrapped(t)
      PROVE  FileNames(t) = Names(file[t], Len(file[t]))
  <2>1. ASSUME NEW i \in DOMAIN file[t], Significant(file[t][i])
        PROVE  NamedSubnet(file[t][i][1]) = parse_subnet(file[t][i][1])
    <3>1. 1 \in DOMAIN file[t][i] /\ file[t][i][1] \in Words
      BY <1>4, <2>1 DEF Significant
    <3>2. Unwrapped(file[t][i][1])
      BY <1>6, <3>1, Zenon DEF FileUnwrapped
    <3> QED
      BY <3>1, <3>2, NamedParsed
  <2> QED
    BY <1>4, <2>1, Zenon DEF FileNames, Names
<1>7. ASSUME FileUnwrapped(t), t = "ratelimit", NEW ip
      PROVE  FileLimit(ip) = LimitAfter(file[t], Len(file[t]), ip)
  <2> DEFINE L == file["ratelimit"]
             S == {i \in DOMAIN L : LineLimits(L[i], ip) # {}}
  <2>1. \A i \in DOMAIN L : LineLimits(L[i], ip) = ParsedLimits(L[i], ip)
    <3> SUFFICES ASSUME NEW i \in DOMAIN L
                 PROVE  LineLimits(L[i], ip) = ParsedLimits(L[i], ip)
      OBVIOUS
    <3>1. L[i] \in Seq(Words) /\ \A j \in DOMAIN L[i] : Unwrapped(L[i][j])
      BY <1>4, <1>7, Zenon DEF FileUnwrapped
    <3> QED
      BY <3>1, LimitsParsed
  <2>2. S = LimitLines(L, Len(L), ip)
    <3>1. DOMAIN L = 1 .. Len(L)
      BY <1>4, <1>7
    <3>2. \A i \in 1 .. Len(L) : LineLimits(L[i], ip) = ParsedLimits(L[i], ip)
      BY <2>1, <3>1
    <3> HIDE DEF L
    <3>3. S = {i \in 1 .. Len(L) : LineLimits(L[i], ip) # {}}
      BY <3>1, Zenon
    <3>4. \A i : i \in S <=> i \in LimitLines(L, Len(L), ip)
      BY <3>2, <3>3, Zenon DEF LimitLines
    <3> HIDE DEF S
    <3> QED
      BY <3>4, Zenon
  <2>3. FileLimit(ip) = IF S = {} THEN None ELSE CHOOSE l \in LineLimits(L[Max(S)], ip) : TRUE
    BY Zenon DEF FileLimit
  <2>4. S # {} => Max(S) \in DOMAIN L
    <3>1. \A i \in S : i \in 1 .. Len(L)
      BY <1>4, <1>7, Zenon
    <3>2. Len(L) \in Nat
      BY <1>3, <1>7
    <3> HIDE DEF S
    <3>3. S # {} => Max(S) \in S
      BY <3>1, <3>2, LastLine
    <3> QED
      BY <1>4, <1>7, <3>1, <3>3, Zenon
  <2>5. FileLimit(ip) = Latest(L, S, ip)
    <3> HIDE DEF S, L
    <3>1. CASE S = {}
      BY <2>3, <3>1, Zenon DEF Latest
    <3>2. CASE S # {}
      BY <2>1, <2>3, <2>4, <3>2, Zenon DEF Latest
    <3> QED
      BY <3>1, <3>2
  <2> HIDE DEF S
  <2> QED
    BY <1>7, <2>2, <2>5, Zenon DEF LimitAfter
<1> QED
  BY <1>2, <1>5, <1>6, <1>7, Zenon DEF AsWritten, Holds, is_config_enabled


\* A step of loading, on a list being read, only adds to that list.
LEMMA ListGrows ==
  ASSUME Inv, ProcessLine, NEW t \in Lists, type = t, NEW ip \in IPs
  PROVE  /\ UNCHANGED config_state_map /\ (Listed(t, ip) => Listed(t, ip)')
         /\ \A u \in Lists \ {t} : subnets_map'[u] = subnets_map[u]
<1>1. /\ LoadInv /\ MapsTypeOK /\ LoadedInv /\ reading /\ rest # <<>>
      /\ Head(rest) # <<>> /\ Progress
  <2>1. type \in ConfigKeys
    BY Zenon DEF ConfigKeys
  <2> QED
    BY <2>1, Zenon DEF Inv, TypeOK, LoadedInv, ProcessLine, Significant
<1>2. Head(rest) \in Seq(Words)
  BY <1>1, AtLine, Zenon
<1>3. fd[t].data
  <2>1. fd[t] = [data |-> TRUE, state |-> TRUE]
    BY <1>1, Zenon DEF Progress
  <2> QED
    BY <2>1
<1>4. CASE UNCHANGED configMaps
  BY <1>4, Zenon DEF configMaps, Listed
<1>5. ASSUME NEW key \in Keys, add_ip_subnets(t, key)
      PROVE  /\ UNCHANGED config_state_map /\ (Listed(t, ip) => Listed(t, ip)')
             /\ \A u \in Lists \ {t} : subnets_map'[u] = subnets_map[u]
  <2>1. /\ Listed(t, ip) => Listed(t, ip)'
        /\ \A u \in Lists \ {t} : subnets_map'[u] = subnets_map[u]
    BY <1>1, <1>5, AddCovers, Zenon
  <2> QED
    BY <1>5, <2>1, Zenon DEF add_ip_subnets
<1> QED
  BY <1>1, <1>2, <1>3, <1>4, <1>5, ListLine, Zenon DEF ProcessLine

\* Loading the blacklist accepts no address that was rejected.
LEMMA BlacklistStep ==
  ASSUME Inv, [Next]_vars, NEW ip \in IPs, type = "blacklist", Rejected(ip)
  PROVE  Rejected(ip)'
<1>1. "blacklist" \in Lists /\ "whitelist" \in Lists \ {"blacklist"}
      /\ "blacklist" \in ConfigKeys /\ "whitelist" \in ConfigKeys
  BY DEF Lists, ConfigKeys
<1>2. LoadedInv /\ TypeOK
  BY <1>1, Zenon DEF Inv
<1>3. config_state_map["whitelist"] # 1
  <2>1. ~Past("whitelist") /\ type # "whitelist"
    BY DEF Past
  <2>2. config_state_map["whitelist"] = 0
    BY <1>1, <1>2, <2>1, Zenon DEF LoadedInv, LoadOf, Untouched
  <2> QED
    BY <2>2
<1>4. config_state_map["blacklist"] = 1 /\ Listed("blacklist", ip)
  BY <1>3, Zenon DEF Rejected, is_config_enabled
<1>5. CASE UNCHANGED configMaps
  BY <1>5, Zenon DEF configMaps, Rejected, is_config_enabled, Listed
<1>6. ASSUME FirstLine \/ (EndOfFile /\ first_line) PROVE FALSE
  <2>1. first_line /\ reading
    BY <1>6, Zenon DEF FirstLine, EndOfFile
  <2>2. ~Past("blacklist")
    BY DEF Past
  <2>3. config_state_map["blacklist"] = 0
    BY <1>1, <1>2, <2>1, <2>2, Zenon DEF LoadedInv, LoadOf, Untouched
  <2> QED
    BY <1>4, <2>3
<1>7. CASE ProcessLine
  <2>1. UNCHANGED config_state_map /\ Listed("blacklist", ip)'
    BY <1>1, <1>4, <1>7, ListGrows, Zenon
  <2> QED
    BY <1>4, <2>1, Zenon DEF Rejected, is_config_enabled
<1>8. ASSUME NEW m \in Messages, processEventMessage(m) PROVE FALSE
  BY <1>8 DEF processEventMessage
<1> QED
  BY <1>5, <1>6, <1>7, <1>8, Zenon
  DEF Next, loadAllConfigs, OpenConfig, SkipLine, EndOfFile, vars

\* Loading an enabled whitelist rejects no address that was accepted.
LEMMA WhitelistStep ==
  ASSUME Inv, [Next]_vars, NEW ip \in IPs, type = "whitelist", ~first_line, reading,
         Rejected(ip)'
  PROVE  Rejected(ip)
<1>1. "whitelist" \in Lists /\ "blacklist" \in Lists \ {"whitelist"}
  BY DEF Lists
<1>2. CASE UNCHANGED configMaps
  BY <1>2, Zenon DEF configMaps, Rejected, is_config_enabled, Listed
<1>3. CASE ProcessLine
  <2>1. /\ UNCHANGED config_state_map /\ (Listed("whitelist", ip) => Listed("whitelist", ip)')
        /\ subnets_map'["blacklist"] = subnets_map["blacklist"]
    BY <1>1, <1>3, ListGrows, Zenon
  <2>2. Listed("blacklist", ip)' <=> Listed("blacklist", ip)
    BY <2>1, Zenon DEF Listed
  <2> QED
    BY <2>1, <2>2, Zenon DEF Rejected, is_config_enabled
<1>4. ASSUME NEW m \in Messages, processEventMessage(m) PROVE FALSE
  BY <1>4 DEF processEventMessage
<1> QED
  BY <1>2, <1>3, <1>4, Zenon
  DEF Next, loadAllConfigs, OpenConfig, SkipLine, FirstLine, EndOfFile, vars

\* The state of loading and of the maps keeps its types, whatever the files and
\* the messages contain: no line makes loadConfig or updateConfig store a key
\* or a limit outside their range.
THEOREM TypeCorrect == Spec => []TypeOK
<1>1. Inv => TypeOK
  BY Zenon DEF Inv
<1> QED
  BY <1>1, InvCorrect, PTL

\* Once loadConfig of a type whose file could be read is over, and until the
\* first event, the type is in the state its file describes, for every file:
\* enabled as its first significant line says, covering the addresses of the
\* subnets it names, with the limit of the last line about an address.
THEOREM LoadedCorrect == Spec => []LoadedAsWritten
  BY InvCorrect, InvWritten, PTL

\* While main() loads the files with the program attached, a step of the
\* blacklist's loadConfig accepts no address that was rejected, and one of the
\* enabled whitelist's rejects none that was accepted.
THEOREM MonotoneCorrect == Spec => LoadMonotone
<1>1. Inv /\ [Next]_vars =>
        [ \A ip \in IPs :
            /\ type = "blacklist" /\ Rejected(ip) => Rejected(ip)'
            /\ type = "whitelist" /\ ~first_line /\ reading /\ Rejected(ip)' => Rejected(ip) ]_vars
  BY BlacklistStep, WhitelistStep, Zenon
<1> QED
  BY <1>1, InvCorrect, PTL DEF Spec, LoadMonotone

\* Loading any files and handling any messages implements the map updates of
\* FilterMaps: one valid key, one non-zero limit or one flag at a time.
THEOREM UpdatesRefineMaps == Spec => MapsSpec
<1>1. Init => MapsInit
  BY DEF Init
<1>2. Inv /\ [Next]_vars => [MapUpdate]_configMaps
  BY MapStep, Zenon DEF Inv
<1> QED
  BY <1>1, <1>2, InvCorrect, PTL DEF Spec, MapsSpec

-----------------------------------------------------------------------------
(* Messages. *)

\* The contents of a trie after add_ip_subnets and after remove_ip_subnets, and
\* the limits after add_rate_limit.
Added(S, key) ==
  LET others == {k \in S : ~SameNode(k, key)}
  IN  IF Cardinality(others) < MaxEntries THEN others \cup {key} ELSE S
Removed(S, key) == {k \in S : ~SameNode(k, key)}

LimitedIn(limits) == {ip \in IPs : limits[ip] # None}
Limiting(limits, ip, pps) ==
  IF ip \in LimitedIn(limits) \/ Cardinality(LimitedIn(limits)) < MaxEntries
  THEN [limits EXCEPT ![ip] = NsPerSec \div pps]
  ELSE limits

\* What updateConfig(t, line) does to the maps is done already.
Done(t, line) ==
  LET command == Word(line, 1)
      arg == Word(line, 2)
  IN  /\ fd[t].state => /\ command = word("enabled") => config_state_map[t] = 1
                        /\ command = word("disabled") => config_state_map[t] = 0
      /\ fd[t].data /\ t \in Lists => \A key \in parse_subnet(arg) :
           /\ command = word("add") => Added(subnets_map[t], key) = subnets_map[t]
           /\ command = word("remove") => Removed(subnets_map[t], key) = subnets_map[t]
      /\ fd[t].data /\ t = "ratelimit" /\ arg.is = "ip" =>
           /\ command = word("add") => \A pps \in parse_pps(Word(line, 3)) :
                Limiting(ip_rate_limits_map, arg.ip, pps) = ip_rate_limits_map
           /\ command = word("remove") => ip_rate_limits_map[arg.ip] = None

MessageDone(m) == m.type \in ConfigKeys => Done(m.type, m.line)

LEMMA Commands ==
  /\ word("add") # word("enabled") /\ word("add") # word("disabled")
  /\ word("remove") # word("enabled") /\ word("remove") # word("disabled")
  /\ word("add") # word("remove") /\ word("enabled") # word("disabled")
  BY WordTexts, Zenon DEF Texts

\* The cases of updateConfig.
Moot(t, line) ==
  /\ Word(line, 1) \notin {word("enabled"), word("disabled")}
  /\ ~fd[t].data \/ ~WellFormed(t, line)

ListCommand(t, line, text, key) ==
  /\ t \in Lists /\ fd[t].data /\ Word(line, 1) = word(text)
  /\ parse_subnet(Word(line, 2)) = {key}

LimitCommandOf(t, line, text) ==
  /\ t = "ratelimit" /\ fd[t].data /\ Word(line, 1) = word(text)
  /\ Word(line, 2).is = "ip" /\ Word(line, 2).ip \in IPs

LEMMA UpdateKinds ==
  ASSUME NEW t \in ConfigKeys, NEW l \in Seq(Words), updateConfig(t, l)
  PROVE  \/ Word(l, 1) = word("enabled") /\ set_state(t, 1)
         \/ Word(l, 1) = word("disabled") /\ set_state(t, 0)
         \/ \E key \in Keys : ListCommand(t, l, "add", key) /\ add_ip_subnets(t, key)
         \/ \E key \in Keys : ListCommand(t, l, "remove", key) /\ remove_ip_subnets(t, key)
         \/ /\ LimitCommandOf(t, l, "add")
            /\ \E pps \in Pps : /\ parse_pps(Word(l, 3)) = {pps}
                                /\ add_rate_limit(Word(l, 2).ip, pps)
         \/ LimitCommandOf(t, l, "remove") /\ remove_rate_limit(Word(l, 2).ip)
         \/ Moot(t, l) /\ UNCHANGED configMaps
<1>1. Word(l, 2) \in Words /\ Word(l, 3) \in Words
  BY WordType
<1>2. CASE Word(l, 1) = word("enabled")
  <2>1. ~WellFormed(t, l)
    BY <1>2, Commands, Zenon DEF WellFormed
  <2>2. set_state(t, 1)
    BY <1>2, <2>1, Commands, Zenon DEF updateConfig
  <2> QED
    BY <1>2, <2>2
<1>3. CASE Word(l, 1) = word("disabled")
  <2>1. ~WellFormed(t, l)
    BY <1>3, Commands, Zenon DEF WellFormed
  <2>2. set_state(t, 0)
    BY <1>3, <2>1, Commands, Zenon DEF updateConfig
  <2> QED
    BY <1>3, <2>2
<1>4. CASE Moot(t, l)
  BY <1>4, Zenon DEF updateConfig, Moot
<1>5. CASE /\ Word(l, 1) \notin {word("enabled"), word("disabled")}
           /\ fd[t].data /\ WellFormed(t, l)
  <2>1. Change(t, l)
    BY <1>5, Zenon DEF updateConfig
  <2>2. "ratelimit" \notin Lists /\ (t \in Lists \/ t = "ratelimit")
    BY DEF Lists, ConfigKeys
  <2>3. CASE t \in Lists
    <3>1. PICK key \in Keys : parse_subnet(Word(l, 2)) = {key}
      BY <1>1, <1>5, <2>3, OneSubnet DEF WellFormed
    <3>2. \/ Word(l, 1) = word("add") /\ add_ip_subnets(t, key)
          \/ Word(l, 1) = word("remove") /\ remove_ip_subnets(t, key)
      BY <2>1, <2>2, <2>3, <3>1, Zenon DEF Change
    <3> QED
      BY <1>5, <2>3, <3>1, <3>2, Zenon DEF ListCommand
  <2>4. CASE t = "ratelimit"
    <3>1. Word(l, 2).is = "ip" /\ Word(l, 2).ip \in IPs
      BY <1>1, <1>5, <2>2, <2>4 DEF WellFormed, Words
    <3>2. \/ /\ Word(l, 1) = word("add")
             /\ \E pps \in parse_pps(Word(l, 3)) : add_rate_limit(Word(l, 2).ip, pps)
          \/ Word(l, 1) = word("remove") /\ remove_rate_limit(Word(l, 2).ip)
      BY <2>1, <2>2, <2>4, Zenon DEF Change
    <3>3. CASE Word(l, 1) = word("add")
      <4>1. PICK pps \in parse_pps(Word(l, 3)) : add_rate_limit(Word(l, 2).ip, pps)
        BY <3>2, <3>3, Commands
      <4>2. PICK one \in Pps : parse_pps(Word(l, 3)) = {one}
        BY <1>1, <4>1, OnePps
      <4> QED
        BY <1>5, <2>4, <3>1, <3>3, <4>1, <4>2, Zenon DEF LimitCommandOf
    <3>4. CASE Word(l, 1) = word("remove")
      BY <1>5, <2>4, <3>1, <3>2, <3>4, Commands, Zenon DEF LimitCommandOf
    <3> QED
      BY <3>2, <3>3, <3>4
  <2> QED
    BY <2>2, <2>3, <2>4
<1> QED
  BY <1>2, <1>3, <1>4, <1>5, Zenon DEF Moot

\* Adding, removing or limiting twice is the same as once.
LEMMA Twice ==
  ASSUME NEW key
  PROVE  /\ \A S : Added(Added(S, key), key) = Added(S, key)
         /\ \A S : Removed(Removed(S, key), key) = Removed(S, key)
<1>1. SameNode(key, key)
  BY Zenon DEF SameNode, Covers
<1>2. ASSUME NEW S PROVE Removed(Removed(S, key), key) = Removed(S, key)
  BY DEF Removed
<1>3. ASSUME NEW S PROVE Added(Added(S, key), key) = Added(S, key)
  <2> DEFINE others == {k \in S : ~SameNode(k, key)}
  <2>1. CASE Cardinality(others) < MaxEntries
    <3> DEFINE T == others \cup {key}
    <3>1. Added(S, key) = T
      BY <2>1, Zenon DEF Added
    <3>2. {k \in T : ~SameNode(k, key)} = others
      BY <1>1
    <3>3. Added(T, key) = T
      BY <2>1, <3>2, Zenon DEF Added
    <3> QED
      BY <3>1, <3>3, Zenon
  <2>2. CASE ~(Cardinality(others) < MaxEntries)
    <3>1. Added(S, key) = S
      BY <2>2, Zenon DEF Added
    <3> QED
      BY <3>1, Zenon
  <2> QED
    BY <2>1, <2>2
<1> QED
  BY <1>2, <1>3, Zenon

LEMMA LimitTwice ==
  ASSUME NEW limits \in [IPs -> Intervals \cup {None}], NEW ip \in IPs, NEW pps \in Pps
  PROVE  Limiting(Limiting(limits, ip, pps), ip, pps) = Limiting(limits, ip, pps)
<1> DEFINE new == [limits EXCEPT ![ip] = NsPerSec \div pps]
<1>1. CASE ip \in LimitedIn(limits) \/ Cardinality(LimitedIn(limits)) < MaxEntries
  <2>1. Limiting(limits, ip, pps) = new
    BY <1>1, Zenon DEF Limiting
  <2>2. NsPerSec \div pps # None
    BY MapsAssumption
  <2>3. ip \in LimitedIn(new)
    BY <2>2 DEF LimitedIn
  <2>4. [new EXCEPT ![ip] = NsPerSec \div pps] = new
    OBVIOUS
  <2>5. Limiting(new, ip, pps) = new
    BY <2>3, <2>4, Zenon DEF Limiting
  <2> QED
    BY <2>1, <2>5, Zenon
<1>2. CASE ~(ip \in LimitedIn(limits) \/ Cardinality(LimitedIn(limits)) < MaxEntries)
  <2>1. Limiting(limits, ip, pps) = limits
    BY <1>2, Zenon DEF Limiting
  <2> QED
    BY <2>1, Zenon
<1> QED
  BY <1>1, <1>2

\* After updateConfig of a line its work is done ...
LEMMA UpdateDone ==
  ASSUME MapsTypeOK, NEW t \in ConfigKeys, NEW l \in Seq(Words), updateConfig(t, l), fd' = fd
  PROVE  Done(t, l)'
<1> DEFINE command == Word(l, 1)
           arg == Word(l, 2)
<1>1. /\ config_state_map \in [ConfigKeys -> {0, 1}] /\ subnets_map \in [Lists -> SUBSET Keys]
      /\ ip_rate_limits_map \in [IPs -> Intervals \cup {None}]
  BY Zenon DEF MapsTypeOK
<1>2. "ratelimit" \notin Lists
  BY DEF Lists
<1>3. CASE command = word("enabled") /\ set_state(t, 1)
  <2>1. fd[t].state => config_state_map'[t] = 1
    BY <1>1, <1>3 DEF set_state, SetState
  <2> QED
    BY <1>3, <2>1, Commands, Zenon DEF Done
<1>4. CASE command = word("disabled") /\ set_state(t, 0)
  <2>1. fd[t].state => config_state_map'[t] = 0
    BY <1>1, <1>4 DEF set_state, SetState
  <2> QED
    BY <1>4, <2>1, Commands, Zenon DEF Done
<1>5. ASSUME NEW key \in Keys, ListCommand(t, l, "add", key), add_ip_subnets(t, key)
      PROVE  Done(t, l)'
  <2>1. subnets_map'[t] = Added(subnets_map[t], key)
    BY <1>1, <1>5 DEF add_ip_subnets, Added, ListCommand
  <2>2. Added(subnets_map'[t], key) = subnets_map'[t]
    BY <2>1, Twice, Zenon
  <2> QED
    BY <1>2, <1>5, <2>2, Commands, Zenon DEF Done, ListCommand
<1>6. ASSUME NEW key \in Keys, ListCommand(t, l, "remove", key), remove_ip_subnets(t, key)
      PROVE  Done(t, l)'
  <2>1. subnets_map'[t] = Removed(subnets_map[t], key)
    BY <1>1, <1>6 DEF remove_ip_subnets, Removed, ListCommand
  <2>2. Removed(subnets_map'[t], key) = subnets_map'[t]
    BY <2>1, Twice, Zenon
  <2> QED
    BY <1>2, <1>6, <2>2, Commands, Zenon DEF Done, ListCommand
<1>7. ASSUME LimitCommandOf(t, l, "add"), NEW pps \in Pps, parse_pps(Word(l, 3)) = {pps},
             add_rate_limit(arg.ip, pps)
      PROVE  Done(t, l)'
  <2>1. ip_rate_limits_map' = Limiting(ip_rate_limits_map, arg.ip, pps)
    BY <1>7, Zenon DEF add_rate_limit, Limiting, LimitedIn, Limited
  <2>2. Limiting(ip_rate_limits_map', arg.ip, pps) = ip_rate_limits_map'
    BY <1>1, <1>7, <2>1, LimitTwice DEF LimitCommandOf
  <2> QED
    BY <1>2, <1>7, <2>2, Commands, Zenon DEF Done, LimitCommandOf
<1>8. CASE LimitCommandOf(t, l, "remove") /\ remove_rate_limit(arg.ip)
  <2>1. ip_rate_limits_map'[arg.ip] = None
    BY <1>1, <1>8 DEF remove_rate_limit, LimitCommandOf
  <2> QED
    BY <1>2, <1>8, <2>1, Commands, Zenon DEF Done, LimitCommandOf
<1>9. CASE Moot(t, l)
  <2>1. command # word("enabled") /\ command # word("disabled")
    BY <1>9, Zenon DEF Moot
  <2>2. CASE ~fd[t].data
    BY <2>1, <2>2, Zenon DEF Done
  <2>3. CASE ~WellFormed(t, l)
    <3>1. t \in Lists /\ command \in {word("add"), word("remove")} => parse_subnet(arg) = {}
      BY <2>3, Zenon DEF WellFormed
    <3>2. t = "ratelimit" /\ arg.is = "ip" =>
            command # word("remove") /\ (command = word("add") => parse_pps(Word(l, 3)) = {})
      BY <1>2, <2>3, Commands, Zenon DEF WellFormed
    <3> QED
      BY <2>1, <3>1, <3>2, Zenon DEF Done
  <2> QED
    BY <1>9, <2>2, <2>3, Zenon DEF Moot
<1> QED
  BY <1>3, <1>4, <1>5, <1>6, <1>7, <1>8, <1>9, UpdateKinds, Zenon

\* ... and to do it again changes no map.
LEMMA DoneNoop ==
  ASSUME MapsTypeOK, NEW t \in ConfigKeys, NEW l \in Seq(Words), updateConfig(t, l), Done(t, l)
  PROVE  UNCHANGED configMaps
<1> DEFINE command == Word(l, 1)
           arg == Word(l, 2)
<1>1. /\ config_state_map \in [ConfigKeys -> {0, 1}] /\ subnets_map \in [Lists -> SUBSET Keys]
      /\ ip_rate_limits_map \in [IPs -> Intervals \cup {None}]
  BY Zenon DEF MapsTypeOK
<1>2. ASSUME NEW text \in {"enabled", "disabled"}, NEW v, command = word(text),
             v = IF text = "enabled" THEN 1 ELSE 0, set_state(t, v)
      PROVE  UNCHANGED configMaps
  <2>1. CASE fd[t].state
    <3>1. config_state_map[t] = v
      BY <1>2, <2>1, Commands, Zenon DEF Done
    <3>2. config_state_map' = config_state_map /\ UNCHANGED <<subnets_map, ip_rate_limits_map>>
      BY <1>1, <1>2, <2>1, <3>1 DEF set_state, SetState
    <3> QED
      BY <3>2 DEF configMaps
  <2>2. CASE ~fd[t].state
    BY <1>2, <2>2, Zenon DEF set_state
  <2> QED
    BY <2>1, <2>2
<1>3. ASSUME NEW key \in Keys, ListCommand(t, l, "add", key), add_ip_subnets(t, key)
      PROVE  UNCHANGED configMaps
  <2>1. t \in Lists /\ Added(subnets_map[t], key) = subnets_map[t]
    BY <1>3, Zenon DEF Done, ListCommand
  <2>2. subnets_map' = [subnets_map EXCEPT ![t] = Added(subnets_map[t], key)]
    BY <1>1, <1>3, <2>1 DEF add_ip_subnets, Added
  <2>3. subnets_map' = subnets_map
    BY <1>1, <2>1, <2>2
  <2> QED
    BY <1>3, <2>3 DEF add_ip_subnets, configMaps
<1>4. ASSUME NEW key \in Keys, ListCommand(t, l, "remove", key), remove_ip_subnets(t, key)
      PROVE  UNCHANGED configMaps
  <2>1. t \in Lists /\ Removed(subnets_map[t], key) = subnets_map[t]
    BY <1>4, Zenon DEF Done, ListCommand
  <2>2. subnets_map' = [subnets_map EXCEPT ![t] = Removed(subnets_map[t], key)]
    BY <1>1, <1>4, <2>1 DEF remove_ip_subnets, Removed
  <2>3. subnets_map' = subnets_map
    BY <1>1, <2>1, <2>2
  <2> QED
    BY <1>4, <2>3 DEF remove_ip_subnets, configMaps
<1>5. ASSUME LimitCommandOf(t, l, "add"), NEW pps \in Pps, parse_pps(Word(l, 3)) = {pps},
             add_rate_limit(arg.ip, pps)
      PROVE  UNCHANGED configMaps
  <2>1. ip_rate_limits_map' = Limiting(ip_rate_limits_map, arg.ip, pps)
    BY <1>5, Zenon DEF add_rate_limit, Limiting, LimitedIn, Limited
  <2>2. Limiting(ip_rate_limits_map, arg.ip, pps) = ip_rate_limits_map
    BY <1>5, Zenon DEF Done, LimitCommandOf
  <2> QED
    BY <1>5, <2>1, <2>2, Zenon DEF add_rate_limit, configMaps
<1>6. CASE LimitCommandOf(t, l, "remove") /\ remove_rate_limit(arg.ip)
  <2>1. arg.ip \in IPs /\ ip_rate_limits_map[arg.ip] = None
    BY <1>6, Zenon DEF Done, LimitCommandOf
  <2>2. ip_rate_limits_map' = ip_rate_limits_map
    BY <1>1, <1>6, <2>1 DEF remove_rate_limit
  <2> QED
    BY <1>6, <2>2, Zenon DEF remove_rate_limit, configMaps
<1>7. command = word("enabled") /\ set_state(t, 1) => UNCHANGED configMaps
  BY <1>2
<1>8. command = word("disabled") /\ set_state(t, 0) => UNCHANGED configMaps
  BY <1>2
<1> QED
  BY <1>3, <1>4, <1>5, <1>6, <1>7, <1>8, UpdateKinds, Zenon

HandledDone == handled # None => MessageDone(handled)

LEMMA MessageType ==
  ASSUME NEW m \in Messages PROVE m.line \in Seq(Words) /\ m # None
  BY TypesAssumption DEF TypesConstants

\* Loading is over when a message is handled.
LEMMA HandledLate == Inv /\ handled # None /\ [Next]_vars =>
  (\E m \in Messages : processEventMessage(m)) \/ UNCHANGED vars
<1> SUFFICES ASSUME Inv, handled # None, loadAllConfigs PROVE FALSE
  BY Zenon DEF Next
<1>1. type \notin ConfigKeys /\ ~reading
  BY Zenon DEF Inv, LoadInv
<1> QED
  BY <1>1, Zenon DEF loadAllConfigs, OpenConfig, SkipLine, FirstLine, ProcessLine, EndOfFile

LEMMA HandledStep == Inv /\ HandledDone /\ [Next]_vars => HandledDone'
<1> SUFFICES ASSUME Inv, HandledDone, [Next]_vars PROVE HandledDone'
  OBVIOUS
<1>1. ASSUME NEW m \in Messages, processEventMessage(m) PROVE MessageDone(m)'
  <2>1. MapsTypeOK /\ fd' = fd /\ m.line \in Seq(Words)
    BY <1>1, MessageType, Zenon DEF Inv, TypeOK, processEventMessage
  <2>2. CASE m.type \in ConfigKeys
    <3>1. updateConfig(m.type, m.line)
      BY <1>1, <2>2, Zenon DEF processEventMessage
    <3>2. Done(m.type, m.line)'
      BY <2>1, <2>2, <3>1, UpdateDone
    <3> QED
      BY <3>2 DEF MessageDone
  <2>3. CASE m.type \notin ConfigKeys
    BY <2>3 DEF MessageDone
  <2> QED
    BY <2>2, <2>3
<1>2. ASSUME NEW m \in Messages, processEventMessage(m) PROVE HandledDone'
  <2>1. handled' = m
    BY <1>2, Zenon DEF processEventMessage
  <2> QED
    BY <1>1, <1>2, <2>1, Zenon DEF HandledDone
<1>3. CASE loadAllConfigs
  <2>1. handled = None
    <3>1. type \in ConfigKeys
      BY <1>3, Zenon DEF Inv, LoadInv, loadAllConfigs, OpenConfig, SkipLine, FirstLine,
                         ProcessLine, EndOfFile
    <3> QED
      BY <3>1, Zenon DEF Inv
  <2>2. handled' = handled
    BY <1>3, Zenon DEF loadAllConfigs, OpenConfig, SkipLine, FirstLine, ProcessLine, EndOfFile
  <2> QED
    BY <2>1, <2>2 DEF HandledDone
<1>4. CASE UNCHANGED vars
  <2>1. fd' = fd /\ handled' = handled /\ config_state_map' = config_state_map
        /\ subnets_map' = subnets_map /\ ip_rate_limits_map' = ip_rate_limits_map
    BY <1>4, Zenon DEF vars, configMaps
  <2> QED
    BY <2>1, Zenon DEF HandledDone, MessageDone, Done
<1> QED
  BY <1>2, <1>3, <1>4 DEF Next

LEMMA RepeatStep ==
  Inv /\ HandledDone /\ [Next]_vars =>
    (handled # None /\ handled' = handled => UNCHANGED configMaps)
<1> SUFFICES ASSUME Inv, HandledDone, [Next]_vars, handled # None, handled' = handled
             PROVE  UNCHANGED configMaps
  OBVIOUS
<1>1. ASSUME NEW m \in Messages, processEventMessage(m) PROVE UNCHANGED configMaps
  <2>1. m = handled
    BY <1>1, Zenon DEF processEventMessage
  <2>2. MapsTypeOK /\ m.line \in Seq(Words) /\ MessageDone(m)
    BY <2>1, MessageType, Zenon DEF Inv, TypeOK, HandledDone
  <2>3. CASE m.type \in ConfigKeys
    <3>1. updateConfig(m.type, m.line) /\ Done(m.type, m.line)
      BY <1>1, <2>2, <2>3, Zenon DEF processEventMessage, MessageDone
    <3> QED
      BY <2>2, <2>3, <3>1, DoneNoop
  <2>4. CASE m.type \notin ConfigKeys
    BY <1>1, <2>4, Zenon DEF processEventMessage
  <2> QED
    BY <2>3, <2>4
<1>2. CASE UNCHANGED vars
  BY <1>2, Zenon DEF vars
<1> QED
  BY <1>1, <1>2, HandledLate

\* With descriptors, a message whose work is done is in effect.
LEMMA DoneEffective ==
  ASSUME MapsTypeOK, NEW m \in Messages, MessageDone(m),
         m.type \in ConfigKeys => fd[m.type].data /\ fd[m.type].state
  PROVE  Effective(m)
<1> SUFFICES ASSUME m.type \in ConfigKeys PROVE Effective(m)
  BY Zenon DEF Effective
<1> DEFINE t == m.type
           arg == Word(m.line, 2)
<1>1. fd[t].data /\ fd[t].state /\ Done(t, m.line)
  BY DEF MessageDone
<1>2. subnets_map \in [Lists -> SUBSET Keys] /\ ip_rate_limits_map \in [IPs -> Intervals \cup {None}]
  BY Zenon DEF MapsTypeOK
<1>3. /\ Word(m.line, 1) = word("enabled") => is_config_enabled(t)
      /\ Word(m.line, 1) = word("disabled") => ~is_config_enabled(t)
  <2>1. 0 # 1
    OBVIOUS
  <2> QED
    BY <1>1, <2>1, Zenon DEF Done, is_config_enabled
<1>4. ASSUME t \in Lists, NEW key \in parse_subnet(arg), Word(m.line, 1) = word("add")
      PROVE  \/ \E k \in subnets_map[t] : SameNode(k, key)
             \/ Cardinality(subnets_map[t]) >= MaxEntries
  <2> DEFINE S == subnets_map[t]
             others == {k \in S : ~SameNode(k, key)}
  <2>1. Added(S, key) = S
    BY <1>1, <1>4, Zenon DEF Done
  <2>2. CASE Cardinality(others) < MaxEntries
    <3>1. key \in S
      BY <2>1, <2>2 DEF Added
    <3>2. SameNode(key, key)
      BY Zenon DEF SameNode, Covers
    <3> QED
      BY <3>1, <3>2
  <2>3. CASE ~(Cardinality(others) < MaxEntries)
    <3>1. IsFiniteSet(S)
      BY <1>2, <1>4, KeysFinite, FS_Subset
    <3>2. IsFiniteSet(others) /\ Cardinality(others) <= Cardinality(S)
      BY <3>1, FS_Subset
    <3>3. Cardinality(others) \in Nat /\ Cardinality(S) \in Nat
      BY <3>1, <3>2, FS_CardinalityType
    <3> HIDE DEF S, others
    <3>4. Cardinality(S) >= MaxEntries
      BY <2>3, <3>2, <3>3, MapsAssumption
    <3> QED
      BY <3>4 DEF S
  <2> QED
    BY <2>2, <2>3
<1>5. ASSUME t \in Lists, NEW key \in parse_subnet(arg), Word(m.line, 1) = word("remove")
      PROVE  ~\E k \in subnets_map[t] : SameNode(k, key)
  <2>1. Removed(subnets_map[t], key) = subnets_map[t]
    BY <1>1, <1>5, Zenon DEF Done
  <2> QED
    BY <2>1 DEF Removed
<1>6. ASSUME t = "ratelimit", arg.is = "ip", NEW pps \in parse_pps(Word(m.line, 3)),
             Word(m.line, 1) = word("add")
      PROVE  ip_rate_limits_map[arg.ip] = NsPerSec \div pps \/ Cardinality(Limited) >= MaxEntries
  <2>1. Limiting(ip_rate_limits_map, arg.ip, pps) = ip_rate_limits_map
    BY <1>1, <1>6, Zenon DEF Done
  <2>2. arg.ip \in IPs
    <3>1. arg \in Words
      BY WordType, MessageType
    <3> QED
      BY <1>6, <3>1 DEF Words
  <2>3. CASE Cardinality(Limited) < MaxEntries
    <3>1. ip_rate_limits_map = [ip_rate_limits_map EXCEPT ![arg.ip] = NsPerSec \div pps]
      BY <2>1, <2>3, Zenon DEF Limiting, LimitedIn, Limited
    <3> QED
      BY <1>2, <2>2, <3>1
  <2>4. CASE ~(Cardinality(Limited) < MaxEntries)
    <3>1. IsFiniteSet(Limited)
      BY AddressAssumption, FS_Subset DEF Limited
    <3>2. Cardinality(Limited) \in Nat
      BY <3>1, FS_CardinalityType
    <3> QED
      BY <2>4, <3>2, MapsAssumption
  <2> QED
    BY <2>3, <2>4
<1>7. t = "ratelimit" /\ arg.is = "ip" /\ Word(m.line, 1) = word("remove") =>
        ip_rate_limits_map[arg.ip] = None
  BY <1>1, Zenon DEF Done
<1> QED
  BY <1>3, <1>4, <1>5, <1>6, <1>7, Zenon DEF Effective

LEMMA HandledCorrect == Spec => [](Inv /\ HandledDone)
<1>1. Init => HandledDone
  BY DEF Init, HandledDone
<1> QED
  BY <1>1, InitInv, NextInv, HandledStep, PTL DEF Spec

=============================================================================

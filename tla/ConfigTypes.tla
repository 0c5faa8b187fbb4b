------------------------------ MODULE ConfigTypes -----------------------------
(***************************************************************************)
(* The config types Blacklist, Whitelist and RateLimit: loadAllConfigs     *)
(* reads their files line by line in main(), and afterwards the event      *)
(* thread applies one message at a time.  Every bpf() call is a step, since*)
(* xdp_filter is attached and reads the maps all the while.                *)
(*                                                                         *)
(* A line is a sequence of words, and a word a record: a plain "word"      *)
(* with its text, an address "ip", a "subnet" ip/len or a "number".        *)
(***************************************************************************)
EXTENDS FilterMaps, Sequences, FiniteSetsExt

CONSTANTS
  Files,     \* what the files may hold: functions from config type to contents
  NoFile,    \* the file cannot be opened
  Messages,  \* event messages: [type, line], of any type name
  WordMod    \* 2^32: prefixlen and packets_per_second are uint32_t

\* "other" stands for every text that means nothing to the parsers.
Texts == {"", "#", "add", "remove", "enabled", "disabled", "other"}
Words == [is : {"word"}, text : Texts] \cup [is : {"ip"}, ip : IPs]
         \cup [is : {"subnet"}, ip : IPs, len : Nat] \cup [is : {"number"}, n : Int]

\* What the constants stand for.
TypesConstants ==
  /\ \A f \in Files : DOMAIN f = ConfigKeys
  /\ \A f \in Files, t \in ConfigKeys : f[t] = NoFile \/ f[t] \in Seq(Seq(Words))
  /\ \A m \in Messages : m.line \in Seq(Words)
  /\ None \notin Messages
  /\ WordMod \in Nat /\ WordMod > AddrBits
  /\ Keys = [ip : IPs, prefixlen : 0 .. AddrBits]
  /\ Pps = 1 .. WordMod - 1

ASSUME TypesAssumption == TypesConstants

VARIABLES
  file,        \* config type -> contents of its file
  fds,         \* map name -> MapFdManager has a descriptor for it
  type,        \* the config type being loaded, "events" when all are
  reading,     \* its file is open
  rest,        \* lines still to be read
  first_line,  \* loadConfig's flag
  fd,          \* config type -> descriptors it has got: [data, state]
  handled      \* the last event message, None before the first

input == <<file, fds>>
vars == <<configMaps, input, type, reading, rest, first_line, fd, handled>>

TypeOK ==
  /\ MapsTypeOK
  /\ file \in Files
  /\ fds \in [ConfigKeys \cup {"config_state"} -> BOOLEAN]
  /\ type \in ConfigKeys \cup {"events"}
  /\ reading \in BOOLEAN /\ first_line \in BOOLEAN
  /\ rest \in Seq(Seq(Words))
  /\ fd \in [ConfigKeys -> [data : BOOLEAN, state : BOOLEAN]]
  /\ handled \in Messages \cup {None}

Init ==
  /\ MapsInit
  /\ file \in Files
  /\ fds \in [ConfigKeys \cup {"config_state"} -> BOOLEAN]
  /\ type = "blacklist" /\ reading = FALSE /\ rest = <<>> /\ first_line = TRUE
  /\ fd = [t \in ConfigKeys |-> [data |-> FALSE, state |-> FALSE]]
  /\ handled = None

-----------------------------------------------------------------------------
(* Words and lines. *)

word(text) == [is |-> "word", text |-> text]

\* The word at position i of a line, or one that nothing accepts.
Word(line, i) == IF i <= Len(line) THEN line[i] ELSE word("")

enabled == <<word("enabled")>>
disabled == <<word("disabled")>>

\* Neither empty nor a comment.
Significant(line) == line # <<>> /\ line[1] # word("#")

\* Mutant: the prefix length is not checked.
parse_subnet_unchecked(w) ==
  IF w.is = "subnet" THEN {[ip |-> w.ip, prefixlen |-> w.len % WordMod]} ELSE {}

\* The key a word names, if it names one.  What stoul returns is cut to 32
\* bits before the comparison.
parse_subnet(w) ==
  IF w.is = "subnet" /\ w.len % WordMod <= AddrBits
  THEN {[ip |-> w.ip, prefixlen |-> w.len % WordMod]}
  ELSE {}

\* ss >> packets_per_second: a negative number wraps, one that does not fit
\* fails, and 0 is refused.
parse_pps(w) ==
  IF w.is = "number" /\ w.n \in 1 - WordMod .. WordMod - 1 /\ w.n # 0
  THEN {w.n % WordMod}
  ELSE {}

-----------------------------------------------------------------------------
(* updateConfig: at most one bpf() call, which fails without a descriptor. *)

\* Mutant: the state is toggled.
set_state_toggles(t, v) ==
  IF fd[t].state THEN SetState(t, 1 - config_state_map[t]) ELSE UNCHANGED configMaps

set_state(t, v) ==
  IF fd[t].state THEN SetState(t, v) ELSE UNCHANGED configMaps

\* The change a line makes to the data map of its type.
Change(t, line) ==
  LET command == Word(line, 1)
      arg == Word(line, 2)
  IN  /\ fd[t].data
      /\ \/ /\ t \in Lists
            /\ \E key \in parse_subnet(arg) :
                 \/ command = word("add") /\ add_ip_subnets(t, key)
                 \/ command = word("remove") /\ remove_ip_subnets(t, key)
         \/ /\ t = "ratelimit" /\ arg.is = "ip"
            /\ \/ /\ command = word("add")
                  /\ \E pps \in parse_pps(Word(line, 3)) : add_rate_limit(arg.ip, pps)
               \/ command = word("remove") /\ remove_rate_limit(arg.ip)

\* The line has the form that Change needs.
WellFormed(t, line) ==
  /\ Word(line, 1) \in {word("add"), word("remove")}
  /\ IF t \in Lists THEN parse_subnet(Word(line, 2)) # {}
     ELSE /\ Word(line, 2).is = "ip"
          /\ Word(line, 1) = word("add") => parse_pps(Word(line, 3)) # {}

updateConfig(t, line) ==
  CASE Word(line, 1) = word("enabled") -> set_state(t, 1)
    [] Word(line, 1) = word("disabled") -> set_state(t, 0)
    [] WellFormed(t, line) /\ fd[t].data -> Change(t, line)
    [] OTHER -> UNCHANGED configMaps

-----------------------------------------------------------------------------
(* loadAllConfigs: loadConfig of the three types, one after the other. *)

\* loadConfig of the present type returns, whatever it returns.
Return ==
  /\ type' = CASE type = "blacklist" -> "whitelist"
              [] type = "whitelist" -> "ratelimit"
              [] type = "ratelimit" -> "events"
  /\ reading' = FALSE /\ rest' = <<>>

\* The descriptors, then the file.
OpenConfig ==
  /\ type \in ConfigKeys /\ ~reading
  /\ fd' = [fd EXCEPT ![type] =
              [data |-> fds[type], state |-> fds[type] /\ fds["config_state"]]]
  /\ first_line' = TRUE
  /\ IF fd'[type].state /\ file[type] # NoFile
     THEN reading' = TRUE /\ rest' = file[type] /\ UNCHANGED type
     ELSE Return
  /\ UNCHANGED <<configMaps, input, handled>>

SkipLine ==
  /\ reading /\ rest # <<>> /\ ~Significant(Head(rest))
  /\ rest' = Tail(rest)
  /\ UNCHANGED <<configMaps, input, type, reading, first_line, fd, handled>>

\* Mutant: the first line only switches the state.
FirstLineSkipped ==
  /\ reading /\ rest # <<>> /\ Significant(Head(rest)) /\ first_line
  /\ first_line' = FALSE
  /\ IF Head(rest) = disabled
     THEN set_state(type, 0) /\ Return
     ELSE set_state(type, 1) /\ rest' = Tail(rest) /\ UNCHANGED <<type, reading>>
  /\ UNCHANGED <<input, fd, handled>>

\* The first line decides on the state; unless it is "disabled" it is then
\* processed like the others.
FirstLine ==
  /\ reading /\ rest # <<>> /\ Significant(Head(rest)) /\ first_line
  /\ first_line' = FALSE
  /\ IF Head(rest) = disabled
     THEN set_state(type, 0) /\ Return
     ELSE set_state(type, 1) /\ UNCHANGED <<type, reading, rest>>
  /\ UNCHANGED <<input, fd, handled>>

\* Mutant: a line of any type may bring its own command.
command_line_any(t, line) ==
  IF line[1] \in {word("add"), word("remove")} THEN line ELSE <<word("add")>> \o line

\* The lists put "add" before every line, RateLimit before lines without a
\* command.
command_line(t, line) ==
  IF t = "ratelimit" /\ line[1] \in {word("add"), word("remove")}
  THEN line
  ELSE <<word("add")>> \o line

ProcessLine ==
  /\ reading /\ rest # <<>> /\ Significant(Head(rest)) /\ ~first_line
  /\ IF Head(rest) \in {enabled, disabled}
     THEN UNCHANGED configMaps
     ELSE updateConfig(type, command_line(type, Head(rest)))
  /\ rest' = Tail(rest)
  /\ UNCHANGED <<input, type, reading, first_line, fd, handled>>

\* A file without a significant line enables the blacklist and disables the
\* other two.
EndOfFile ==
  /\ reading /\ rest = <<>>
  /\ IF first_line THEN set_state(type, IF type = "blacklist" THEN 1 ELSE 0)
                   ELSE UNCHANGED configMaps
  /\ Return
  /\ UNCHANGED <<input, first_line, fd, handled>>

loadAllConfigs == OpenConfig \/ SkipLine \/ FirstLine \/ ProcessLine \/ EndOfFile

\* The event thread hands a message over; an unknown type is only reported.
processEventMessage(m) ==
  /\ type = "events"
  /\ handled' = m
  /\ IF m.type \in ConfigKeys THEN updateConfig(m.type, m.line)
                              ELSE UNCHANGED configMaps
  /\ UNCHANGED <<input, type, reading, rest, first_line, fd>>

Next == loadAllConfigs \/ \E m \in Messages : processEventMessage(m)

Spec == Init /\ [][Next]_vars

-----------------------------------------------------------------------------
(* Properties. *)

\* loadConfig of t is over and no event has changed its outcome.
Loaded(t) ==
  /\ handled = None
  /\ fds[t] /\ fds["config_state"] /\ file[t] # NoFile
  /\ CASE t = "blacklist" -> type # "blacklist"
       [] t = "whitelist" -> type \in {"ratelimit", "events"}
       [] t = "ratelimit" -> type = "events"

\* What a file says, word by word and without the parsers: the subnet a
\* word names, with a "prefix length (must be 0-32)", and the interval of a
\* number of packets per second.
NamedSubnet(w) ==
  IF w.is = "subnet" /\ w.len <= AddrBits THEN {[ip |-> w.ip, prefixlen |-> w.len]} ELSE {}

NamedLimit(w) == IF w.is = "number" /\ w.n \in Pps THEN {NsPerSec \div w.n} ELSE {}

\* Whether the file enables its type.
FileEnables(t) ==
  LET lines == {i \in DOMAIN file[t] : Significant(file[t][i])}
  IN  IF lines = {} THEN t = "blacklist" ELSE file[t][Min(lines)] # disabled

\* The subnets a list names: "the remaining lines contain only a subnet", and
\* so does the first.
FileNames(t) == UNION {NamedSubnet(file[t][i][1]) :
                         i \in {j \in DOMAIN file[t] : Significant(file[t][j])}}

\* The limit a line sets for ip: a set with an interval or with None, or empty
\* when the line does not concern ip.
LineLimits(line, ip) ==
  LET about(i) == Word(line, i) = [is |-> "ip", ip |-> ip]
  IN  CASE about(1) -> NamedLimit(Word(line, 2))
        [] Word(line, 1) = word("add") /\ about(2) -> NamedLimit(Word(line, 3))
        [] Word(line, 1) = word("remove") /\ about(2) -> {None}
        [] OTHER -> {}

FileLimit(ip) ==
  LET lines == {i \in DOMAIN file["ratelimit"] : LineLimits(file["ratelimit"][i], ip) # {}}
  IN  IF lines = {} THEN None
      ELSE CHOOSE l \in LineLimits(file["ratelimit"][Max(lines)], ip) : TRUE

\* The parsers take a prefix length of 2^32 or more and a negative number of
\* packets modulo 2^32, and accept them for another number.  The file has none.
Unwrapped(w) ==
  /\ w.is = "subnet" => w.len < WordMod
  /\ w.is = "number" => w.n >= 0

FileUnwrapped(t) ==
  \A i \in DOMAIN file[t] : \A j \in DOMAIN file[t][i] : Unwrapped(file[t][i][j])

\* A type whose file could be read is in the state its file describes, up to
\* the capacity of its map and if no number wraps: the lists cover the
\* addresses of the subnets the file names, the last line about an address
\* gives its limit, and a bad line or a failed type in between costs nothing
\* else.
LoadedAsWritten ==
  \A t \in ConfigKeys : Loaded(t) =>
    /\ is_config_enabled(t) <=> FileEnables(t)
    /\ FileEnables(t) /\ FileUnwrapped(t) =>
         /\ t \in Lists /\ Cardinality(FileNames(t)) <= MaxEntries =>
              \A ip \in IPs : Listed(t, ip) <=> \E key \in FileNames(t) : Covers(key, ip)
         /\ t = "ratelimit" /\ Cardinality(IPs) <= MaxEntries =>
              \A ip \in IPs : ip_rate_limits_map[ip] = FileLimit(ip)

\* xdp_filter is attached while the files are loaded.  Loading the blacklist
\* never makes an address acceptable that was rejected, and after the step that
\* enables it loading the whitelist never makes one rejected that was accepted.
LoadMonotone ==
  [][ \A ip \in IPs :
        /\ type = "blacklist" /\ Rejected(ip) => Rejected(ip)'
        /\ type = "whitelist" /\ ~first_line /\ reading /\ Rejected(ip)' => Rejected(ip) ]_vars

\* The maps say what message m says, up to the capacity of the map it is about.
Effective(m) ==
  LET command == Word(m.line, 1)
      arg == Word(m.line, 2)
      says(text) == command = word(text)
  IN  m.type \in ConfigKeys =>
        /\ says("enabled") => is_config_enabled(m.type)
        /\ says("disabled") => ~is_config_enabled(m.type)
        /\ m.type \in Lists => \A key \in parse_subnet(arg) :
             LET present == \E k \in subnets_map[m.type] : SameNode(k, key)
             IN  /\ says("add") => present \/ Cardinality(subnets_map[m.type]) >= MaxEntries
                 /\ says("remove") => ~present
        /\ m.type = "ratelimit" /\ arg.is = "ip" =>
             /\ says("add") => \A pps \in parse_pps(Word(m.line, 3)) :
                  \/ ip_rate_limits_map[arg.ip] = NsPerSec \div pps
                  \/ Cardinality(Limited) >= MaxEntries
             /\ says("remove") => ip_rate_limits_map[arg.ip] = None

\* All that loading and messages ever do to the maps are single updates of
\* FilterMaps, on keys with a valid prefix length and non-zero limits: what
\* XdpFilter assumes of user space.
MapsSpec == MapsInit /\ [][MapUpdate]_configMaps
=============================================================================

# PacketFilter: a TLA+ model, its checks and its proofs

Paths below are relative to the repository root. The program that
`src/CMakeLists.txt` builds has three parts that run concurrently:

* **`xdp_filter`** (`src/packetfilter.bpf.c`), an XDP program the kernel runs on
  every CPU that receives packets. For each IPv4 packet it reserves a record in
  a ring buffer, finds or creates the per-address counters, checks the
  whitelist, the blacklist and the rate limit of the source address, counts the
  verdict and submits the record.
* **User-space configuration** (`src/config`): three config types load
  files into BPF maps at start-up, and an inotify thread applies one-line
  messages from an event file to the same maps while traffic flows.
* **The access log** (`src/logger`, `include/logger`): a thread polls the ring
  buffer through libbpf, buffers the records and hands them to an spdlog thread
  pool with a bounded queue. `main` stops this thread first, then the
  configuration thread, then spdlog.

They interact only through the BPF maps (user space writes, `xdp_filter` reads)
and the ring buffer (`xdp_filter` produces, the log thread consumes).

## Inventory

| Part | Source | Module | Status |
|---|---|---|---|
| `xdp_filter` | `src/packetfilter.bpf.c` | `XdpFilter` | modelled |
| BPF maps, the leaf operations of the config types | `src/packetfilter.bpf.c`, `src/config/type` | `FilterMaps`, `Addresses`, `XdpFilter` | modelled |
| ring buffer | `src/packetfilter.bpf.c`, `libbpf/src/ringbuf.c` | `PacketRing`, `RingMemory` | modelled |
| access log writer, spdlog shutdown | `src/logger`, `include/logger`, `src/main.cpp` | `AccessLog` | modelled |
| `LogManager` | `include/logger/LogManager.h` | `Lifecycle` | modelled |
| `loadConfig`, `updateConfig`, parsing | `src/config/type` | `ConfigTypes` | modelled |
| `ConfigManager` | `src/config/ConfigManager.cpp` | `ConfigTypes`, `EventSource`, `Reconfigure`, `Lifecycle` | modelled |
| `FileEventSource` | `src/config/FileEventSource.cpp` | `EventSource`, `Reconfigure`, `Lifecycle` | modelled |
| start-up and shutdown, `MapFdManager` | `src/main.cpp`, `src/MapFdManager.cpp` | `Lifecycle` | modelled |
| legacy program | `src/packetfilter.cpp`, `src/packet_filter.*` | none | cannot be built, not modelled |
| vendored trees | `libbpf`, `bpftool`, `blazesym`, `tools`, `vmlinux.h` | none but `ringbuf.c` | third-party |

The program's own code is about 3,000 lines, the legacy program included; the
vendored trees are more than 99 % of the repository.

## The modules

**`Addresses`** gives the LPM trie's view of addresses: `Covers(key, ip)` says
that the first `prefixlen` bits agree, `SameNode` that two keys name the same
trie node. Addresses have `AddrBits` bits (32 in the code).

**`FilterMaps`** holds `config_state_map`, the two tries (`subnets_map`) and
`ip_rate_limits_map`. Its operations are the functions of `Blacklist`,
`Whitelist` and `RateLimit` that make one `bpf()` system call each; such a call
is atomic with respect to a lookup. All maps share the capacity `MaxEntries`,
and a full map refuses a new entry, which the callers only report. An interval
is `NsPerSec \div pps`, truncated as in the code.

**`PacketRing`** is the ring buffer: records in reservation order, busy until
submitted in place, and a consumer that stops at a busy head. `FifoSpec` is its
promise as an abstract specification. One record stands for its share of the
16 MB, so `RingSize` counts records.

**`RingMemory`** is the same ring as memory: data pages of `Words` words used modulo
their size, a header with length and busy bit before every sample, `producer_pos`
written by the kernel and `consumer_pos` written by libbpf. Reserve, filling in the
sample, the verdict, submit and the wake-up are separate steps of a CPU; the steps of
the reader follow `ringbuf_process_ring`. `consumer_pos` is what the kernel sees; it
lags behind the reader's `cons_pos` until `Visible`, because `smp_store_release`
followed by `smp_load_acquire` may be reordered. The kernel's submit wakes the
reader only if `consumer_pos` has come up to the record. `ready` is the
ready list of epoll, level-triggered. The kernel's half (the `bpf_ringbuf_*` helpers
and epoll) is not in the repository and is marked external. The refinement
`MemoryIsRing` connects the module to `PacketRing`, on which `XdpFilter` and
`AccessLog` are built.

**`XdpFilter`** runs `xdp_filter` on each CPU of `CPUs`. `pc[c]` is the place
in the function and `pkt[c]` its locals. Each access to a map or to the ring is
one action, so any other CPU, the configuration thread and the log thread may
act between two of them. Header parsing is reduced to its two outcomes.
A hash map (`HashMaps`) has elements with an identity, a link from each address to
its element and one spare element per CPU, as the kernel preallocates them:
`bpf_map_update_elem(BPF_ANY)` of an address that has an element writes the spare
one and keeps the replaced one as the next spare. A CPU may thus go on counting in an
element that has been replaced, and that has been given to another address since.
For the limits, which user space changes, `PacketInterval` allows a read through the
pointer to yield any limit as soon as two updates have happened since the packet
arrived, the fewest that can free an element and fill it again.
`Steer` says which CPUs can receive packets of an address: one CPU
with flow steering per address, several when the NIC spreads its flows.
`current_time - last_timestamp` is unsigned, modulo `TimeMod` (2^64).
`reserved`, `verdicts`, `admitted` and `seen` are history variables.

**`AccessLog`** is the log thread with `ring_buffer__poll`, `BufferContext`,
the spdlog queue and the shutdown sequence of `main`. `worker` is the place in
`process()`, `flush` is a sub-routine that returns to `after`. The record stays
in the ring while its callback runs, as in `ringbuf_process_ring`. The queue
blocks when it is full (spdlog's default overflow policy). A failing thread
start, a missing logger or ring buffer and a poll error are alternatives of
`Init`, `Start` and `Poll`. `PollMax` stands for `INT_MAX`.

**`ConfigTypes`** is `loadAllConfigs`, which reads the three files line by line,
followed by `processEventMessage` for any sequence of messages. The three
classes share one set of actions, with their differences (the default of an
empty file, the "add" prefix, the arguments) at the places where the code
differs. A line is a sequence of words; a word is a keyword, an address, a
subnet or a number, so that tokenising is assumed and the interpretation of the
words, with the 32-bit wrap of prefix lengths and of packets per second
(`WordMod`), is modelled. Every file may be missing and every map may lack its descriptor
(`fds`); `fd` holds what a type has got, and a `bpf()` call without a
descriptor fails. `Return` goes on with the next type whatever `loadConfig`
returned, as `loadAllConfigs` does.

**`EventSource`** is the inotify thread (`run`), its start and stop by
`ConfigManager`, and a writer of the event file that truncates, writes in one or
two pieces and closes, or renames another file over it, or removes it. The watch belongs
to the file, not to its name: a replaced file yields one last event
(`IN_IGNORED`), after which nothing is reported. Messages are numbers, and
`whole` tells a complete line from half of one.

**`Reconfigure`** puts `EventSource` and `ConfigTypes` together as `ConfigManager`
does: `main` loads the files and starts the listener, whose callback is
`processEventMessage`. Messages get their contents (`text`); a line read while it is
half written is one of the lines `Torn` gives for it, a subnet or a number cut short
or a command without argument, and is applied as such.

**`Lifecycle`** is `main` from `getInterface` to the static destructors. Each call
that can fail does so as an alternative of its action: `return 1`, an
exception to the outer `catch`, or the failure that `main` survives. `alive` is the
set of objects that exist, `fds` the descriptor table, in which the kernel gives
out the lowest free number again. The listener and the log thread appear as users of
objects and descriptors. A signal may come at any time.

The modules are connected by refinement and by composition: `MapsSpec` says that
everything `ConfigTypes` does to the maps, driven by the listener of `Reconfigure` or
not, is a `MapUpdate` of `FilterMaps`, and
`MapUpdate` is the only thing `XdpFilter` assumes of user space; `MemoryIsRing` that
the shared pages are the ring of `XdpFilter` and `AccessLog`; `RingIsFifo` and
`LogIsFifo` that both use it as a queue.

The `MC` modules hold the instances for TLC, the modules named `...Proofs` the theorems.
Operators whose comment begins with "Mutant:" are small faults of the code; they
are used by no specification and record which fault each property detects.

## What the runs check

| Run | Instance | Shows |
|---|---|---|
| `xdp_updates` | 1 CPU, 2 addresses, timestamp map of 1 entry, 1 or 2 packets per second of 3 time units, up to 4 updates | `OneUpdateVerdict`: the list checks make four reads, yet a packet that overlaps at most one update gets the verdict of the maps before or after it; `SpacedWhenSteered`, `WindowBound` while limits are set, changed, removed and switched: an address with room in the map stays limited; `RingDrains`: every record leaves the ring |
| `xdp_races` | 3 CPUs, 3 addresses, stats map of 2 entries, ring of 3, 4 packets | `SlotAccounting`, `SlotOwnership` on every return path of `xdp_filter`, also when an address has no counters or the ring no room; that the ring is used as `FifoSpec` (`RingIsFifo`); `NeverOvercounted`: replaced and re-used elements may credit a count to another address or lose it, but never add one; `ExactWhenSteered`: all of that leaves an address alone whose packets arrive on one CPU |
| `ring_memory` | 2 producers, ring of 16 words (2 records of 6, wrapping), 4 records | `MemoryIsRing`, `DeliveredAsWritten`: no record is overwritten before it is read, `NoRecordStranded`: no wake-up is lost, and `SleeperIsWoken`, why: a reader that sleeps on a record has the wake-up of its producer still to come |
| `log` | 2 CPUs, ring and buffer of 2, queue of 1 | `LogIsFifo`: ring, buffer and queue implement one queue; `NothingHeldBack` after shutdown; `StopTerminates` under continuous traffic, `BufferFlushed`, `RingRelieved` |
| `config_load` | blacklist and whitelist files of up to 2 lines of 10 kinds, ratelimit files of up to 3, any descriptor or file missing | `LoadedAsWritten`: each type is what a reading of its whole file says, if no number in it wraps; the last valid line about an address decides on its limit; `LoadMonotone`: loading the blacklist never re-admits an address, and once the whitelist is enabled each entry only widens it; `MapsSpec` |
| `reconfigure` | 3 messages in 6 scripts, 1 failed poll | `LastMessageEffective`: a reported message is in the maps for good until a newer one is begun; `EffectiveAtRest`: it is whenever the listener waits with nothing pending, if its type got its descriptors; `NoLostWakeup`, `RepeatIsNoop`: a message delivered twice changes nothing; `StopTerminates`, no deadlock |
| `lifecycle` | 4 descriptor numbers | `ResourcesAlive`: no thread outlives what it uses, and the second `close` of the inotify descriptor (`FileEventSource.cpp:61` and the destructor) hits nobody; `NothingLeftBehind`; `SignalEnds`; `FilterComesUp`: neither a listener whose `start()` returned false nor a failing log keeps `main` from its loop; no deadlock |

Five runs state what a comment of the code says and find it violated:

* `xdp_rate_rss`: "Minimum interval between packets" (`src/packetfilter.bpf.c:31`)
  fails when two CPUs receive one address, because the timestamp is looked up,
  inserted, compared and stored in separate steps. The shortest trace has two CPUs
  that both find none (lines 228-232).
* `xdp_rounding`: "Maximum packets per second allowed" (line 30) fails on one CPU:
  the interval is rounded down (`src/config/type/RateLimit.cpp:152`), so a second has
  room for more packets when `1000000000 / pps` has a remainder (70004 for a limit of
  70000, whose interval is 14285 ns), and for any number when the interval is 0.
  `WindowBound` states the bound that does hold.
* `xdp_stats_rss`: "Number of dropped packets" and "Number of passed packets"
  (lines 24-25) fail when two CPUs create the counters of one address.
* `xdp_no_reader`: "logging failure shouldn't stop the filter"
  (`src/main.cpp:116`) fails because a packet without a log record is passed
  unchecked (`src/packetfilter.bpf.c:180-183`).
* `lifecycle_listener`: "Start config event listener (handles failures gracefully)"
  (`src/main.cpp:101`), after which "Main thread continues running"
  (`src/config/ConfigManager.cpp:97`), fails when `std::thread` throws
  (`src/config/FileEventSource.cpp:67`): the exception reaches the outer `catch` of
  `main`, and the filter is detached.

`LoadedAsWritten` compares the maps with a reading of the file that uses none of the
parsers: a line of a list names a subnet if its first word is an address with a length of
at most `AddrBits`, and the last line that gives an address a positive number, or
removes it, decides on its limit. It leaves out the files with a number that wraps (`FileUnwrapped`),
because there the code does differ from such a reading: a prefix length of 2^32 + 1 is
cut to 32 bits before it is compared with 32 and accepted as 1, although the message
says "must be 0-32" (`src/config/type/Whitelist.cpp:33-35`), and a negative number of
packets per second becomes a large one (`src/config/type/RateLimit.cpp:123-126`). The
model has both; `MapsSpec` says that what reaches the maps is still a valid key and a
non-zero limit. In a list a line that brings a command names nothing:
`Blacklist` and `Whitelist` put "add " in front of every line, so it is refused,
although two comments (`src/config/type/Blacklist.cpp:111-113` and `127-128`) expect
"add" and "remove" there, while the one in between (`122-124`) says that lines hold
only subnets.

**Bounds.** `MaxPackets`, `MaxUpdates` and `MaxTime` end each behaviour of
`XdpFilter`, and `MaxRecords` each of `RingMemory`, so these runs do not check
deadlock; `AccessLog`, `Reconfigure` and `Lifecycle` are checked for it. The races
need two CPUs, since each involves a pair of accesses; a third lets two insertions
replace the element a packet counts in, so that it is used again. 1-bit
addresses give two hosts and the /0 and /1 subnets, among them a
/0 subnet written with a host bit set. In `xdp_races` the third address finds the
stats map full and is counted only globally, and the fourth packet can find the ring
full. A second of 1 time unit gives the intervals 1 and 0 there, so that time need not
pass to have packets admitted by the check and dropped by it. In `xdp_updates` a
second of 3 time units is divided by 2 with a remainder and is over before the clock
stops. It has as many updates as it takes to enable limits, set one, and change it twice under
a packet, and as many packets as it takes to drop one between two that are admitted.
In `ring_memory` the four records of six words wrap around a ring of sixteen and
meet it full; the same instance with two addresses has been checked as well (1.9
million states). `MaxFd` 3 is as many descriptors as are open at once.
In `ConfigTypes` a machine word holds 0 to 7 (`WordMod` 8), enough for a prefix
length that is too large, one that wraps to a valid one, and a negative number.
The lines of `MCConfigTypes` are one of each kind the parsers tell apart; two
lines are a first and a later one, and a third lets a limit be set, removed and set
again. Loading ends and messages need not come, so deadlock is not checked there.
`MaxMessages` 3 lets a message arrive while the one before is being read and an
older one is the last applied.

`UpdatesSpec` and `RacesSpec` restrict the environment of `xdp_filter` only: arrivals,
updates and the clock. Packets under way and the reader go on in every state, so
fairness keeps its meaning. In `xdp_updates` updates change either lists, while
time stands still, or limits, while every frame carries IPv4, and updates and packets
together are at most 6 (7 when an address finds no room in the timestamp map,
`UpdatesBound`). In `xdp_races` either four packets meet with empty lists and limits, or two with lists
and limits that were set while no packet was in flight. `Scripted` of `reconfigure` selects initial states (contents of
messages and descriptors never change), so no behaviour is cut in the middle and
liveness is checked soundly; the scripts undo, repeat and mix messages.

**Fairness.** `WF` of `xdp_filter(c)`: the kernel runs a started BPF program to
its end. `WF` of `Drain` stands for the polling log thread; `xdp_no_reader` drops it.
In `RingMemory` a producer finishes, the reader keeps polling and a store becomes
visible in the end. In `AccessLog` the worker, the spdlog thread and the joining
`main` are scheduled threads, and `Expire` is the passing of time. In
`EventSource` and `Reconfigure` the listener thread and a shutdown that has begun are
scheduled and the kernel delivers `IN_IGNORED`; `poll` may fail only `MaxErrors`
times. In `Lifecycle` all threads are scheduled, and the log thread need not
stop unless it is told to. No fairness is assumed of traffic, configuration updates,
the writer of the event file or signals.

## What is proved

TLAPS checks these for every value of the constants that satisfies the named
assumptions of the modules (`AddressAssumption`, `MapsAssumption`, `RingAssumption`,
`XdpAssumption`, `TypesAssumption`, `EventAssumption`, `ReconfigureAssumption`,
`LogAssumption`, `MemoryAssumption`, `FdAssumption`, each where its module is used). Each theorem
rests on an inductive invariant, which TLC has checked as well.

`xdp_filter`, in `XdpFilterProofs`, `XdpPacketProofs` and `XdpHashProofs`:

* `TypeCorrect`: `Spec => [](TypeOK /\ Locals)`. `TypeOK` is not
  inductive: a counter is written through a pointer. `Locals` says for every
  place in `xdp_filter` what the locals hold there: the address is IPv4, the
  record is held from `reserve` on, the pointers are elements of their map and not
  NULL where they are dereferenced.
* `OwnershipCorrect`, `RingRefinesFifo`, `AccountingCorrect`:
  `SlotOwnership` is inductive given `TypeCorrect`. It says that a CPU about to
  reserve has no record in flight and that one about to submit has one, which is
  what the two steps of `FifoSpec` need. `SlotAccounting` needs that a step moves
  one CPU in or out of the set of CPUs that still have to count.
* `VerdictCorrect`: `OneUpdateVerdict` is about the end of a path,
  so the invariant `ListInv` carries the reads forward: as long as no update has
  been seen, what was read is what the maps hold; after one, every verdict the
  reads already allow was the verdict of the maps before or after it.
* `ExactCorrect`, `SpacedCorrect`: `SteeredInv` says of an address that one CPU
  receives that an element named after it is linked to it or not in use, never a
  spare or another address's, that only the packet on its CPU has a pointer
  to it, and that a full map stays full. So no other CPU writes its counters or its
  timestamp, in spite of the elements that are replaced and used again. The
  timestamp is the time of the last admission and the clock does not go
  back, hence the unsigned difference is the real one. TLC checks `SpacedWhenSteered`
  on one CPU only; that other CPUs may insert timestamps of other addresses into
  the same map at any moment is covered by this proof alone.
* `WindowCorrect`: follows from `SpacedWhenSteered`. Between the first and the last
  admission of a second lie as many intervals as packets less one (`Chain`).
* `OvercountCorrect`: `Spec => []NeverOvercounted`. The invariant it needs is
  `Unshared`: no element of `ip_stats_map` has two owners, each being linked for one
  address, the spare of one CPU, or still on the free list. So a CPU that counts through
  its pointer adds to the counters of at most one address, whichever that is by now, and
  exactly one verdict is logged in the same step; an insertion only zeroes the
  counters of its own address. The sums are `MapThenSumSet` over the addresses;
  `FoldExists` shows that its recursive definition has a solution, and `FoldDiffers`
  that two functions that differ in one place differ by as much in their sums.

The ring buffer in shared memory, in `RingMemoryProofs`:

* `TypeCorrect`, `DeliveredCorrect`: the four positions are multiples of the
  record length, in the order `consumer_pos`, `cons_pos`, `prod_pos`,
  `producer_pos`, and less than one length of the ring apart (`PosInv`); so two words
  between them never share a place (`Apart`, `OtherWords`), wherever records wrap. A record in flight
  belongs to one CPU and lies ahead of `cons_pos` (`OwnerInv`); its header has the
  busy bit exactly while it is owned, and the words of a complete record are what
  was written (`RecordInv`). The reader passes a header only without the busy bit.
* `MemoryRefinesRing`: `Spec => MemoryIsRing`. Under the invariant the words between
  the two positions say the same as the histories, with the records busy that are
  owned (`InvBar`). Then reserve, submit and the moment a store of
  `consumer_pos` becomes visible are the three steps of the queue, and every other step
  leaves it alone.
* `SleeperCorrect`: `Spec => []SleeperIsWoken`. `WakeInv` says that the ring is on the
  ready list while the reader works through it, and that a reader that would sleep has
  `consumer_pos` and `cons_pos` equal, with the ring empty or the producer of the record at that position
  still to come to its wake-up. This is the safety half of `NoRecordStranded`.

The access log, in `AccessLogProofs`:

* `TypeCorrect`, `NothingHeldBackCorrect`: `WorkerInv` says that outside `flush` the buffer
  has room and nothing of it has been handed over, that it is empty wherever the log
  thread may be gone, and that `main` drains the queue only when it is.
* `LogRefinesFifo`: `Spec => LogIsFifo`, by one step per action. The abstract queue is
  the spdlog queue, the part of the buffer not handed over and the ring, without its
  head while that is in the buffer already (`Held`). `TakenInv` says that nothing busy has been
  taken, so a submit changes only what is in the ring.

Configuration, in `ConfigTypesProofs` and, for the event source and the two together,
`ReconfigureProofs`:

* `LoadedCorrect`: `LoadedAsWritten` compares a loaded type with its whole file. The
  invariant `LoadedInv` says that the maps hold of the type being loaded what
  the lines read so far say (`Holds(t, n)` for the first n lines), of the types before it what
  their files say, and of the types after it nothing. A trie that holds only subnets
  of the file never refuses the next one if they all fit. `NamedParsed` and
  `LimitsParsed` connect what a line says, in the reading of `LoadedAsWritten`, with what the
  parsers make of it when nothing wraps, and `LastLine` the last line about an address
  with the one that was applied last.
* `MonotoneCorrect`: `Spec => LoadMonotone`. An insertion into a trie replaces an
  entry only by one that covers the same addresses, so lists grow while
  they are loaded; and the whitelist is off until the blacklist is complete.
* `TypeCorrect` and `UpdatesRefineMaps` (`Spec => MapsSpec`), for any files and
  messages. The invariant `LoadInv` keeps the lines still to be read within the
  lines of the file; `ParsedSubnet` and `ParsedPps` say that what the parsers
  return is a valid key and a non-zero limit in spite of the wrap.
* `WakeupCorrect`: `Spec => [](TypeOK /\ NoLostWakeup)`.
  `NoLostWakeup` alone is not inductive: `MainInv` ties the thread and the watch
  to how far `start` and `stop` have got, `FileInv` the writer's place to the file,
  and `LineInv` says that no line in flight is newer than the last message and
  that none older is on its way once the last one has been applied.
* `ReconfigureRefinesTypes`: `ReconfigureSpec => Types!Spec`. A line that the thread
  calls back with is never empty (`CallbackInv`), so what it amounts to, half
  written or not, is a message. The lemmas of `ConfigTypesProofs` are used here through an
  instance of that module; the lemmas `Same...` say that its definitions are those of `Types`.
  `ReconfigureRefinesMaps`, `ListenerCorrect` and `ReconfigureTypeCorrect` carry the
  results about the parts over to the whole.
* `RepeatCorrect`: `ReconfigureSpec => RepeatIsNoop`. `HandledDone` says that the maps
  are a fixed point of `updateConfig` of the last message handled (`Done`): adding a
  subnet twice, removing it twice or limiting an address twice is the same as once
  (`Twice`, `LimitTwice`), also when the map is full.
* `RestCorrect`: `ReconfigureSpec => []EffectiveAtRest`. At rest `NoLostWakeup` leaves
  only that the last message has been applied whole; then it is the message handled last
  (`CallbackInv`), its work is done (`HandledDone`), and with its descriptors that is what it
  says (`DoneEffective`). This is the safety half of `LastMessageEffective`.

`main`, in `LifecycleProofs`:

* `TypeCorrect`, `ResourcesCorrect`, `NothingLeftCorrect`: `AliveInv` gives the objects
  that exist at each place in `main`, `ThreadInv` the threads that may run there,
  and `FdInv` says that every open descriptor is known to whoever opened it.
  There is at most one of each of four kinds, so a number is free when one is opened
  (`FdAssumption`), and the number that `start()` leaves behind when `eventfd()`
  fails is not given out again before the destructor closes it.

Only model-checked:

* the liveness properties: fairness and `ENABLED` are outside the prover. Of
  `NoRecordStranded` and `LastMessageEffective`, `SleeperCorrect` and `RestCorrect` prove what
  must hold where the reader or the listener waits; that they get there is left to TLC.

Every invariant, action property and refinement that a passing run checks has a theorem.
Induction over data is used in `XdpHashProofs`, over the natural numbers, and in
`XdpFilterProofs`, over the subsets of a finite set, each time as the choice of a least counterexample (`Least`),
because no prover instantiates the induction theorems of the library. The modules use
no `RECURSIVE` operator.

## Not modelled

* The legacy program (`src/packetfilter.cpp`, `src/packet_filter.*`): `CMakeLists.txt`
  does not name it, and it uses `skel->maps.update_signal_map`
  (`src/packetfilter.cpp:383`), which `src/packetfilter.bpf.c` does not define.
* The vendored libraries and tools, but for the ring buffer reader of libbpf.
* `bpf_map_update_elem` failing for lack of memory or a busy bucket, wall-clock time
  stamps, the log's text and file rotation. Torn or lost increments do not occur:
  the code uses `__sync_fetch_and_add`.
* Of the configuration, white space within lines, digits followed by other text and
  numbers beyond 64 bits, which are left to the tokenising.
* A second start of the daemon on the same interface: no state outlives the process.

What the models include and no property forbids, because the repository promises
nothing about it: packets pass unchecked between attach and the end of
`loadAllConfigs`; a message written after the files are loaded and before the
watch is in place is not reported; after the first replacement of the event
file later messages are not noticed; a subnet named by half a line stays listed; and
between `stopLogListener` and the destruction of the link the ring may fill up.

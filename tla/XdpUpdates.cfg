SPECIFICATION UpdatesSpec
CONSTANTS
  c1 = c1
  c2 = c2
  c3 = c3
  CPUs = {c1}
  IPs = {0, 1}
  AddrBits = 1
  Keys <- MCKeys
  Pps = {1, 2}
  NsPerSec = 3
  MaxEntries = 1
  None = None
  RingSize = 1
  Steer <- AnyCPU
  NotIPv4 = NotIPv4
  TimeMod = 64
  MaxTime = 3
  MaxPackets = 3
  MaxUpdates = 4
INVARIANTS TypeOK OneUpdateVerdict SpacedWhenSteered WindowBound
PROPERTY RingDrains
CHECK_DEADLOCK FALSE
